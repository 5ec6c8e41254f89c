--------------------------- MODULE TrapdoorProofs ---------------------------
(***************************************************************************)
(* Proofs about Trapdoor, for every modulus, base, number of places and    *)
(* rows: what the digit loop keeps, and what the verdict about a witness   *)
(* comes from.                                                             *)
(***************************************************************************)
EXTENDS Trapdoor, ModularSums

-----------------------------------------------------------------------------
(* Powers of the base.                                                     *)

(* p has the powers of the base up to the n-th.                            *)
PowersTo(p, n) == \A j \in Nat : j <= n => p[j] = IF j = 0 THEN 1 ELSE Base * p[j - 1]

(* The powers up to a place exist for every place, and there is one way to *)
(* have them.                                                              *)
LEMMA PowersExist == \A n \in Nat : \E p : PowersTo(p, n)
  <1> DEFINE N == {n \in Nat : \E p : PowersTo(p, n)}
  <1>1. 0 \in N
    <2>1. PowersTo([j \in Nat |-> 1], 0)
      BY DEF PowersTo
    <2> QED
      BY <2>1
  <1>2. ASSUME NEW n \in Nat, n \in N PROVE n + 1 \in N
    <2>1. PICK p : PowersTo(p, n)
      BY <1>2
    <2> DEFINE r == [j \in Nat |-> IF j <= n THEN p[j] ELSE Base * p[n]]
    <2>2. ASSUME NEW j \in Nat, j <= n + 1
          PROVE  r[j] = IF j = 0 THEN 1 ELSE Base * r[j - 1]
      <3>1. CASE j <= n
        <4>1. p[j] = IF j = 0 THEN 1 ELSE Base * p[j - 1]
          BY <2>1, <3>1 DEF PowersTo
        <4>2. j # 0 => j - 1 \in Nat /\ j - 1 <= n
          BY <3>1
        <4> QED
          BY <3>1, <4>1, <4>2
      <3>2. CASE j = n + 1
        BY <3>2
      <3> QED
        BY <2>2, <3>1, <3>2
    <2>3. PowersTo(r, n + 1)
      BY <2>2 DEF PowersTo
    <2> QED
      BY <2>3
  <1> HIDE DEF N
  <1>3. \A n \in Nat : n \in N
    BY <1>1, <1>2, NatSets
  <1> QED
    BY <1>3 DEF N

(* Two tables of powers agree wherever both have entries.                  *)
LEMMA PowersAgree ==
    ASSUME NEW m \in Nat, NEW n \in Nat, m <= n, NEW p, PowersTo(p, m), NEW r, PowersTo(r, n)
    PROVE  p[m] = r[m]
  <1> DEFINE N == {j \in Nat : j <= m => p[j] = r[j]}
  <1>1. 0 \in N
    BY DEF PowersTo
  <1>2. ASSUME NEW j \in Nat, j \in N PROVE j + 1 \in N
    <2>1. ASSUME j + 1 <= m PROVE p[j + 1] = r[j + 1]
      <3>1. p[j + 1] = Base * p[(j + 1) - 1] /\ r[j + 1] = Base * r[(j + 1) - 1]
        BY <2>1 DEF PowersTo
      <3>2. (j + 1) - 1 = j /\ p[j] = r[j]
        BY <1>2, <2>1
      <3> QED
        BY <3>1, <3>2
    <2> QED
      BY <2>1
  <1> HIDE DEF N
  <1>3. m \in N
    BY <1>1, <1>2, NatSets
  <1> QED
    BY <1>3 DEF N

(* The recursion equation of Power.                                        *)
LEMMA PowerRecursion ==
    \A j \in Nat : Power[j] = IF j = 0 THEN 1 ELSE Base * Power[j - 1]
  <1> DEFINE P(n) == CHOOSE p : PowersTo(p, n)
             pow == [n \in Nat |-> P(n)[n]]
             Equation(f) == f = [j \in Nat |-> IF j = 0 THEN 1 ELSE Base * f[j - 1]]
  <1>1. \A n \in Nat : PowersTo(P(n), n)
    BY PowersExist
  <1>2. ASSUME NEW j \in Nat PROVE pow[j] = IF j = 0 THEN 1 ELSE Base * pow[j - 1]
    <2>1. P(j)[j] = IF j = 0 THEN 1 ELSE Base * P(j)[j - 1]
      <3> HIDE DEF P
      <3> QED
        BY <1>1 DEF PowersTo
    <2>2. ASSUME j # 0 PROVE P(j)[j - 1] = P(j - 1)[j - 1]
      <3>1. j - 1 \in Nat /\ j - 1 <= j
        BY <2>2
      <3>2. PowersTo(P(j), j) /\ PowersTo(P(j - 1), j - 1)
        BY <1>1, <3>1
      <3> HIDE DEF P
      <3> QED
        BY <3>1, <3>2, PowersAgree
    <2> HIDE DEF P
    <2> QED
      BY <2>1, <2>2
  <1>3. Equation(pow)
    <2> HIDE DEF P
    <2> QED
      BY <1>2
  <1>4. Power = CHOOSE f : Equation(f)
    BY DEF Power
  <1> HIDE DEF pow
  <1>5. Equation(Power)
    BY <1>3, <1>4
  <1> QED
    BY <1>5

(* Powers are positive whole numbers, each the base times the one before.  *)
LEMMA PowerFacts ==
    /\ Power[0] = 1
    /\ \A j \in Nat : Power[j] \in Nat /\ Power[j] > 0 /\ Power[j + 1] = Base * Power[j]
  <1> DEFINE N == {j \in Nat : Power[j] \in Nat /\ Power[j] > 0}
  <1>0. Base \in Nat /\ Base > 1
    BY ParametersAssumption, ModulusAssumption
  <1>1. Power[0] = 1
    BY PowerRecursion
  <1>2. \A j \in Nat : Power[j + 1] = Base * Power[j]
    <2>1. \A j \in Nat : j + 1 \in Nat /\ j + 1 # 0 /\ (j + 1) - 1 = j
      OBVIOUS
    <2> QED
      BY <2>1, PowerRecursion
  <1>3. ASSUME NEW j \in Nat, j \in N PROVE j + 1 \in N
    <2>1. PICK p \in Nat : p = Power[j] /\ p > 0
      BY <1>3
    <2>2. Base * p \in Nat /\ Base * p > 0
      BY <1>0, <2>1
    <2> QED
      BY <1>2, <2>1, <2>2
  <1>4. 0 \in N
    BY <1>1
  <1> HIDE DEF N
  <1>5. \A j \in Nat : j \in N
    BY <1>3, <1>4, NatSets
  <1> QED
    BY <1>1, <1>2, <1>5 DEF N

-----------------------------------------------------------------------------
(* Reduction, and the linear algebra of a preimage.                        *)

(* What the proofs use of the modulus and the base.                        *)
LEMMA QFacts == Q \in Nat /\ Q > 4 /\ Q \in Int /\ Base \in Nat /\ Base > 1
  BY ParametersAssumption, ModulusAssumption

(* Reduction changes a number by a multiple of q and ends below q.         *)
LEMMA Reduces ==
    ASSUME NEW a \in Int
    PROVE  ModReduce(a) \in 0..(Q - 1) /\ Congruent(ModReduce(a), a)
  BY Residue DEF ModReduce

(* A row of the public matrix, [a | g - a D], times [p | e] for            *)
(* p = R e + noise: the gadget part makes the target less a noise, and     *)
(* what is over is a times the difference of R e and D e.                  *)
LEMMA PreimageRow ==
    ASSUME NEW S, IsFiniteSet(S), NEW U, IsFiniteSet(U),
           NEW a, IntsOn(a, S), NEW e, IntsOn(e, U), NEW w, IntsOn(w, S),
           NEW d, \A j \in S : IntsOn(d[j], U),
           NEW r, \A j \in S : IntsOn(r[j], U),
           NEW g, IntsOn(g, U),
           NEW b, \A c \in U : Congruent(b[c], g[c] - Dot(a, ColumnOn(d, c, S), S)),
           NEW p, \A j \in S : Congruent(p[j], Dot(r[j], e, U) + w[j]),
           NEW m, \A j \in S : Congruent(m[j], Dot(r[j], e, U) - Dot(d[j], e, U)),
           NEW t \in Int, Congruent(Dot(g, e, U), t - Dot(a, w, S))
    PROVE  Congruent(Dot(a, p, S) + Dot(b, e, U), t + Dot(a, m, S))
  <1> DEFINE re == [j \in S |-> Dot(r[j], e, U)]
             de == [j \in S |-> Dot(d[j], e, U)]
             ad == [c \in U |-> Dot(a, ColumnOn(d, c, S), S)]
             rw == [j \in S |-> re[j] + w[j]]
             df == [j \in S |-> re[j] - de[j]]
             gd == [c \in U |-> g[c] - ad[c]]
  <1>1. IntsOn(re, S) /\ IntsOn(de, S)
    <2>1. \A j \in S : Dot(r[j], e, U) \in Int
      BY DotInt
    <2>2. \A j \in S : Dot(d[j], e, U) \in Int
      BY DotInt
    <2> QED
      BY <2>1, <2>2 DEF IntsOn
  <1>2. IntsOn(ad, U)
    <2>1. ASSUME NEW c \in U PROVE Dot(a, ColumnOn(d, c, S), S) \in Int
      <3>1. IntsOn(ColumnOn(d, c, S), S)
        BY DEF IntsOn, ColumnOn
      <3> QED
        BY <3>1, DotInt
    <2> QED
      BY <2>1 DEF IntsOn
  <1>3. Dot(a, de, S) = Dot(ad, e, U)
    <2>1. RowProducts(de, d, e, S, U) /\ ColumnProducts(ad, a, d, S, U)
      BY DEF RowProducts, ColumnProducts
    <2> HIDE DEF de, ad, re, rw, df, gd
    <2> QED
      BY <2>1, DotSwap
  <1>4. \A j \in S : Congruent(p[j], rw[j]) /\ rw[j] = re[j] + w[j]
    OBVIOUS
  <1>5. \A j \in S : Congruent(m[j], df[j]) /\ re[j] = df[j] + de[j] /\ df[j] \in Int
    BY <1>1 DEF IntsOn
  <1>6. \A c \in U : Congruent(b[c], gd[c]) /\ g[c] = gd[c] + ad[c] /\ gd[c] \in Int /\ b[c] \in Int
    BY <1>2 DEF IntsOn, Congruent
  <1> HIDE DEF re, de, ad, rw, df, gd
  <1>7. Congruent(Dot(a, p, S), Dot(a, rw, S)) /\ Dot(a, rw, S) = Dot(a, re, S) + Dot(a, w, S)
    <2>1. Congruent(Dot(a, p, S), Dot(a, rw, S))
      BY <1>4, DotCong
    <2>2. \A j \in S : rw[j] = re[j] + w[j]
      BY <1>4
    <2> QED
      BY <1>1, <2>1, <2>2, DotPlus
  <1>8. Congruent(Dot(a, m, S), Dot(a, df, S)) /\ Dot(a, re, S) = Dot(a, df, S) + Dot(a, de, S)
    <2>1. IntsOn(df, S) /\ (\A j \in S : re[j] = df[j] + de[j])
          /\ (\A j \in S : Congruent(m[j], df[j]))
      BY <1>5 DEF IntsOn
    <2> QED
      BY <1>1, <2>1, DotCong, DotPlus
  <1>9. Congruent(Dot(b, e, U), Dot(e, gd, U)) /\ Dot(e, g, U) = Dot(e, gd, U) + Dot(e, ad, U)
    <2>1. IntsOn(b, U) /\ IntsOn(gd, U) /\ (\A c \in U : g[c] = gd[c] + ad[c])
          /\ (\A c \in U : Congruent(b[c], gd[c]))
      BY <1>6 DEF IntsOn
    <2>2. Dot(b, e, U) = Dot(e, b, U)
      BY <2>1, DotInt
    <2> QED
      BY <1>2, <2>1, <2>2, DotCong, DotPlus
  <1>10. Dot(e, g, U) = Dot(g, e, U) /\ Dot(e, ad, U) = Dot(ad, e, U)
    BY <1>2, DotInt
  <1>11. PICK x \in Int, y \in Int, z \in Int, u \in Int, v \in Int :
           /\ x = Dot(a, w, S) /\ y = Dot(a, df, S) /\ z = Dot(a, de, S)
           /\ u = Dot(e, gd, U) /\ v = Dot(g, e, U)
    <2>1. IntsOn(df, S) /\ IntsOn(gd, U)
      BY <1>5, <1>6 DEF IntsOn
    <2> QED
      BY <1>1, <2>1, DotInt
  <1>12. v = u + z /\ Dot(a, re, S) = y + z
    BY <1>3, <1>8, <1>9, <1>10, <1>11
  <1>13. Congruent(Dot(a, p, S), (y + z) + x) /\ Congruent(Dot(b, e, U), u)
         /\ Congruent(u + z, t - x) /\ Congruent(Dot(a, m, S), y)
    BY <1>7, <1>8, <1>9, <1>11, <1>12
  <1>14. Congruent(Dot(a, p, S) + Dot(b, e, U), ((y + z) + x) + u)
    BY <1>13, CongPlus
  <1>15. Congruent((u + z) + (y + x), (t - x) + (y + x))
    <2>1. PICK s \in Int : s = y + x
      OBVIOUS
    <2>2. Congruent(s, s)
      BY CongSame
    <2>3. PICK l \in {u + z}, k \in {t - x} : l = u + z /\ k = t - x
      OBVIOUS
    <2>4. Congruent(l, k)
      BY <1>13, <2>3
    <2>5. Congruent(l + s, k + s)
      BY <2>2, <2>4, CongPlus
    <2> QED
      BY <2>1, <2>3, <2>5
  <1>16. Congruent(((y + z) + x) + u, t + y)
    <2>1. (u + z) + (y + x) = ((y + z) + x) + u /\ (t - x) + (y + x) = t + y
      OBVIOUS
    <2> QED
      BY <1>15, <2>1
  <1>17. Congruent(t + y, t + Dot(a, m, S))
    BY <1>13, CongPlus, CongSame, CongSym
  <1> QED
    BY <1>14, <1>16, <1>17, CongTrans

-----------------------------------------------------------------------------
(* The shapes of the model's matrices.                                     *)

(* The columns of the gadget matrix: ell for each of the k rows.           *)
Cols == K * Ell

(* The sizes the model's matrices have are positive.                       *)
LEMMA Sizes ==
    /\ K \in Nat /\ K >= 2 /\ Ell \in Nat /\ Ell >= 1
    /\ Cols \in Nat /\ Cols >= 1 /\ M = (K - 1) + Cols /\ M \in Nat
    /\ IsFiniteSet(1..K) /\ IsFiniteSet(1..(K - 1)) /\ IsFiniteSet(1..Cols) /\ IsFiniteSet(1..Ell)
  <1>1. K \in Nat /\ K >= 2 /\ Ell \in Nat /\ Ell >= 1
    BY ParametersAssumption, ModulusAssumption
  <1>2. K * Ell \in Nat /\ K * Ell >= 1
    BY <1>1
  <1>3. \A n \in Nat : IsFiniteSet(1..n)
    BY FS_Interval
  <1> QED
    BY <1>1, <1>2, <1>3 DEF Cols, M

(* The columns of row i's block, and what row and place a column has.      *)
LEMMA Places ==
    ASSUME NEW c \in 1..Cols
    PROVE  /\ (c - 1) \div Ell \in 0..(K - 1)
           /\ (c - 1) % Ell \in 0..(Ell - 1)
           /\ c = Ell * ((c - 1) \div Ell) + ((c - 1) % Ell) + 1
  <1>1. c - 1 \in Nat /\ c - 1 < K * Ell /\ Ell \in Nat /\ Ell > 0 /\ K \in Nat
    BY Sizes DEF Cols
  <1>2. /\ (c - 1) % Ell \in 0..(Ell - 1)
        /\ (c - 1) \div Ell \in Int
        /\ c - 1 = Ell * ((c - 1) \div Ell) + ((c - 1) % Ell)
    BY <1>1, SMTT(20)
  <1>3. PICK n \in Int, r \in 0..(Ell - 1) : n = (c - 1) \div Ell /\ r = (c - 1) % Ell
    BY <1>2
  <1>4. c - 1 = Ell * n + r
    BY <1>2, <1>3
  <1>5. n >= 0
    <2>1. n <= -1 => Ell * n <= -Ell
      BY <1>1
    <2> QED
      BY <1>1, <1>4, <2>1
  <1>6. n <= K - 1
    <2>1. n >= K => Ell * n >= K * Ell
      BY <1>1
    <2> QED
      BY <1>1, <1>4, <2>1
  <1> QED
    BY <1>1, <1>3, <1>4, <1>5, <1>6

(* Place t of row i's block is a column, of row i and place t.             *)
LEMMA BlockPlaces ==
    ASSUME NEW i \in 1..K, NEW t \in 1..Ell
    PROVE  \E c \in 1..Cols : /\ c = t + (i - 1) * Ell
                              /\ (c - 1) \div Ell = i - 1 /\ (c - 1) % Ell = t - 1
  <1>1. Ell \in Nat /\ Ell > 0 /\ K \in Nat /\ i \in Int /\ t \in Int
    BY Sizes
  <1>2. PICK b \in Int : b = (i - 1) * Ell
    BY <1>1
  <1>3. 0 <= b /\ b <= Cols - Ell
    <2>1. (i - 1) * Ell >= 0
      BY <1>1
    <2>2. (K - i) * Ell >= 0
      BY <1>1
    <2>3. (i - 1) * Ell + (K - i) * Ell = K * Ell - Ell
      BY <1>1
    <2> QED
      BY <1>1, <1>2, <2>1, <2>2, <2>3, Sizes DEF Cols
  <1>4. t + b \in 1..Cols
    BY <1>1, <1>3, Sizes
  <1>5. PICK c \in 1..Cols : c = t + b
    BY <1>4
  <1>6. PICK n \in Int, r \in 0..(Ell - 1) :
           n = (c - 1) \div Ell /\ r = (c - 1) % Ell /\ c = Ell * n + r + 1
    BY Places, <1>1
  <1>7. Ell * n + r = (i - 1) * Ell + (t - 1)
    BY <1>1, <1>2, <1>5, <1>6
  <1>8. n = i - 1
    <2>1. PICK d \in Int : d = n - (i - 1)
      BY <1>1
    <2>2. Ell * d = (t - 1) - r
      <3>1. Ell * d = Ell * n - (i - 1) * Ell
        BY <1>1, <2>1
      <3> QED
        BY <1>1, <1>7, <3>1
    <2>3. d >= 1 => Ell * d >= Ell
      BY <1>1
    <2>4. d <= -1 => Ell * d <= -Ell
      BY <1>1
    <2> QED
      BY <1>1, <2>1, <2>2, <2>3, <2>4
  <1>9. r = t - 1
    BY <1>1, <1>7, <1>8
  <1> QED
    BY <1>2, <1>4, <1>5, <1>6, <1>8, <1>9

(* A row product of whole numbers.                                         *)
LEMMA RowProductFacts ==
    ASSUME NEW S, IsFiniteSet(S), NEW row, NEW v, DOMAIN row \cap DOMAIN v = S,
           IntsOn(row, S), IntsOn(v, S)
    PROVE  RowProduct(row, v) \in 0..(Q - 1) /\ Congruent(RowProduct(row, v), Dot(row, v, S))
  <1>1. RowProduct(row, v) = ModReduce(Dot(row, v, S))
    BY DEF RowProduct, Dot
  <1>2. Dot(row, v, S) \in Int
    BY DotInt
  <1> QED
    BY <1>1, <1>2, Reduces

(* An entry of a sequence is of the sequence's set.                        *)
LEMMA SeqEntry ==
    ASSUME NEW X, NEW s \in Seq(X), NEW j \in 1..Len(s) PROVE s[j] \in X
  OBVIOUS

(* A matrix A' that Generate takes.                                        *)
Shaped(a) == a \in APrimes /\ Len(a) = K /\ \A i \in 1..K : Len(a[i]) = K - 1

(* Its rows have k - 1 reduced entries.                                    *)
LEMMA ShapedRows ==
    ASSUME NEW a, Shaped(a), NEW i \in 1..K
    PROVE  a[i] \in Seq(0..(Q - 1)) /\ DOMAIN a[i] = 1..(K - 1) /\ IntsOn(a[i], 1..(K - 1))
  <1>1. a \in Seq(Seq(0..(Q - 1))) /\ Len(a) = K /\ Len(a[i]) = K - 1
    BY InputsAssumption DEF Shaped
  <1>2. a[i] \in Seq(0..(Q - 1))
    BY <1>1
  <1>3. DOMAIN a[i] = 1..(K - 1)
    BY <1>1, <1>2
  <1>4. ASSUME NEW j \in 1..(K - 1) PROVE a[i][j] \in Int
    <2>1. PICK row \in Seq(0..(Q - 1)) : row = a[i]
      BY <1>2
    <2>3. j \in 1..Len(row)
      BY <1>1, <2>1
    <2>4. row[j] \in 0..(Q - 1)
      BY <2>3, SeqEntry
    <2> QED
      BY <2>1, <2>4, QFacts
  <1> QED
    BY <1>2, <1>3, <1>4 DEF IntsOn

(* A trapdoor has k - 1 rows of whole numbers, one for each column.        *)
LEMMA DrawnRows ==
    ASSUME NEW r \in Trapdoors
    PROVE  /\ DOMAIN r = 1..(K - 1)
           /\ \A j \in 1..(K - 1) : DOMAIN r[j] = 1..Cols /\ IntsOn(r[j], 1..Cols)
           /\ \A c \in 1..Cols : /\ Column(r, c) = ColumnOn(r, c, 1..(K - 1))
                                 /\ IntsOn(Column(r, c), 1..(K - 1))
  <1>1. r \in [1..(K - 1) -> [1..Cols -> Int]]
    BY InputsAssumption DEF Cols
  <1> QED
    BY <1>1 DEF Column, ColumnOn, IntsOn

(* The gadget matrix has powers of the base and zeros.                     *)
LEMMA GadgetRow ==
    ASSUME NEW i \in 1..K, NEW c \in 1..Cols
    PROVE  GadgetMatrix[i][c] \in Int
  <1>1. (c - 1) % Ell \in Nat
    BY Places
  <1>2. Power[(c - 1) % Ell] % Q \in Int
    <2>1. PICK p \in Nat : p = Power[(c - 1) % Ell]
      BY <1>1, PowerFacts
    <2>2. p % Q \in Int
      BY QFacts
    <2> QED
      BY <2>1, <2>2
  <1>3. GadgetMatrix[i] = [k \in 1..Cols |-> IF (k - 1) \div Ell = i - 1
                                              THEN Power[(k - 1) % Ell] % Q ELSE 0]
    BY DEF GadgetMatrix, Cols
  <1> QED
    BY <1>2, <1>3

(* Row i of A'' is row i of G - A' R, reduced.                             *)
LEMMA SecondRows ==
    ASSUME NEW a, Shaped(a), NEW r \in Trapdoors, NEW i \in 1..K
    PROVE  /\ DOMAIN ASecond(a, r)[i] = 1..Cols
           /\ \A c \in 1..Cols :
                 /\ ASecond(a, r)[i][c] \in 0..(Q - 1)
                 /\ Congruent(ASecond(a, r)[i][c],
                              GadgetMatrix[i][c]
                                - Dot(a[i], ColumnOn(r, c, 1..(K - 1)), 1..(K - 1)))
  <1>1. DOMAIN ASecond(a, r)[i] = 1..Cols
    BY DEF ASecond, Cols
  <1>2. ASSUME NEW c \in 1..Cols
        PROVE  /\ ASecond(a, r)[i][c] \in 0..(Q - 1)
               /\ Congruent(ASecond(a, r)[i][c],
                            GadgetMatrix[i][c] - Dot(a[i], ColumnOn(r, c, 1..(K - 1)), 1..(K - 1)))
    <2>1. PICK g \in Int : g = GadgetMatrix[i][c]
      BY GadgetRow
    <2>2. PICK col : col = Column(r, c)
      OBVIOUS
    <2>3. DOMAIN a[i] = 1..(K - 1) /\ IntsOn(a[i], 1..(K - 1))
      BY ShapedRows
    <2>4. IntsOn(col, 1..(K - 1)) /\ DOMAIN col = 1..(K - 1) /\ col = ColumnOn(r, c, 1..(K - 1))
      BY <2>2, DrawnRows DEF Column
    <2>5. /\ RowProduct(a[i], col) \in 0..(Q - 1)
          /\ Congruent(RowProduct(a[i], col), Dot(a[i], col, 1..(K - 1)))
      <3>1. PICK row : row = a[i]
        OBVIOUS
      <3>2. DOMAIN row \cap DOMAIN col = 1..(K - 1)
        BY <2>3, <2>4, <3>1
      <3> QED
        BY <2>3, <2>4, <3>1, <3>2, RowProductFacts, Sizes
    <2>6. ASecond(a, r)[i][c] = ModReduce(g - RowProduct(a[i], col))
      BY <2>1, <2>2 DEF ASecond, Cols
    <2>7. PICK x \in Int, y \in {Dot(a[i], col, 1..(K - 1))} :
             x = RowProduct(a[i], col) /\ y = Dot(a[i], col, 1..(K - 1))
      BY <2>5, QFacts
    <2>8. Congruent(g - x, g - y)
      BY <2>5, <2>7, CongPlus, CongSame
    <2>9. ModReduce(g - x) \in 0..(Q - 1) /\ Congruent(ModReduce(g - x), g - x)
      <3>1. PICK d \in Int : d = g - x
        OBVIOUS
      <3>2. ModReduce(d) \in 0..(Q - 1) /\ Congruent(ModReduce(d), d)
        BY Reduces
      <3> QED
        BY <3>1, <3>2
    <2> QED
      BY <2>1, <2>4, <2>6, <2>7, <2>8, <2>9, CongTrans
  <1> QED
    BY <1>1, <1>2

(* Two sequences one after the other.                                      *)
LEMMA Joined ==
    ASSUME NEW X, NEW m \in Nat, NEW n \in Nat,
           NEW s \in Seq(X), Len(s) = m, NEW t \in [1..n -> X]
    PROVE  /\ s \o t \in Seq(X) /\ t \in Seq(X) /\ Len(t) = n
           /\ Len(s \o t) = m + n /\ DOMAIN (s \o t) = 1..(m + n)
           /\ \A j \in 1..m : (s \o t)[j] = s[j]
           /\ \A j \in 1..n : (s \o t)[j + m] = t[j]
  <1>1. t \in Seq(X) /\ Len(t) = n
    OBVIOUS
  <1>2. s \o t \in Seq(X)
    BY <1>1
  <1>3. ASSUME NEW j \in 1..m PROVE (s \o t)[j] = s[j]
    BY <1>1
  <1>4. ASSUME NEW j \in 1..n PROVE (s \o t)[j + m] = t[j]
    BY <1>1
  <1>5. Len(s \o t) = m + n
    BY <1>1
  <1>6. DOMAIN (s \o t) = 1..(m + n)
    BY <1>2, <1>5
  <1> QED
    BY <1>1, <1>2, <1>3, <1>4, <1>5, <1>6

(* The first m entries of a sequence.                                      *)
LEMMA FirstOf ==
    ASSUME NEW X, NEW s \in Seq(X), NEW m \in Nat, m <= Len(s)
    PROVE  /\ SubSeq(s, 1, m) \in Seq(X) /\ Len(SubSeq(s, 1, m)) = m
           /\ \A j \in 1..m : SubSeq(s, 1, m)[j] = s[j]
  <1>1. SubSeq(s, 1, m) \in Seq(X)
    OBVIOUS
  <1>2. Len(SubSeq(s, 1, m)) = m
    OBVIOUS
  <1> QED
    BY <1>1, <1>2

(* A row of the public matrix.                                             *)
LEMMA FullRow ==
    ASSUME NEW a, Shaped(a), NEW r \in Trapdoors, NEW i \in 1..K
    PROVE  /\ AFull(a, r)[i] \in Seq(0..(Q - 1)) /\ Len(AFull(a, r)[i]) = M
           /\ DOMAIN AFull(a, r)[i] = 1..M
           /\ \A j \in 1..(K - 1) : AFull(a, r)[i][j] = a[i][j]
           /\ \A c \in 1..Cols : AFull(a, r)[i][c + (K - 1)] = ASecond(a, r)[i][c]
  <1>1. PICK s : s = a[i] /\ s \in Seq(0..(Q - 1)) /\ Len(s) = K - 1
    BY ShapedRows DEF Shaped
  <1>2. PICK t : t = ASecond(a, r)[i]
    OBVIOUS
  <1>3. t \in [1..Cols -> 0..(Q - 1)]
    <2>1. DOMAIN t = 1..Cols /\ \A j \in 1..Cols : t[j] \in 0..(Q - 1)
      BY <1>2, SecondRows
    <2>2. t = [c \in 1..(K * Ell) |-> t[c]]
      BY <1>2 DEF ASecond
    <2> QED
      BY <2>1, <2>2 DEF Cols
  <1>4. AFull(a, r)[i] = s \o t
    BY <1>1, <1>2 DEF AFull
  <1>5. PICK m \in Nat : m = K - 1
    BY Sizes
  <1>6. Cols \in Nat /\ Len(s) = m
    BY <1>1, <1>5, Sizes
  <1>7. /\ s \o t \in Seq(0..(Q - 1)) /\ Len(s \o t) = m + Cols
        /\ DOMAIN (s \o t) = 1..(m + Cols)
        /\ \A j \in 1..m : (s \o t)[j] = s[j]
        /\ \A j \in 1..Cols : (s \o t)[j + m] = t[j]
    <2>1. PICK X \in {0..(Q - 1)}, n \in Nat : X = 0..(Q - 1) /\ n = Cols
      BY <1>6
    <2>2. s \in Seq(X) /\ Len(s) = m /\ t \in [1..n -> X]
      BY <1>1, <1>3, <1>6, <2>1
    <2>3. /\ s \o t \in Seq(X) /\ Len(s \o t) = m + n /\ DOMAIN (s \o t) = 1..(m + n)
          /\ \A j \in 1..m : (s \o t)[j] = s[j]
          /\ \A j \in 1..n : (s \o t)[j + m] = t[j]
      <3>1. s \o t \in Seq(X) /\ t \in Seq(X)
        BY <2>1, <2>2, Joined
      <3>2. Len(t) = n
        BY <2>1, <2>2, Joined
      <3>3. Len(s \o t) = m + n /\ DOMAIN (s \o t) = 1..(m + n)
        BY <2>1, <2>2, <3>1, <3>2
      <3>4. \A j \in 1..m : (s \o t)[j] = s[j]
        BY <2>1, <2>2, Joined
      <3>5. \A j \in 1..n : (s \o t)[j + m] = t[j]
        BY <2>1, <2>2, Joined
      <3> QED
        BY <3>1, <3>3, <3>4, <3>5
    <2> QED
      BY <2>1, <2>3
  <1> QED
    BY <1>1, <1>2, <1>4, <1>5, <1>7, Sizes

(* The public matrix has k rows, and is not the None of no key.            *)
LEMMA FullMatrix ==
    ASSUME NEW a, Shaped(a), NEW r \in Trapdoors
    PROVE  /\ AFull(a, r) \in [1..K -> Seq(0..(Q - 1))]
           /\ Len(AFull(a, r)) = K /\ DOMAIN AFull(a, r) = 1..K
           /\ AFull(a, r) # None /\ r # None
  <1>1. AFull(a, r) \in [1..K -> Seq(0..(Q - 1))]
    <2>1. \A i \in 1..K : AFull(a, r)[i] \in Seq(0..(Q - 1))
      BY FullRow
    <2>2. AFull(a, r) = [i \in 1..K |-> a[i] \o ASecond(a, r)[i]]
      BY DEF AFull
    <2> QED
      BY <2>1, <2>2
  <1>2. K \in Nat /\ K - 1 \in Nat /\ K * Ell \in Nat
    BY Sizes DEF Cols
  <1>3. ASSUME NEW s \in Seq(0..(Q - 1)) PROVE s \in Seq(Int)
    BY QFacts
  <1>4. AFull(a, r) \in [1..K -> Seq(Int)]
    BY <1>1, <1>3
  <1>5. r \in [1..(K - 1) -> Seq(Int)]
    <2>1. r \in [1..(K - 1) -> [1..(K * Ell) -> Int]]
      BY InputsAssumption
    <2>2. \A f \in [1..(K * Ell) -> Int] : f \in Seq(Int)
      BY <1>2
    <2> QED
      BY <2>1, <2>2
  <1>6. \A n \in Nat : \A f \in [1..n -> Seq(Int)] : f \in Seq(Seq(Int)) /\ Len(f) = n
    OBVIOUS
  <1>7. AFull(a, r) \in Seq(Seq(Int)) /\ Len(AFull(a, r)) = K /\ r \in Seq(Seq(Int))
    BY <1>2, <1>4, <1>5, <1>6
  <1> QED
    BY <1>1, <1>7, InputsAssumption

(* APrime finds A' in it again.                                            *)
LEMMA PrimeRow ==
    ASSUME NEW a, Shaped(a), NEW r \in Trapdoors, NEW i \in 1..K
    PROVE  APrime(AFull(a, r))[i] = a[i]
  <1>1. PICK s \in Seq(0..(Q - 1)) : s = AFull(a, r)[i]
    BY FullRow
  <1>2. DOMAIN s = 1..M /\ \A j \in 1..(K - 1) : s[j] = a[i][j]
    BY <1>1, FullRow
  <1>3. Len(s) = M
    BY <1>1, FullRow
  <1>4. PICK m \in Nat : m = K - 1 /\ m <= Len(s)
    BY <1>3, Sizes
  <1>5. SubSeq(s, 1, m) \in Seq(0..(Q - 1)) /\ Len(SubSeq(s, 1, m)) = m
        /\ \A j \in 1..m : SubSeq(s, 1, m)[j] = s[j]
    BY <1>4, FirstOf
  <1>6. PICK w \in Seq(0..(Q - 1)) : w = a[i] /\ Len(w) = m
    BY <1>4, ShapedRows DEF Shaped
  <1>7. SubSeq(s, 1, m) = w
    BY <1>2, <1>4, <1>5, <1>6
  <1> QED
    BY <1>1, <1>4, <1>6, <1>7 DEF APrime

-----------------------------------------------------------------------------
(* Digits.                                                                 *)

(* A centred coefficient is within q / 2 and congruent to the one it is of.*)
LEMMA Centred ==
    ASSUME NEW c \in Int
    PROVE  /\ CenterCoefficient(c) \in Int /\ Congruent(CenterCoefficient(c), c)
           /\ -(Q \div 2) <= CenterCoefficient(c) /\ CenterCoefficient(c) <= Q \div 2
           /\ -(Q \div 2) < c /\ c < Q \div 2 => CenterCoefficient(c) = c
  <1>1. PICK r \in 0..(Q - 1) : r = ModReduce(c) /\ Congruent(r, c)
    BY Reduces
  <1>2. PICK h \in Int : h = Q \div 2 /\ 2 * h <= Q /\ Q <= 2 * h + 1
    BY QFacts
  <1>3. CenterCoefficient(c) = IF r > h THEN r - Q ELSE r
    BY <1>1, <1>2 DEF CenterCoefficient
  <1>4. CenterCoefficient(c) \in Int /\ -h <= CenterCoefficient(c) /\ CenterCoefficient(c) <= h
    BY <1>2, <1>3, QFacts
  <1>5. Congruent(CenterCoefficient(c), c)
    <2>1. PICK n \in Int : r = c + n * Q
      BY <1>1 DEF Congruent
    <2>2. r - Q = c + (n - 1) * Q
      BY <2>1, QFacts
    <2>3. Congruent(r - Q, c)
      BY <2>2, QFacts DEF Congruent
    <2> QED
      BY <1>1, <1>3, <2>3
  <1>6. ASSUME -h < c, c < h PROVE CenterCoefficient(c) = c
    <2>1. PICK n \in Int : CenterCoefficient(c) = c + n * Q
      BY <1>5 DEF Congruent
    <2>2. n >= 1 => n * Q >= Q
      BY QFacts
    <2>3. n <= -1 => n * Q <= -Q
      BY QFacts
    <2>4. PICK p \in Int : p = n * Q
      BY QFacts
    <2>5. p < Q /\ p > -Q
      BY <1>2, <1>4, <1>6, <2>1, <2>4, QFacts
    <2>6. n = 0
      BY <2>2, <2>3, <2>4, <2>5, QFacts
    <2> QED
      BY <2>1, <2>6, QFacts
  <1> QED
    BY <1>2, <1>4, <1>5, <1>6

(* One pass of the loop splits a digit off, of the sign of the number.     *)
LEMMA DigitFacts ==
    ASSUME NEW v \in Int
    PROVE  /\ Digit(v) \in Int /\ (v - Digit(v)) \div Base \in Int
           /\ v = Digit(v) + Base * ((v - Digit(v)) \div Base)
           /\ -Base < Digit(v) /\ Digit(v) < Base
           /\ v >= 0 => Digit(v) >= 0 /\ (v - Digit(v)) \div Base >= 0
           /\ v <= 0 => Digit(v) <= 0 /\ (v - Digit(v)) \div Base <= 0
  <1>1. Base \in Nat /\ Base > 1
    BY QFacts
  <1>2. \A x \in Int : /\ x % Base \in 0..(Base - 1) /\ x \div Base \in Int
                       /\ x = Base * (x \div Base) + (x % Base)
    BY <1>1, SMTT(20)
  <1>3. \A x \in Int : (Base * x) \div Base = x
    <2>1. ASSUME NEW x \in Int PROVE (Base * x) \div Base = x
      <3>1. PICK p \in Int : p = Base * x
        BY <1>1
      <3>2. PICK y \in Int, r \in 0..(Base - 1) :
               y = p \div Base /\ r = p % Base /\ p = Base * y + r
        BY <1>2
      <3>3. PICK d \in Int : d = x - y
        OBVIOUS
      <3>4. Base * d = r
        BY <1>1, <3>1, <3>2, <3>3
      <3>5. (d >= 1 => Base * d >= Base) /\ (d <= -1 => Base * d <= -Base)
        BY <1>1
      <3>6. d = 0
        BY <1>1, <3>2, <3>4, <3>5
      <3> QED
        BY <3>1, <3>2, <3>3, <3>6
    <2> QED
      BY <2>1
  <1>4. CASE v >= 0
    <2>1. PICK n \in Int, r \in 0..(Base - 1) : v = Base * n + r /\ r = v % Base
      BY <1>2
    <2>2. Digit(v) = r
      BY <1>4, <2>1 DEF Digit
    <2>3. (v - r) \div Base = n
      <3>1. v - r = Base * n
        BY <1>1, <2>1
      <3> QED
        BY <1>3, <3>1
    <2>4. n >= 0
      <3>1. n <= -1 => Base * n <= -Base
        BY <1>1
      <3> QED
        BY <1>1, <1>4, <2>1, <3>1
    <2>5. v = 0 => n = 0 /\ r = 0
      <3>1. n >= 1 => Base * n >= Base
        BY <1>1
      <3> QED
        BY <1>1, <2>1, <2>4, <3>1
    <2>6. Digit(v) = r /\ (v - Digit(v)) \div Base = n
      BY <2>2, <2>3
    <2> QED
      BY <1>1, <1>4, <2>1, <2>4, <2>5, <2>6
  <1>5. CASE v < 0
    <2>1. PICK n \in Int, r \in 0..(Base - 1) : -v = Base * n + r /\ r = (-v) % Base
      BY <1>2
    <2>2. Digit(v) = -r
      BY <1>5, <2>1 DEF Digit
    <2>3. (v - (-r)) \div Base = -n
      <3>1. v - (-r) = Base * (-n) /\ -n \in Int
        <4>1. PICK p \in Int : p = Base * n
          BY <1>1
        <4>2. Base * (-n) = -p
          BY <1>1, <4>1
        <4> QED
          BY <2>1, <4>1, <4>2
      <3> QED
        BY <1>3, <3>1
    <2>4. n >= 0
      <3>1. n <= -1 => Base * n <= -Base
        BY <1>1
      <3> QED
        BY <1>1, <1>5, <2>1, <3>1
    <2>5. v = -r + Base * (-n)
      BY <1>1, <2>1
    <2>6. Digit(v) = -r /\ (v - Digit(v)) \div Base = -n
      BY <2>2, <2>3
    <2>7. PICK m \in Int, s \in Int : m = -n /\ s = -r /\ m <= 0 /\ s <= 0 /\ s > -Base
      BY <1>1, <2>1, <2>4
    <2>8. v = s + Base * m
      BY <2>5, <2>7
    <2> QED
      BY <1>1, <1>5, <2>6, <2>7, <2>8
  <1> QED
    BY <1>4, <1>5

(* The weight of a digit's place is a whole number.                        *)
LEMMA PowerBelow == ASSUME NEW j \in Int, j >= 1 PROVE Power[j - 1] \in Int
  <1>1. PICK n \in Nat : n = j - 1
    OBVIOUS
  <1>2. Power[n] \in Nat
    BY PowerFacts
  <1> QED
    BY <1>1, <1>2

(* Digits make a number, and one more digit adds its place.                *)
LEMMA RecomposedInt ==
    ASSUME NEW d \in Seq(Int)
    PROVE  Recomposed(d) \in Int
  <1> DEFINE S == DOMAIN d
             f == [j \in S |-> Power[j - 1] * d[j]]
  <1>1. S = 1..Len(d) /\ Len(d) \in Nat
    OBVIOUS
  <1>2. IsFiniteSet(S)
    BY <1>1, FS_Interval
  <1>3. \A j \in S : f[j] \in Int
    <2>1. ASSUME NEW j \in S PROVE Power[j - 1] * d[j] \in Int
      <3>1. j - 1 \in Nat /\ d[j] \in Int
        BY <1>1
      <3>2. PICK x \in Int, y \in Int : x = Power[j - 1] /\ y = d[j]
        BY <3>1, PowerBelow
      <3> QED
        BY <3>2
    <2> QED
      BY <2>1
  <1>4. Recomposed(d) = SumFunctionOnSet(f, S)
    BY DEF Recomposed
  <1> HIDE DEF f, S
  <1> QED
    BY <1>2, <1>3, <1>4, SumStep

(* No digits make zero.                                                    *)
LEMMA RecomposedEmpty == Recomposed(<<>>) = 0
  <1>1. DOMAIN <<>> = {}
    OBVIOUS
  <1>2. \A S, f : S = {} => SumFunctionOnSet(f, S) = 0
    BY SumEmpty
  <1> QED
    BY <1>1, <1>2 DEF Recomposed

(* One more digit adds its multiple of the next power.                     *)
LEMMA RecomposedAppend ==
    ASSUME NEW d \in Seq(Int), NEW x \in Int
    PROVE  Recomposed(Append(d, x)) = Recomposed(d) + Power[Len(d)] * x
  <1> DEFINE n == Len(d)
             S == 1..n
             U == 1..(n + 1)
             f == [j \in U |-> Power[j - 1] * Append(d, x)[j]]
             g == [j \in S |-> Power[j - 1] * d[j]]
  <1>1. n \in Nat /\ DOMAIN d = S /\ DOMAIN Append(d, x) = U /\ Append(d, x) \in Seq(Int)
    OBVIOUS
  <1>2. IsFiniteSet(U) /\ IsFiniteSet(S)
    BY <1>1, FS_Interval
  <1>3. \A j \in S : Append(d, x)[j] = d[j] /\ d[j] \in Int /\ j - 1 \in Nat
    OBVIOUS
  <1>4. Append(d, x)[n + 1] = x
    OBVIOUS
  <1>5. Recomposed(Append(d, x)) = SumFunctionOnSet(f, U) /\ Recomposed(d) = SumFunctionOnSet(g, S)
    BY <1>1 DEF Recomposed
  <1>6. (\A j \in S : f[j] = g[j] /\ g[j] \in Int)
    <2>1. ASSUME NEW j \in S PROVE Power[j - 1] * d[j] \in Int /\ j \in U
      <3>1. PICK z \in Int, y \in Int : z = Power[j - 1] /\ y = d[j]
        BY <1>3, PowerBelow
      <3> QED
        BY <1>1, <3>1
    <2> QED
      BY <1>3, <2>1
  <1>7. \E y : y = n + 1 /\ f[y] = Power[n] * x /\ f[y] \in Int /\ y \in U /\ y \notin S /\ S \cup {y} = U
    <2>1. (n + 1) - 1 = n /\ n + 1 \in U /\ n + 1 \notin S /\ S \cup {n + 1} = U
      BY <1>1
    <2>2. Power[n] * x \in Int
      <3>1. PICK z \in Nat : z = Power[n]
        BY <1>1, PowerFacts
      <3>2. z * x \in Int
        OBVIOUS
      <3> QED
        BY <3>1, <3>2
    <2> QED
      BY <1>4, <2>1, <2>2
  <1> HIDE DEF f, g, S, U
  <1>8. PICK y : f[y] = Power[n] * x /\ f[y] \in Int /\ y \in U /\ y \notin S /\ S \cup {y} = U
    BY <1>7
  <1>9. S \in SUBSET U /\ y \in U \ S
    BY <1>8
  <1>10. SumFunctionOnSet(f, S \cup {y}) = f[y] + SumFunctionOnSet(f, S)
         /\ SumFunctionOnSet(f, S) \in Int
    <2>1. PICK F \in {f}, A \in {S}, B \in {U} : F = f /\ A = S /\ B = U
      OBVIOUS
    <2>2. (\A j \in B : F[j] \in Int) /\ IsFiniteSet(B) /\ A \in SUBSET B /\ y \in B \ A
      BY <1>2, <1>6, <1>8, <1>9, <2>1
    <2>3. SumFunctionOnSet(F, A \cup {y}) = F[y] + SumFunctionOnSet(F, A)
          /\ SumFunctionOnSet(F, A) \in Int
      BY <2>2, SumAdd
    <2> QED
      BY <2>1, <2>3
  <1>11. SumFunctionOnSet(g, S) = SumFunctionOnSet(f, S)
    BY <1>2, <1>6, SumAgree
  <1> HIDE DEF n
  <1>12. \A a, b \in Int : a + b = b + a
    OBVIOUS
  <1>13. f[y] + SumFunctionOnSet(f, S) = SumFunctionOnSet(f, S) + f[y]
    BY <1>8, <1>10, <1>12
  <1>14. Recomposed(Append(d, x)) = Recomposed(d) + Power[n] * x
    BY <1>5, <1>8, <1>10, <1>11, <1>13
  <1> QED
    BY <1>14 DEF n

-----------------------------------------------------------------------------
(* The gadget matrix turns digits back into numbers.                       *)

(* Every row has all its ell digits, as when the loop is done.             *)
AllDigits == e2 \in [1..K -> Seq(Int)] /\ \A i \in 1..K : Len(e2[i]) = Ell

(* FlatE2 lays the rows' digits one after the other.                       *)
LEMMA FlatDigits ==
    ASSUME AllDigits
    PROVE  /\ FlatE2 \in [1..Cols -> Int] /\ IntsOn(FlatE2, 1..Cols)
           /\ \A i \in 1..K, t \in 1..Ell : FlatE2[t + (i - 1) * Ell] = e2[i][t]
           /\ \A c \in 1..Cols : \E i \in 1..K : \E t \in 1..Ell : FlatE2[c] = e2[i][t]
  <1>1. ASSUME NEW i \in 1..K, NEW t \in 1..Ell PROVE e2[i][t] \in Int
    <2>1. PICK d \in Seq(Int) : d = e2[i] /\ Len(d) = Ell
      BY DEF AllDigits
    <2>2. t \in 1..Len(d)
      BY <2>1
    <2> QED
      BY <2>1, <2>2
  <1>2. FlatE2 = [c \in 1..Cols |-> e2[((c - 1) \div Ell) + 1][((c - 1) % Ell) + 1]]
    BY DEF FlatE2, Cols
  <1>3. ASSUME NEW c \in 1..Cols
        PROVE  \E i \in 1..K : \E t \in 1..Ell : FlatE2[c] = e2[i][t]
    <2>1. PICK i \in {((c - 1) \div Ell) + 1}, t \in {((c - 1) % Ell) + 1} :
               i = ((c - 1) \div Ell) + 1 /\ t = ((c - 1) % Ell) + 1
      OBVIOUS
    <2>2. i \in 1..K /\ t \in 1..Ell
      <3>1. PICK n \in 0..(K - 1), r \in 0..(Ell - 1) :
               n = (c - 1) \div Ell /\ r = (c - 1) % Ell
        BY Places
      <3> QED
        BY <2>1, <3>1, Sizes
    <2>3. FlatE2[c] = e2[i][t]
      BY <1>2, <2>1
    <2> QED
      BY <2>2, <2>3
  <1>4. ASSUME NEW i \in 1..K, NEW t \in 1..Ell
        PROVE  FlatE2[t + (i - 1) * Ell] = e2[i][t]
    <2>1. PICK c \in 1..Cols : /\ c = t + (i - 1) * Ell
                               /\ (c - 1) \div Ell = i - 1 /\ (c - 1) % Ell = t - 1
      BY BlockPlaces
    <2>2. ((c - 1) \div Ell) + 1 = i /\ ((c - 1) % Ell) + 1 = t
      BY <2>1
    <2> QED
      BY <1>2, <2>1, <2>2
  <1>5. \A c \in 1..Cols : FlatE2[c] \in Int
    BY <1>1, <1>3
  <1> QED
    BY <1>2, <1>3, <1>4, <1>5 DEF IntsOn

(* Row i of the gadget times the digits is the number row i's digits make. *)
LEMMA GadgetProduct ==
    ASSUME AllDigits, NEW i \in 1..K
    PROVE  Congruent(Dot(GadgetMatrix[i], FlatE2, 1..Cols), Recomposed(e2[i]))
  <1> DEFINE d == (i - 1) * Ell
             S == 1..Ell
             B == {x + d : x \in S}
             R == (1..Cols) \ B
             f == [c \in 1..Cols |-> GadgetMatrix[i][c] * FlatE2[c]]
             g == [t \in S |-> (Power[t - 1] % Q) * e2[i][t]]
             h == [t \in S |-> Power[t - 1] * e2[i][t]]
  <1>1. d \in Int /\ B \subseteq 1..Cols /\ IsFiniteSet(S)
    <2>1. (i - 1) * Ell \in Int
      BY Sizes
    <2>2. \A x \in S : x + (i - 1) * Ell \in 1..Cols
      BY BlockPlaces
    <2> QED
      BY <2>1, <2>2, Sizes
  <1>2. ASSUME NEW t \in S
        PROVE  /\ t \in Int /\ g[t] \in Int /\ Congruent(g[t], h[t]) /\ f[t + d] = g[t]
    <2>1. PICK c \in 1..Cols : /\ c = t + d
                               /\ (c - 1) \div Ell = i - 1 /\ (c - 1) % Ell = t - 1
      BY BlockPlaces
    <2>2. PICK p \in Int : p = Power[t - 1]
      BY PowerBelow, Sizes
    <2>3. PICK y \in Int : y = e2[i][t] /\ FlatE2[c] = y
      BY <2>1, FlatDigits DEF IntsOn
    <2>4. GadgetMatrix[i][c] = p % Q
      BY <2>1, <2>2 DEF GadgetMatrix, Cols
    <2>5. p % Q \in Int /\ Congruent(p % Q, p)
      <3>1. ModReduce(p) \in Int /\ Congruent(ModReduce(p), p)
        BY Reduces, QFacts
      <3> QED
        BY <3>1 DEF ModReduce
    <2>6. Congruent(y * (p % Q), y * p)
      BY <2>5, CongTimes
    <2>7. y * (p % Q) = (p % Q) * y /\ y * p = p * y /\ (p % Q) * y \in Int
      BY <2>5, IntTimes
    <2> QED
      BY <2>1, <2>2, <2>3, <2>4, <2>6, <2>7
  <1>3. ASSUME NEW c \in R PROVE f[c] = 0
    <2>1. (c - 1) \div Ell # i - 1
      <3>1. SUFFICES ASSUME (c - 1) \div Ell = i - 1 PROVE FALSE
        OBVIOUS
      <3>2. PICK r \in 0..(Ell - 1) : c = Ell * (i - 1) + r + 1
        BY <3>1, Places
      <3>3. c = (r + 1) + d /\ r + 1 \in S
        BY <3>2, Sizes
      <3> QED
        BY <3>3
    <2>2. GadgetMatrix[i][c] = 0
      BY <2>1 DEF GadgetMatrix, Cols
    <2>3. PICK y \in Int : y = FlatE2[c]
      BY FlatDigits DEF IntsOn
    <2> QED
      BY <2>2, <2>3
  <1>4. (1..Cols) = B \cup R /\ B \cap R = {}
    BY <1>1
  <1>5. IsFiniteSet(B) /\ IsFiniteSet(R)
    BY <1>1, Sizes, FS_Subset
  <1>6. Dot(GadgetMatrix[i], FlatE2, 1..Cols) = SumFunctionOnSet(f, 1..Cols)
    BY DEF Dot
  <1>7. Recomposed(e2[i]) = SumFunctionOnSet(h, S)
    <2>1. DOMAIN e2[i] = S
      <3>1. PICK x \in Seq(Int) : x = e2[i] /\ Len(x) = Ell
        BY DEF AllDigits
      <3> QED
        BY <3>1
    <2> QED
      BY <2>1 DEF Recomposed
  <1>8. ASSUME NEW x \in B PROVE f[x] \in Int
    <2>1. PICK y \in S : x = y + d
      OBVIOUS
    <2>2. f[y + d] = g[y] /\ g[y] \in Int
      BY <1>2
    <2> HIDE DEF f, g
    <2> QED
      BY <2>1, <2>2
  <1>9. \A x \in S : x \in Int /\ g[x] \in Int /\ f[x + d] = g[x]
    BY <1>2
  <1>10. \A x \in S : Congruent(g[x], h[x])
    BY <1>2
  <1> HIDE DEF f, g, h, R
  <1>11. SumFunctionOnSet(f, B) = SumFunctionOnSet(g, S)
    <2>1. B = Moved(S, d)
      BY DEF Moved
    <2> HIDE DEF d, S, B
    <2> QED
      BY <1>1, <1>9, <2>1, SumShift
  <1> HIDE DEF B, S, d
  <1>12. SumFunctionOnSet(f, R) = 0
    BY <1>3, <1>5, SumZero
  <1>13. SumFunctionOnSet(f, B \cup R) = SumFunctionOnSet(f, B) + SumFunctionOnSet(f, R)
    <2>1. \A x \in B \cup R : f[x] \in Int
      BY <1>3, <1>8
    <2> QED
      BY <1>4, <1>5, <2>1, SumUnion
  <1>14. Congruent(SumFunctionOnSet(g, S), SumFunctionOnSet(h, S))
    BY <1>1, <1>10, CongSum
  <1>15. SumFunctionOnSet(f, 1..Cols) = SumFunctionOnSet(g, S)
    <2>1. PICK x \in Int : x = SumFunctionOnSet(g, S)
      BY <1>14 DEF Congruent
    <2>2. x + 0 = x
      OBVIOUS
    <2>3. SumFunctionOnSet(f, B \cup R) = x
      BY <1>11, <1>12, <1>13, <2>1, <2>2
    <2>4. SumFunctionOnSet(f, 1..Cols) = SumFunctionOnSet(f, B \cup R)
      BY <1>4, Zenon
    <2> QED
      BY <2>1, <2>3, <2>4
  <1> QED
    BY <1>6, <1>7, <1>14, <1>15

-----------------------------------------------------------------------------
(* The inductive invariant.                                                *)

(* The public matrix was made from an A' and the R in drawn.               *)
Made(a) == Shaped(a) /\ drawn \in Trapdoors /\ trapdoor \in Trapdoors /\ matrix = AFull(a, drawn)

Paired ==
    \/ matrix = None /\ drawn = None /\ trapdoor = None /\ phase = "idle"
    \/ \E a : Made(a)

(* What a call works on.                                                   *)
Called ==
    phase # "idle" =>
        /\ target \in Seq(0..(Q - 1)) /\ Len(target) >= K
        /\ noise \in Noises
        /\ val \in [1..K -> Int]
        /\ e2 \in [1..K -> Seq(Int)]
        /\ \A i \in 1..K : Len(e2[i]) = Len(e2[1]) /\ Len(e2[i]) <= Ell

(* What is left of a coefficient shrinks towards zero as digits come off.  *)
Towards(i, w) ==
    /\ Recomposed(e2[i]) + Power[Len(e2[i])] * val[i] = w
    /\ \A j \in 1..Len(e2[i]) : /\ -Base < e2[i][j] /\ e2[i][j] < Base
                                /\ w >= 0 => e2[i][j] >= 0
                                /\ w <= 0 => e2[i][j] <= 0
    /\ w >= 0 => val[i] >= 0 /\ Power[Len(e2[i])] * val[i] <= w
    /\ w <= 0 => val[i] <= 0 /\ Power[Len(e2[i])] * val[i] >= w

Splits == phase # "idle" => \A i \in 1..K : Towards(i, Wanted(i))

(* What a returned call returned is the verdict about the witness there is.*)
Answered ==
    /\ phase \in {"idle", "digits", "returned"}
    /\ outcome.verdict \in {"none", "ok", "width", "height", "relation", "norm"}
    /\ phase = "returned" => /\ Len(e2[1]) = Ell
                             /\ outcome.verdict = VerifyWitnessRelation(matrix, Preimage, target)

(* Together they are inductive.                                            *)
IInv == Paired /\ Called /\ Splits /\ Answered

(* What A' makes of the noise, reduced and before.                         *)
LEMMA NoiseProduct ==
    ASSUME NEW a, Shaped(a), NEW r \in Trapdoors, NEW i \in 1..K, NEW w \in Noises
    PROVE  /\ IntsOn(w, 1..(K - 1))
           /\ RowProduct(APrime(AFull(a, r))[i], w) \in 0..(Q - 1)
           /\ Congruent(RowProduct(APrime(AFull(a, r))[i], w), Dot(a[i], w, 1..(K - 1)))
  <1>1. PICK row : row = APrime(AFull(a, r))[i] /\ row = a[i]
    BY PrimeRow
  <1>2. DOMAIN row = 1..(K - 1) /\ IntsOn(row, 1..(K - 1))
    BY <1>1, ShapedRows
  <1>3. DOMAIN w = 1..(K - 1) /\ IntsOn(w, 1..(K - 1))
    BY InputsAssumption DEF IntsOn
  <1>4. DOMAIN row \cap DOMAIN w = 1..(K - 1)
    BY <1>2, <1>3
  <1>5. /\ RowProduct(row, w) \in 0..(Q - 1)
        /\ Congruent(RowProduct(row, w), Dot(row, w, 1..(K - 1)))
    BY <1>2, <1>3, <1>4, RowProductFacts, Sizes
  <1> QED
    BY <1>1, <1>3, <1>5

(* The coefficient a row's digits are of.                                  *)
LEMMA WantedFacts ==
    ASSUME NEW a, Made(a), Called, phase # "idle", NEW i \in 1..K
    PROVE  /\ target[i] \in 0..(Q - 1) /\ Wanted(i) \in Int
           /\ -(Q \div 2) <= Wanted(i) /\ Wanted(i) <= Q \div 2
           /\ Congruent(Wanted(i), target[i] - Dot(a[i], noise, 1..(K - 1)))
  <1>1. PICK x \in 0..(Q - 1) : x = target[i]
    <2>1. target \in Seq(0..(Q - 1)) /\ i \in 1..Len(target)
      BY Sizes DEF Called
    <2> QED
      BY <2>1, SeqEntry
  <1>2. PICK y \in 0..(Q - 1) : /\ y = RowProduct(APrime(matrix)[i], noise)
                                /\ Congruent(y, Dot(a[i], noise, 1..(K - 1)))
    BY NoiseProduct DEF Made, Called
  <1>3. PICK z : z = Dot(a[i], noise, 1..(K - 1))
    OBVIOUS
  <1>4. x - y \in Int /\ Congruent(x - y, x - z)
    <2>1. Congruent(x, x) /\ Congruent(y, z)
      BY <1>2, <1>3, CongSame, QFacts
    <2>2. PICK l \in {x}, m \in {y}, n \in {z} : l = x /\ m = y /\ n = z
      OBVIOUS
    <2>3. Congruent(l - m, l - n)
      BY <2>1, <2>2, CongPlus
    <2> QED
      BY <2>2, <2>3, QFacts
  <1>5. Wanted(i) = CenterCoefficient(x - y)
    BY <1>1, <1>2 DEF Wanted
  <1>6. PICK d \in Int : d = x - y
    BY <1>4
  <1>7. /\ CenterCoefficient(d) \in Int /\ Congruent(CenterCoefficient(d), d)
        /\ -(Q \div 2) <= CenterCoefficient(d) /\ CenterCoefficient(d) <= Q \div 2
    BY Centred
  <1>8. Congruent(CenterCoefficient(d), x - z)
    BY <1>4, <1>6, <1>7, CongTrans
  <1> QED
    BY <1>1, <1>3, <1>5, <1>6, <1>7, <1>8

(* One pass of the loop keeps what the digits and the rest make up.        *)
LEMMA DigitTaken ==
    ASSUME NEW d \in Seq(Int), NEW v \in Int
    PROVE  LET d1 == Append(d, Digit(v))
               v1 == (v - Digit(v)) \div Base
           IN  /\ Recomposed(d1) + Power[Len(d1)] * v1 = Recomposed(d) + Power[Len(d)] * v
               /\ v >= 0 => Power[Len(d1)] * v1 <= Power[Len(d)] * v
               /\ v <= 0 => Power[Len(d1)] * v1 >= Power[Len(d)] * v
  <1>1. PICK x \in Int, y \in Int :
           /\ x = Digit(v) /\ y = (v - Digit(v)) \div Base /\ v = x + Base * y
           /\ v >= 0 => x >= 0
           /\ v <= 0 => x <= 0
    BY DigitFacts
  <1>2. Len(Append(d, x)) = Len(d) + 1 /\ Len(d) \in Nat
    OBVIOUS
  <1>3. PICK p \in Nat : p = Power[Len(d)] /\ p > 0 /\ Power[Len(d) + 1] = Base * p
    BY <1>2, PowerFacts
  <1>4. PICK r \in Int : r = Recomposed(d) /\ Recomposed(Append(d, x)) = r + p * x
    BY <1>3, RecomposedInt, RecomposedAppend
  <1>5. PICK s \in Int, t \in Int : s = p * x /\ t = (Base * p) * y
    BY QFacts
  <1>6. s + t = p * v
    <2>1. p * (x + Base * y) = p * x + (Base * p) * y
      BY QFacts
    <2> QED
      BY <1>1, <1>5, <2>1
  <1>7. (x >= 0 => s >= 0) /\ (x <= 0 => s <= 0)
    BY <1>3, <1>5
  <1>8. Power[Len(Append(d, x))] * y = t
    BY <1>2, <1>3, <1>5
  <1>9. Power[Len(d)] * v = s + t
    BY <1>3, <1>6
  <1>10. Recomposed(Append(d, x)) = r + s
    BY <1>4, <1>5
  <1>11. (r + s) + t = r + (s + t)
    OBVIOUS
  <1>12. (v >= 0 => t <= s + t) /\ (v <= 0 => t >= s + t)
    BY <1>1, <1>7
  <1> QED
    BY <1>1, <1>4, <1>8, <1>9, <1>10, <1>11, <1>12

(* The program starts without a key.                                       *)
LEMMA InitInv == Init => IInv
  BY DEF Init, IInv, Paired, Called, Splits, Answered, NoOutcome

(* Steps that leave the calls alone.                                       *)
LEMMA PairSteps ==
    ASSUME IInv, \/ \E a_prime \in APrimes, r \in Trapdoors : Generate(a_prime, r)
                 \/ \E r \in Trapdoors : HoldOther(r)
    PROVE  IInv'
  <1>1. CASE \E a_prime \in APrimes, r \in Trapdoors : Generate(a_prime, r)
    <2>1. PICK a \in APrimes, r \in Trapdoors : Generate(a, r)
      BY <1>1
    <2>2. Made(a)'
      BY <2>1 DEF Generate, Made, Shaped
    <2>3. phase = "idle" /\ phase' = "idle" /\ outcome' = outcome
      <3>1. matrix = None
        BY <2>1 DEF Generate
      <3>2. \A b : ~ Made(b)
        BY <3>1, FullMatrix DEF Made
      <3> QED
        BY <2>1, <3>2 DEF IInv, Paired, Generate
    <2> QED
      BY <2>2, <2>3 DEF IInv, Paired, Called, Splits, Answered
  <1>2. CASE \E r \in Trapdoors : HoldOther(r)
    <2>1. PICK r \in Trapdoors : HoldOther(r)
      BY <1>2
    <2>2. PICK a : Made(a)
      BY <2>1 DEF IInv, Paired, HoldOther
    <2>3. Made(a)'
      BY <2>1, <2>2 DEF Made, HoldOther
    <2>4. phase = "idle" /\ phase' = "idle" /\ outcome' = outcome
      BY <2>1 DEF HoldOther
    <2> QED
      BY <2>3, <2>4 DEF IInv, Paired, Called, Splits, Answered
  <1> QED
    BY <1>1, <1>2

(* A new call has all of each coefficient left and no digits.              *)
LEMMA SampleStep ==
    ASSUME IInv, NEW u \in Targets, NEW noise1 \in Noises, Sample(u, noise1)
    PROVE  IInv'
  <1>1. PICK a : Made(a)
    BY DEF IInv, Paired, Sample
  <1>2. Made(a)'
    BY <1>1 DEF Made, Sample
  <1>3. /\ phase' = "digits" /\ target' = u /\ noise' = noise1 /\ outcome' = NoOutcome
        /\ matrix' = matrix /\ Len(u) >= K
        /\ val' = [i \in 1..K |-> CenterCoefficient(u[i] - RowProduct(APrime(matrix)[i], noise1))]
        /\ e2' = [i \in 1..K |-> <<>>]
    BY DEF Sample
  <1>4. u \in Seq(0..(Q - 1))
    BY InputsAssumption
  <1>5. ASSUME NEW i \in 1..K
        PROVE  /\ val'[i] = CenterCoefficient(u[i] - RowProduct(APrime(matrix)[i], noise1))
               /\ val'[i] \in Int /\ e2'[i] = <<>>
    <2>1. PICK x \in 0..(Q - 1) : x = u[i]
      <3>1. i \in 1..Len(u)
        BY <1>3, <1>4, Sizes
      <3> QED
        BY <1>4, <3>1, SeqEntry
    <2>2. PICK y \in 0..(Q - 1) : y = RowProduct(APrime(matrix)[i], noise1)
      BY <1>1, NoiseProduct DEF Made
    <2>3. PICK d \in Int : d = x - y
      BY <2>1, <2>2, QFacts
    <2>4. CenterCoefficient(d) \in Int
      BY Centred
    <2> QED
      BY <1>3, <2>1, <2>2, <2>3, <2>4
  <1>6. val' \in [1..K -> Int] /\ e2' \in [1..K -> Seq(Int)]
    BY <1>3, <1>5
  <1>7. 1 \in 1..K /\ Ell \in Nat /\ Len(<<>>) = 0
    BY Sizes
  <1>8. Called'
    <2>1. \A i \in 1..K : Len(e2'[i]) = Len(e2'[1]) /\ Len(e2'[i]) <= Ell
      BY <1>5, <1>7
    <2> QED
      BY <1>3, <1>4, <1>6, <2>1 DEF Called
  <1>9. Splits'
    <2>1. ASSUME NEW i \in 1..K PROVE Towards(i, Wanted(i))'
      <3>1. PICK w \in Int : w = val'[i]
        BY <1>5
      <3>2. Wanted(i)' = w
        <4>1. Wanted(i)' = CenterCoefficient(u[i] - RowProduct(APrime(matrix)[i], noise1))
          BY <1>3 DEF Wanted, APrime
        <4> QED
          BY <1>5, <3>1, <4>1
      <3>3. Recomposed(<<>>) = 0
        BY RecomposedEmpty
      <3>4. Power[Len(<<>>)] = 1
        BY <1>7, PowerFacts
      <3>5. Recomposed(e2'[i]) + Power[Len(e2'[i])] * val'[i] = w /\ Power[Len(e2'[i])] * val'[i] = w
        BY <1>5, <3>1, <3>3, <3>4
      <3> QED
        BY <1>5, <1>7, <3>1, <3>2, <3>5 DEF Towards
    <2> QED
      BY <2>1 DEF Splits
  <1>10. Answered'
    BY <1>3 DEF Answered, NoOutcome
  <1> QED
    BY <1>2, <1>8, <1>9, <1>10 DEF IInv, Paired

(* A pass of the loop takes one digit off every row (DigitTaken).          *)
LEMMA DigitStep ==
    ASSUME IInv, TakeDigit
    PROVE  IInv'
  <1>1. PICK a : Made(a)
    BY DEF IInv, Paired, TakeDigit
  <1>2. Made(a)'
    BY <1>1 DEF Made, TakeDigit
  <1>3. /\ phase = "digits" /\ phase' = "digits" /\ Len(e2[1]) < Ell
        /\ target' = target /\ noise' = noise /\ matrix' = matrix /\ outcome' = outcome
        /\ e2' = [i \in 1..K |-> Append(e2[i], Digit(val[i]))]
        /\ val' = [i \in 1..K |-> (val[i] - Digit(val[i])) \div Base]
    BY DEF TakeDigit
  <1>4. 1 \in 1..K /\ Ell \in Nat
    BY Sizes
  <1>5. ASSUME NEW i \in 1..K
        PROVE  /\ e2'[i] \in Seq(Int) /\ val'[i] \in Int
               /\ Len(e2'[i]) = Len(e2[1]) + 1 /\ Len(e2'[i]) <= Ell
               /\ Towards(i, Wanted(i))'
    <2>0. e2[i] \in Seq(Int) /\ val[i] \in Int /\ Len(e2[i]) = Len(e2[1])
      BY <1>3 DEF IInv, Called
    <2>1. PICK d \in Seq(Int), v \in Int : d = e2[i] /\ v = val[i] /\ Len(d) = Len(e2[1])
      BY <2>0
    <2>2. PICK x \in Int, y \in Int :
             /\ x = Digit(v) /\ y = (v - Digit(v)) \div Base
             /\ -Base < x /\ x < Base
             /\ v >= 0 => x >= 0 /\ y >= 0
             /\ v <= 0 => x <= 0 /\ y <= 0
      BY DigitFacts
    <2>3. e2'[i] = Append(d, x) /\ val'[i] = y
      BY <1>3, <2>1, <2>2
    <2>4. PICK w \in Int : w = Wanted(i) /\ Towards(i, w)
      BY <1>1, <1>3, WantedFacts DEF IInv, Splits
    <2>5. Wanted(i)' = w
      BY <1>3, <2>4 DEF Wanted
    <2>6. Append(d, x) \in Seq(Int) /\ Len(Append(d, x)) = Len(d) + 1 /\ Len(d) \in Nat
          /\ Append(d, x)[Len(d) + 1] = x /\ \A j \in 1..Len(d) : Append(d, x)[j] = d[j]
      OBVIOUS
    <2>7. PICK p \in Int, t \in Int, r \in Int, k \in Int :
             /\ p = Power[Len(d)] * v /\ t = Power[Len(Append(d, x))] * y
             /\ r = Recomposed(d) /\ k = Recomposed(Append(d, x))
      <3>1. Recomposed(d) \in Int /\ Recomposed(Append(d, x)) \in Int
        BY <2>6, RecomposedInt
      <3>2. PICK g \in Int, h \in Int : g = Power[Len(d)] /\ h = Power[Len(Append(d, x))]
        <4>1. PICK m \in Nat, n \in Nat : m = Len(d) /\ n = Len(Append(d, x))
          BY <2>6
        <4>2. Power[m] \in Nat /\ Power[n] \in Nat
          BY PowerFacts
        <4> QED
          BY <4>1, <4>2
      <3>3. g * v \in Int /\ h * y \in Int
        OBVIOUS
      <3> QED
        BY <3>1, <3>2, <3>3
    <2>8. /\ k + t = r + p
          /\ v >= 0 => t <= p
          /\ v <= 0 => t >= p
      BY <2>2, <2>7, DigitTaken
    <2>9. /\ r + p = w
          /\ w >= 0 => v >= 0 /\ p <= w
          /\ w <= 0 => v <= 0 /\ p >= w
      BY <2>1, <2>4, <2>7 DEF Towards
    <2>10. ASSUME NEW j \in 1..Len(Append(d, x))
           PROVE  /\ -Base < Append(d, x)[j] /\ Append(d, x)[j] < Base
                  /\ w >= 0 => Append(d, x)[j] >= 0
                  /\ w <= 0 => Append(d, x)[j] <= 0
      <3>1. CASE j \in 1..Len(d)
        <4>0. j \in 1..Len(e2[i])
          BY <2>1, <3>1
        <4>1. /\ -Base < e2[i][j] /\ e2[i][j] < Base
              /\ w >= 0 => e2[i][j] >= 0
              /\ w <= 0 => e2[i][j] <= 0
          <5>1. Towards(i, w)
            BY <2>4
          <5> QED
            BY <4>0, <5>1, Zenon DEF Towards
        <4>2. Append(d, x)[j] = e2[i][j]
          BY <2>1, <2>6, <3>1
        <4> QED
          BY <4>1, <4>2
      <3>2. CASE j = Len(d) + 1
        BY <2>2, <2>6, <2>9, <3>2
      <3> QED
        BY <2>6, <3>1, <3>2
    <2>11. Towards(i, w)'
      <3>1. k + t = w /\ (w >= 0 => y >= 0 /\ t <= w) /\ (w <= 0 => y <= 0 /\ t >= w)
        BY <2>2, <2>8, <2>9
      <3> QED
        BY <2>3, <2>7, <2>10, <3>1 DEF Towards
    <2>12. e2'[i] \in Seq(Int) /\ val'[i] \in Int
      BY <2>3, <2>6
    <2>13. Len(e2'[i]) = Len(e2[1]) + 1 /\ Len(e2'[i]) <= Ell
      <3>1. Len(e2'[i]) = Len(e2[1]) + 1 /\ Len(e2[1]) \in Nat
        BY <2>1, <2>3, <2>6
      <3> QED
        BY <1>3, <1>4, <3>1
    <2>14. Towards(i, Wanted(i))'
      BY <2>5, <2>11
    <2> QED
      BY <2>12, <2>13, <2>14
  <1>6. Called'
    <2>1. e2' \in [1..K -> Seq(Int)] /\ val' \in [1..K -> Int]
      BY <1>3, <1>5
    <2>2. \A i \in 1..K : Len(e2'[i]) = Len(e2'[1]) /\ Len(e2'[i]) <= Ell
      BY <1>4, <1>5
    <2> QED
      BY <1>3, <2>1, <2>2 DEF Called, IInv
  <1>7. Splits'
    BY <1>5 DEF Splits
  <1>8. Answered'
    BY <1>3 DEF Answered, IInv
  <1> QED
    BY <1>2, <1>6, <1>7, <1>8 DEF IInv, Paired

(* The verdict is the one VerifyWitnessRelation gives of the witness.      *)
LEMMA ReturnStep ==
    ASSUME IInv, Return
    PROVE  IInv'
  <1>1. /\ phase = "digits" /\ Len(e2[1]) = Ell /\ phase' = "returned"
        /\ outcome'.verdict = VerifyWitnessRelation(matrix, Preimage, target)
        /\ UNCHANGED <<matrix, trapdoor, drawn, target, noise, val, e2>>
    BY DEF Return
  <1>2. Preimage' = Preimage
    BY <1>1 DEF Preimage, FlatE2
  <1>3. VerifyWitnessRelation(matrix, Preimage, target)
           \in {"ok", "width", "height", "relation", "norm"}
    BY DEF VerifyWitnessRelation
  <1>4. Answered'
    BY <1>1, <1>2, <1>3 DEF Answered
  <1>5. Paired'
    BY <1>1 DEF IInv, Paired, Made
  <1>6. Called'
    BY <1>1 DEF IInv, Called
  <1>7. Splits'
    <2>1. \A i \in 1..K : Wanted(i)' = Wanted(i)
      BY <1>1 DEF Wanted
    <2> QED
      BY <1>1, <2>1 DEF IInv, Splits, Towards
  <1> QED
    BY <1>4, <1>5, <1>6, <1>7 DEF IInv

(* Every step preserves the inductive invariant.                           *)
LEMMA InvStep == IInv /\ [Next]_vars => IInv'
  <1>1. ASSUME IInv, UNCHANGED vars PROVE IInv'
    <2>1. /\ UNCHANGED <<matrix, trapdoor, drawn, phase, target, noise, val, e2, outcome>>
          /\ Preimage' = Preimage /\ \A i \in 1..K : Wanted(i)' = Wanted(i)
      BY <1>1 DEF vars, Preimage, FlatE2, Wanted
    <2> QED
      BY <1>1, <2>1 DEF IInv, Paired, Made, Called, Splits, Towards, Answered
  <1> QED
    BY <1>1, PairSteps, SampleStep, DigitStep, ReturnStep DEF Next

(* For every choice of the parameters each state of the trapdoor's life    *)
(* has the inductive invariant: whose the matrix is, how the digits split  *)
(* each coefficient, and which verdict the call returned.                  *)
THEOREM Invariance == Spec => []IInv
  BY InitInv, InvStep, PTL DEF Spec

-----------------------------------------------------------------------------
(* Type correctness and the digit loop.                                    *)

(* The inductive invariant has the shapes TypeOK asks for.                 *)
LEMMA InvType == IInv => TypeOK
  <1>1. SUFFICES ASSUME IInv PROVE TypeOK
    OBVIOUS
  <1>2. (matrix = None <=> drawn = None) /\ (matrix # None => \E a : Made(a))
    BY <1>1, FullMatrix DEF IInv, Paired, Made
  <1>3. ASSUME matrix # None
        PROVE  Len(matrix) = K /\ \A i \in 1..K, c \in 1..M : matrix[i][c] \in 0..(Q - 1)
    <2>1. PICK a : Made(a)
      BY <1>2, <1>3
    <2>2. ASSUME NEW i \in 1..K, NEW c \in 1..M PROVE matrix[i][c] \in 0..(Q - 1)
      <3>1. PICK row \in Seq(0..(Q - 1)) : row = matrix[i] /\ Len(row) = M
        BY <2>1, FullRow DEF Made
      <3>2. c \in 1..Len(row)
        BY <3>1
      <3> QED
        BY <3>1, <3>2, SeqEntry
    <2> QED
      BY <2>1, <2>2, FullMatrix DEF Made
  <1>4. ASSUME phase # "idle"
        PROVE  /\ DOMAIN val = 1..K /\ DOMAIN e2 = 1..K
               /\ \A i \in 1..K : Len(e2[i]) = Len(e2[1]) /\ Len(e2[i]) <= Ell
    BY <1>1, <1>4 DEF IInv, Called
  <1> QED
    BY <1>1, <1>2, <1>3, <1>4 DEF TypeOK, IInv, Answered

(* The public matrix has its k rows of m reduced entries, the loop its     *)
(* rows of at most ell digits, for all parameters.                         *)
THEOREM TypeCorrect == Spec => []TypeOK
  BY Invariance, InvType, PTL

(* A multiple of p other than zero is at least p away from zero.           *)
LEMMA Multiples ==
    \A p \in Nat : \A v \in Int : (v >= 1 => p * v >= p) /\ (v <= -1 => p * v <= -p)
  <1>1. ASSUME NEW p \in Nat, NEW v \in Int
        PROVE  (v >= 1 => p * v >= p) /\ (v <= -1 => p * v <= -p)
    <2>1. v >= 1 => p * (v - 1) >= 0
      OBVIOUS
    <2>2. v <= -1 => p * (-v - 1) >= 0
      OBVIOUS
    <2>3. p * (v - 1) = p * v - p /\ p * (-v - 1) = -(p * v) - p
      OBVIOUS
    <2> QED
      BY <2>1, <2>2, <2>3
  <1> QED
    BY <1>1

(* The ell-th power is above q / 2, so nothing is left after ell digits.   *)
LEMMA InvDigits == IInv => DigitsRecompose
  <1>1. SUFFICES ASSUME IInv, phase # "idle", NEW i \in 1..K
                 PROVE  /\ Recomposed(e2[i]) + Power[Len(e2[i])] * val[i] = Wanted(i)
                        /\ \A j \in DOMAIN e2[i] : /\ AbsValue(e2[i][j]) < Base
                                                   /\ e2[i][j] * Wanted(i) >= 0
                        /\ Len(e2[i]) = Ell => val[i] = 0
    BY DEF DigitsRecompose
  <1>2. PICK a : Made(a)
    BY <1>1 DEF IInv, Paired
  <1>3. PICK w \in Int : /\ w = Wanted(i) /\ Towards(i, w)
                         /\ -(Q \div 2) <= w /\ w <= Q \div 2
    BY <1>1, <1>2, WantedFacts DEF IInv, Splits
  <1>4. e2[i] \in Seq(Int) /\ val[i] \in Int
    BY <1>1 DEF IInv, Called
  <1>5. PICK d \in Seq(Int), v \in Int : d = e2[i] /\ v = val[i]
    BY <1>4
  <1>6. ASSUME NEW j \in DOMAIN d
        PROVE  AbsValue(d[j]) < Base /\ d[j] * w >= 0
    <2>1. PICK x \in Int : x = d[j]
      OBVIOUS
    <2>2. j \in 1..Len(e2[i])
      BY <1>5
    <2>3. -Base < x /\ x < Base /\ (w >= 0 => x >= 0) /\ (w <= 0 => x <= 0)
      BY <1>3, <1>5, <2>1, <2>2 DEF Towards
    <2>4. x * w >= 0
      BY <2>3
    <2>5. AbsValue(x) < Base
      BY <2>3, QFacts DEF AbsValue
    <2> QED
      BY <2>1, <2>4, <2>5
  <1>7. ASSUME Len(d) = Ell PROVE v = 0
    <2>1. PICK p \in Nat : p = Power[Ell] /\ p > Q \div 2
      BY PowerFacts, PlacesAssumption, Sizes
    <2>2. /\ w >= 0 => v >= 0 /\ p * v <= w
          /\ w <= 0 => v <= 0 /\ p * v >= w
      BY <1>3, <1>5, <1>7, <2>1 DEF Towards
    <2>3. (v >= 1 => p * v >= p) /\ (v <= -1 => p * v <= -p)
      BY Multiples
    <2>5. PICK s \in Int, h \in Int : s = p * v /\ h = Q \div 2
      BY QFacts
    <2>6. p > h /\ -h <= w /\ w <= h
      BY <1>3, <2>1, <2>5
    <2>7. (v >= 1 => s >= p) /\ (v <= -1 => s <= -p)
      BY <2>3, <2>5
    <2>8. (w >= 0 => v >= 0 /\ s <= w) /\ (w <= 0 => v <= 0 /\ s >= w)
      BY <2>2, <2>5
    <2> QED
      BY <2>6, <2>7, <2>8
  <1> QED
    BY <1>3, <1>5, <1>6, <1>7 DEF Towards

(* For every base, modulus and number of places that reach past q / 2 the  *)
(* digits and the rest make up the coefficient all along the loop, and     *)
(* nothing is left at its end.                                             *)
THEOREM DigitsCorrect == Spec => []DigitsRecompose
  BY Invariance, InvDigits, PTL

-----------------------------------------------------------------------------
(* The verdict about the witness.                                          *)

(* The noise has whole numbers.                                            *)
LEMMA NoiseInts == ASSUME NEW w \in Noises, NEW j \in 1..(K - 1) PROVE w[j] \in Int
  BY InputsAssumption

(* The witness: its first rows are R e2 + noise, the others are digits.    *)
LEMMA WitnessFacts ==
    ASSUME IInv, phase = "returned"
    PROVE  /\ AllDigits /\ Preimage \in Seq(Int) /\ Len(Preimage) = M /\ DOMAIN Preimage = 1..M
           /\ \A c \in 1..Cols : Preimage[c + (K - 1)] = FlatE2[c]
           /\ \A j \in 1..(K - 1) :
                Congruent(Preimage[j], Dot(trapdoor[j], FlatE2, 1..Cols) + noise[j])
  <1>1. AllDigits
    BY DEF IInv, Called, Answered, AllDigits
  <1>2. trapdoor \in Trapdoors /\ noise \in Noises
    BY DEF IInv, Paired, Made, Called
  <1> DEFINE s == [j \in 1..(K - 1) |-> ModReduce(RowProduct(trapdoor[j], FlatE2) + noise[j])]
  <1>3. ASSUME NEW j \in 1..(K - 1)
        PROVE  /\ s[j] \in Int
               /\ Congruent(s[j], Dot(trapdoor[j], FlatE2, 1..Cols) + noise[j])
    <2>1. PICK row \in {trapdoor[j]}, f \in {FlatE2} : row = trapdoor[j] /\ f = FlatE2
      OBVIOUS
    <2>2. DOMAIN row = 1..Cols /\ IntsOn(row, 1..Cols) /\ DOMAIN f = 1..Cols /\ IntsOn(f, 1..Cols)
      BY <1>1, <1>2, <2>1, DrawnRows, FlatDigits
    <2>3. DOMAIN row \cap DOMAIN f = 1..Cols
      BY <2>2
    <2>4. RowProduct(row, f) \in 0..(Q - 1) /\ Congruent(RowProduct(row, f), Dot(row, f, 1..Cols))
      BY <2>2, <2>3, RowProductFacts, Sizes
    <2>5. PICK x \in Int, y \in {Dot(row, f, 1..Cols)} :
             x = RowProduct(row, f) /\ y = Dot(row, f, 1..Cols)
      BY <2>4, QFacts
    <2>6. PICK w \in Int : w = noise[j]
      BY <1>2, NoiseInts
    <2>7. Congruent(x + w, y + w)
      BY <2>4, <2>5, CongPlus, CongSame
    <2>8. ModReduce(x + w) \in 0..(Q - 1) /\ Congruent(ModReduce(x + w), x + w)
      <3>1. PICK d \in Int : d = x + w
        OBVIOUS
      <3>2. ModReduce(d) \in 0..(Q - 1) /\ Congruent(ModReduce(d), d)
        BY Reduces
      <3> QED
        BY <3>1, <3>2
    <2>9. s[j] = ModReduce(x + w)
      BY <2>1, <2>5, <2>6
    <2> QED
      BY <2>1, <2>5, <2>6, <2>7, <2>8, <2>9, CongTrans, QFacts
  <1>4. s \in Seq(Int) /\ Len(s) = K - 1
    <2>1. s \in [1..(K - 1) -> Int] /\ K - 1 \in Nat
      BY <1>3, Sizes
    <2> HIDE DEF s
    <2> QED
      BY <2>1
  <1>5. Preimage = s \o FlatE2
    BY DEF Preimage
  <1>6. \A j \in 1..(K - 1) : s[j] \in Int /\ Congruent(s[j], Dot(trapdoor[j], FlatE2, 1..Cols) + noise[j])
    BY <1>3
  <1> HIDE DEF s
  <1>7. PICK m \in Nat, n \in Nat : m = K - 1 /\ n = Cols
    BY Sizes
  <1>8. PICK f \in [1..n -> Int] : f = FlatE2
    BY <1>1, <1>7, FlatDigits
  <1>9. PICK g \in Seq(Int) : g = s /\ Len(g) = m
    BY <1>4, <1>7
  <1>10. g \o f \in Seq(Int) /\ f \in Seq(Int)
    BY <1>9, Joined
  <1>11. \A j \in 1..m : (g \o f)[j] = g[j]
    BY <1>9, Joined
  <1>12. \A j \in 1..n : (g \o f)[j + m] = f[j]
    BY <1>9, Joined
  <1>13. Len(g \o f) = m + n /\ DOMAIN (g \o f) = 1..(m + n)
    BY <1>9, Joined
  <1>14. Preimage = g \o f
    BY <1>5, <1>8, <1>9
  <1> QED
    BY <1>1, <1>6, <1>7, <1>8, <1>9, <1>10, <1>11, <1>12, <1>13, <1>14, Sizes

(* What A' sees of a trapdoor that is not the matrix's own.                *)
Difference == [j \in 1..(K - 1) |-> RowProduct(trapdoor[j], FlatE2) - RowProduct(drawn[j], FlatE2)]

(* Difference, and what A' makes of it, before reduction.                  *)
LEMMA DifferenceFacts ==
    ASSUME IInv, phase = "returned", NEW a, Made(a), NEW i \in 1..K
    PROVE  /\ \A j \in 1..(K - 1) :
                Congruent(Difference[j],
                          Dot(trapdoor[j], FlatE2, 1..Cols) - Dot(drawn[j], FlatE2, 1..Cols))
           /\ RowProduct(APrime(matrix)[i], Difference) \in 0..(Q - 1)
           /\ Congruent(RowProduct(APrime(matrix)[i], Difference), Dot(a[i], Difference, 1..(K - 1)))
  <1>1. AllDigits /\ trapdoor \in Trapdoors /\ drawn \in Trapdoors
    BY WitnessFacts DEF Made
  <1>2. ASSUME NEW r \in Trapdoors, NEW j \in 1..(K - 1)
        PROVE  Congruent(RowProduct(r[j], FlatE2), Dot(r[j], FlatE2, 1..Cols))
    <2>1. PICK row \in {r[j]}, f \in {FlatE2} : row = r[j] /\ f = FlatE2
      OBVIOUS
    <2>2. DOMAIN row = 1..Cols /\ IntsOn(row, 1..Cols) /\ DOMAIN f = 1..Cols /\ IntsOn(f, 1..Cols)
      BY <1>1, <2>1, DrawnRows, FlatDigits
    <2>3. DOMAIN row \cap DOMAIN f = 1..Cols
      BY <2>2
    <2>4. Congruent(RowProduct(row, f), Dot(row, f, 1..Cols))
      BY <2>2, <2>3, RowProductFacts, Sizes
    <2> QED
      BY <2>1, <2>4
  <1>3. ASSUME NEW j \in 1..(K - 1)
        PROVE  Congruent(Difference[j],
                         Dot(trapdoor[j], FlatE2, 1..Cols) - Dot(drawn[j], FlatE2, 1..Cols))
    <2>1. /\ Congruent(RowProduct(trapdoor[j], FlatE2), Dot(trapdoor[j], FlatE2, 1..Cols))
          /\ Congruent(RowProduct(drawn[j], FlatE2), Dot(drawn[j], FlatE2, 1..Cols))
      BY <1>1, <1>2
    <2>2. PICK x \in {RowProduct(trapdoor[j], FlatE2)}, y \in {Dot(trapdoor[j], FlatE2, 1..Cols)},
              z \in {RowProduct(drawn[j], FlatE2)}, w \in {Dot(drawn[j], FlatE2, 1..Cols)} :
                 /\ x = RowProduct(trapdoor[j], FlatE2) /\ y = Dot(trapdoor[j], FlatE2, 1..Cols)
                 /\ z = RowProduct(drawn[j], FlatE2) /\ w = Dot(drawn[j], FlatE2, 1..Cols)
      OBVIOUS
    <2>3. Congruent(x - z, y - w)
      BY <2>1, <2>2, CongPlus
    <2>4. Difference[j] = x - z
      BY <2>2 DEF Difference
    <2> QED
      BY <2>2, <2>3, <2>4
  <1>4. DOMAIN Difference = 1..(K - 1) /\ IntsOn(Difference, 1..(K - 1))
    BY <1>3 DEF Difference, IntsOn, Congruent
  <1>5. PICK row \in {a[i]}, f \in {Difference} :
           row = APrime(matrix)[i] /\ row = a[i] /\ f = Difference
    BY PrimeRow DEF Made
  <1>6. DOMAIN row = 1..(K - 1) /\ IntsOn(row, 1..(K - 1))
    BY <1>5, ShapedRows DEF Made
  <1>7. DOMAIN row \cap DOMAIN f = 1..(K - 1) /\ IntsOn(f, 1..(K - 1))
    BY <1>4, <1>5, <1>6
  <1>8. /\ RowProduct(row, f) \in 0..(Q - 1)
        /\ Congruent(RowProduct(row, f), Dot(row, f, 1..(K - 1)))
    BY <1>6, <1>7, RowProductFacts, Sizes
  <1> QED
    BY <1>3, <1>5, <1>8

(* A row of the relation holds exactly when A' sees no difference.         *)
LEMMA RowMet ==
    ASSUME IInv, phase = "returned", NEW i \in 1..K
    PROVE  RowProduct(matrix[i], Preimage) = target[i]
             <=> RowProduct(APrime(matrix)[i], Difference) = 0
  <1>1. PICK a : Made(a)
    BY DEF IInv, Paired
  <1> DEFINE S == 1..(K - 1)
             U == 1..Cols
  <1>2. PICK row \in {matrix[i]}, pre \in {Preimage}, b \in {ASecond(a, drawn)[i]}, e \in {FlatE2} :
           row = matrix[i] /\ pre = Preimage /\ b = ASecond(a, drawn)[i] /\ e = FlatE2
    OBVIOUS
  <1>3. /\ DOMAIN row = 1..M /\ IntsOn(row, 1..M)
        /\ \A j \in S : row[j] = a[i][j]
        /\ \A c \in U : row[c + (K - 1)] = b[c]
    <2>1. /\ matrix[i] \in Seq(0..(Q - 1)) /\ Len(matrix[i]) = M /\ DOMAIN matrix[i] = 1..M
          /\ \A j \in S : matrix[i][j] = a[i][j]
          /\ \A c \in U : matrix[i][c + (K - 1)] = ASecond(a, drawn)[i][c]
      BY <1>1, FullRow DEF Made
    <2>2. ASSUME NEW j \in 1..M PROVE row[j] \in Int
      <3>1. PICK s \in Seq(0..(Q - 1)) : s = row /\ Len(s) = M
        BY <1>2, <2>1
      <3>2. j \in 1..Len(s)
        BY <3>1
      <3>3. s[j] \in 0..(Q - 1)
        BY <3>2, SeqEntry
      <3> QED
        BY <3>1, <3>3
    <2> QED
      BY <1>2, <2>1, <2>2 DEF IntsOn
  <1>4. /\ DOMAIN pre = 1..M /\ IntsOn(pre, 1..M) /\ AllDigits
        /\ \A c \in U : pre[c + (K - 1)] = e[c]
        /\ \A j \in S : Congruent(pre[j], Dot(trapdoor[j], e, U) + noise[j])
    <2>1. ASSUME NEW j \in 1..M PROVE pre[j] \in Int
      <3>1. pre \in Seq(Int) /\ j \in 1..Len(pre)
        BY <1>2, WitnessFacts
      <3> QED
        BY <3>1, SeqEntry
    <2> QED
      BY <1>2, <2>1, WitnessFacts DEF IntsOn
  <1>5. Dot(row, pre, 1..M) = Dot(row, pre, S) + Dot(b, e, U)
    <2>1. PICK m \in Nat, n \in Nat : m = K - 1 /\ n = Cols /\ 1..M = 1..(m + n)
      BY Sizes
    <2>2. \A c \in 1..n : b[c] = row[c + m] /\ e[c] = pre[c + m]
      BY <1>3, <1>4, <2>1
    <2>3. IntsOn(row, 1..(m + n)) /\ IntsOn(pre, 1..(m + n))
      BY <1>3, <1>4, <2>1
    <2>4. Dot(row, pre, 1..(m + n)) = Dot(row, pre, 1..m) + Dot(b, e, 1..n)
      BY <2>2, <2>3, SplitDot
    <2> QED
      BY <2>1, <2>4
  <1>6. Dot(row, pre, S) = Dot(a[i], pre, S)
    <2>1. [j \in S |-> row[j] * pre[j]] = [j \in S |-> a[i][j] * pre[j]]
      BY <1>3
    <2> QED
      BY <2>1 DEF Dot
  <1>7. RowProduct(row, pre) \in 0..(Q - 1) /\ Congruent(RowProduct(row, pre), Dot(row, pre, 1..M))
    <2>1. DOMAIN row \cap DOMAIN pre = 1..M /\ IsFiniteSet(1..M)
      BY <1>3, <1>4, Sizes, FS_Interval
    <2> QED
      BY <1>3, <1>4, <2>1, RowProductFacts
  <1>8. Congruent(Dot(a[i], pre, S) + Dot(b, e, U), target[i] + Dot(a[i], Difference, S))
    <2>1. PICK ai \in {a[i]}, g \in {GadgetMatrix[i]}, w \in {noise}, d \in {drawn},
              r \in {trapdoor}, m \in {Difference}, t \in {target[i]} :
             /\ ai = a[i] /\ g = GadgetMatrix[i] /\ w = noise /\ d = drawn /\ r = trapdoor
             /\ m = Difference /\ t = target[i]
      OBVIOUS
    <2>2. IntsOn(ai, S) /\ IntsOn(e, U) /\ IntsOn(w, S) /\ IntsOn(g, U)
      <3>1. IntsOn(a[i], S)
        BY <1>1, ShapedRows DEF Made
      <3>2. IntsOn(FlatE2, U)
        BY <1>4, FlatDigits
      <3>3. IntsOn(noise, S)
        BY NoiseInts DEF IInv, Called, IntsOn
      <3>4. IntsOn(GadgetMatrix[i], U)
        BY GadgetRow DEF IntsOn
      <3> QED
        BY <1>2, <2>1, <3>1, <3>2, <3>3, <3>4
    <2>3. (\A j \in S : IntsOn(d[j], U)) /\ (\A j \in S : IntsOn(r[j], U))
      BY <1>1, <2>1, DrawnRows DEF Made
    <2>4. \A c \in U : Congruent(b[c], g[c] - Dot(ai, ColumnOn(d, c, S), S))
      BY <1>1, <1>2, <2>1, SecondRows DEF Made
    <2>5. \A j \in S : Congruent(pre[j], Dot(r[j], e, U) + w[j])
      BY <1>4, <2>1
    <2>6. \A j \in S : Congruent(m[j], Dot(r[j], e, U) - Dot(d[j], e, U))
      BY <1>1, <1>2, <2>1, DifferenceFacts
    <2>7. t \in Int /\ Congruent(Dot(g, e, U), t - Dot(ai, w, S))
      <3>1. /\ target[i] \in 0..(Q - 1)
            /\ Congruent(Wanted(i), target[i] - Dot(a[i], noise, S))
        BY <1>1, WantedFacts DEF IInv
      <3>2. Congruent(Dot(GadgetMatrix[i], FlatE2, U), Recomposed(e2[i]))
        BY <1>4, GadgetProduct
      <3>3. Recomposed(e2[i]) = Wanted(i)
        <4>1. /\ Recomposed(e2[i]) + Power[Len(e2[i])] * val[i] = Wanted(i)
              /\ Len(e2[i]) = Ell => val[i] = 0
          BY InvDigits DEF DigitsRecompose
        <4>2. PICK x \in Seq(Int) : x = e2[i] /\ Len(x) = Ell
          BY <1>4 DEF AllDigits
        <4>3. PICK p \in Int, y \in Int : p = Power[Ell] /\ y = Recomposed(x)
          <5>1. Recomposed(x) \in Int
            BY RecomposedInt
          <5>2. Power[Ell] \in Nat
            BY PowerFacts, Sizes
          <5> QED
            BY <5>1, <5>2
        <4>4. y + p * 0 = y
          OBVIOUS
        <4> QED
          BY <4>1, <4>2, <4>3, <4>4
      <3> QED
        BY <1>2, <2>1, <3>1, <3>2, <3>3, CongTrans
    <2>8. IsFiniteSet(S) /\ IsFiniteSet(U)
      BY Sizes
    <2> HIDE DEF S, U
    <2>9. Congruent(Dot(ai, pre, S) + Dot(b, e, U), t + Dot(ai, m, S))
      BY <2>2, <2>3, <2>4, <2>5, <2>6, <2>7, <2>8, PreimageRow
    <2> QED
      BY <2>1, <2>9
  <1>9. PICK x \in 0..(Q - 1), y \in 0..(Q - 1), t \in 0..(Q - 1), u \in Int :
           /\ x = RowProduct(row, pre) /\ y = RowProduct(APrime(matrix)[i], Difference)
           /\ t = target[i] /\ u = Dot(a[i], Difference, S) /\ Congruent(y, u)
    <2>1. /\ RowProduct(APrime(matrix)[i], Difference) \in 0..(Q - 1)
          /\ Congruent(RowProduct(APrime(matrix)[i], Difference), Dot(a[i], Difference, S))
      BY <1>1, DifferenceFacts
    <2>2. target[i] \in 0..(Q - 1)
      BY <1>1, WantedFacts DEF IInv
    <2> QED
      BY <1>7, <2>1, <2>2 DEF Congruent
  <1>10. Congruent(x, t + u)
    BY <1>5, <1>6, <1>7, <1>8, <1>9, CongTrans
  <1>11. Congruent(x, t + y)
    <2>1. Congruent(u, y) /\ Congruent(t, t)
      BY <1>9, CongSym, CongSame
    <2>2. PICK k \in Int, l \in Int : k = t /\ l = y
      OBVIOUS
    <2>3. Congruent(k + u, k + l)
      BY <2>1, <2>2, CongPlus
    <2> QED
      BY <1>10, <2>2, <2>3, CongTrans
  <1>12. x = t <=> y = 0
    <2>1. ASSUME y = 0 PROVE x = t
      <3>1. t + y = t
        BY <2>1
      <3> QED
        BY <1>11, <3>1, CongReduced
    <2>2. ASSUME x = t PROVE y = 0
      <3>1. PICK n \in Int : x = (t + y) + n * Q
        BY <1>11 DEF Congruent
      <3>2. 0 = y + n * Q
        BY <2>2, <3>1, QFacts
      <3>3. Congruent(0, y)
        BY <3>2 DEF Congruent
      <3>4. 0 \in 0..(Q - 1)
        BY QFacts
      <3> QED
        BY <3>3, <3>4, CongReduced
    <2> QED
      BY <2>1, <2>2
  <1> QED
    BY <1>2, <1>9, <1>12

(* Each verdict of the check comes from the cause RefusedForCause names.   *)
LEMMA InvRefused == IInv => RefusedForCause
  <1>1. SUFFICES ASSUME IInv, phase = "returned"
        PROVE  /\ outcome.verdict = "height" <=> Len(target) # K
               /\ outcome.verdict = "relation" <=>
                    /\ Len(target) = K
                    /\ \E i \in 1..K : RowProduct(APrime(matrix)[i], Difference) # 0
               /\ outcome.verdict = "norm" =>
                    \E i \in 1..(K - 1) : AbsValue(CenterCoefficient(Preimage[i])) > Gamma1
    BY DEF RefusedForCause, Difference
  <1>2. outcome.verdict = VerifyWitnessRelation(matrix, Preimage, target) /\ Len(Preimage) = M
    BY <1>1, WitnessFacts DEF IInv, Answered
  <1>3. Len(target) = K =>
          (MatrixVectorMul(matrix, Preimage) # target
             <=> \E i \in 1..K : RowProduct(APrime(matrix)[i], Difference) # 0)
    <2>1. SUFFICES ASSUME Len(target) = K
          PROVE  MatrixVectorMul(matrix, Preimage) = target
                   <=> \A i \in 1..K : RowProduct(matrix[i], Preimage) = target[i]
      BY <1>1, RowMet
    <2>2. DOMAIN matrix = 1..K
      BY <1>1, FullMatrix DEF IInv, Paired, Made
    <2>3. target \in Seq(0..(Q - 1))
      BY <1>1 DEF IInv, Called
    <2>4. target = [i \in 1..K |-> target[i]]
      BY <2>1, <2>3, Sizes
    <2>5. MatrixVectorMul(matrix, Preimage) = [i \in 1..K |-> RowProduct(matrix[i], Preimage)]
      BY <2>2 DEF MatrixVectorMul
    <2> QED
      BY <2>4, <2>5
  <1>4. ASSUME ~NormWithin(Preimage, Gamma1)
        PROVE  \E i \in 1..(K - 1) : AbsValue(CenterCoefficient(Preimage[i])) > Gamma1
    <2>1. PICK j \in 1..M : ~ (AbsValue(CenterCoefficient(Preimage[j])) <= Gamma1)
      BY <1>1, <1>4, WitnessFacts DEF NormWithin
    <2>2. PICK x \in Int : x = Preimage[j]
      <3>1. Preimage \in Seq(Int) /\ j \in 1..Len(Preimage)
        BY <1>1, WitnessFacts
      <3> QED
        BY <3>1, SeqEntry
    <2>3. PICK c \in Int : c = CenterCoefficient(x)
      BY Centred
    <2>4. AbsValue(c) > Gamma1
      <3>1. AbsValue(c) \in Int /\ Gamma1 \in Int
        BY ParametersAssumption DEF AbsValue
      <3> QED
        BY <2>1, <2>2, <2>3, <3>1
    <2>5. CASE j \in 1..(K - 1)
      BY <2>2, <2>3, <2>4, <2>5
    <2>6. CASE j \notin 1..(K - 1)
      <3>1. PICK k \in 1..Cols : j = k + (K - 1)
        <4>1. j - (K - 1) \in 1..Cols /\ j = (j - (K - 1)) + (K - 1)
          BY <2>6, Sizes
        <4> QED
          BY <4>1
      <3>2. x = FlatE2[k] /\ AllDigits
        BY <1>1, <2>2, <3>1, WitnessFacts
      <3>3. PICK i \in 1..K, t \in 1..Ell : x = e2[i][t]
        BY <3>2, FlatDigits
      <3>4. t \in DOMAIN e2[i]
        <4>1. PICK d \in Seq(Int) : d = e2[i] /\ Len(d) = Ell
          BY <3>2 DEF AllDigits
        <4> QED
          BY <4>1
      <3>5. AbsValue(x) < Base
        BY <1>1, <3>3, <3>4, InvDigits DEF DigitsRecompose
      <3>6. -Base < x /\ x < Base
        BY <3>5, QFacts DEF AbsValue
      <3>7. -(Q \div 2) < x /\ x < Q \div 2
        BY <3>6, QFacts, ParametersAssumption
      <3>8. c = x
        BY <2>3, <3>7, Centred
      <3> QED
        BY <2>4, <3>5, <3>8, PlacesAssumption, QFacts, ParametersAssumption DEF AbsValue
    <2> QED
      BY <2>5, <2>6
  <1> QED
    BY <1>2, <1>3, <1>4 DEF VerifyWitnessRelation

(* For every modulus, base, matrix, trapdoor and noise: a call is refused  *)
(* only for the height of its target, a first row above gamma1, or a       *)
(* trapdoor of another matrix whose difference A' sees.                    *)
THEOREM RefusalsHaveCause == Spec => []RefusedForCause
  BY Invariance, InvRefused, PTL

=============================================================================
