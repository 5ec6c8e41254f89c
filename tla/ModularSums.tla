----------------------------- MODULE ModularSums ----------------------------
(***************************************************************************)
(* Sums over finite sets, and their residues.  The sums of the models come *)
(* from a fold whose recursion is unfolded here (SumIs), and their laws    *)
(* follow by induction on the set.                                         *)
(***************************************************************************)
EXTENDS Modulus, Functions, FiniteSetTheorems, WellFoundedInduction, TLAPS

(* Induction on natural numbers, for a set of them.                        *)
LEMMA NatSets ==
    ASSUME NEW S, 0 \in S, \A n \in Nat : n \in S => n + 1 \in S
    PROVE  \A n \in Nat : n \in S
  <1> DEFINE R == {p \in Nat \X Nat : p[1] < p[2]}
             T == Nat \ S
  <1>1. IsWellFoundedOn(R, Nat)
    BY NatLessThanWellFounded DEF OpToRel
  <1>2. SUFFICES ASSUME T # {} PROVE FALSE
    OBVIOUS
  <1>3. PICK x \in T : \A y \in T : ~ (<<y, x>> \in R)
    BY <1>1, <1>2, WFMin
  <1>4. x # 0 /\ x \in Nat /\ x - 1 \in Nat
    BY <1>3
  <1>5. <<x - 1, x>> \in R
    <2>1. <<x - 1, x>> \in Nat \X Nat /\ x - 1 < x
      BY <1>4
    <2> QED
      BY <2>1
  <1> HIDE DEF R
  <1>6. x - 1 \notin T
    BY <1>3, <1>5
  <1> QED
    BY <1>3, <1>4, <1>6

(* Induction on finite sets, for a family of them.                         *)
LEMMA FiniteSubsets ==
    ASSUME NEW S, IsFiniteSet(S), NEW F, {} \in F,
           \A T \in SUBSET S : \A x \in S \ T : T \in F => T \cup {x} \in F
    PROVE  S \in F
  <1> DEFINE N == {n \in Nat : \A T \in SUBSET S : Cardinality(T) = n => T \in F}
  <1>1. 0 \in N
    <2>1. ASSUME NEW T \in SUBSET S, Cardinality(T) = 0 PROVE T \in F
      <3>1. IsFiniteSet(T)
        BY FS_Subset
      <3>2. T = {}
        BY <2>1, <3>1, FS_EmptySet
      <3> QED
        BY <3>2
    <2> QED
      BY <2>1
  <1>2. ASSUME NEW n \in Nat, n \in N PROVE n + 1 \in N
    <2>1. ASSUME NEW T \in SUBSET S, Cardinality(T) = n + 1 PROVE T \in F
      <3>1. IsFiniteSet(T)
        BY FS_Subset
      <3>2. T # {}
        <4>1. Cardinality({}) = 0
          BY FS_EmptySet
        <4> QED
          BY <2>1, <4>1
      <3>3. PICK x : x \in T
        BY <3>2
      <3>4. Cardinality(T \ {x}) = n
        <4>1. Cardinality(T \ {x}) = Cardinality(T) - 1
          BY <3>1, <3>3, FS_RemoveElement
        <4> QED
          BY <2>1, <4>1
      <3>5. T \ {x} \in F
        BY <1>2, <3>4
      <3>6. (T \ {x}) \cup {x} \in F
        BY <3>3, <3>5
      <3> QED
        BY <3>3, <3>6
    <2> QED
      BY <2>1
  <1> HIDE DEF N
  <1>3. \A n \in Nat : n \in N
    BY <1>1, <1>2, NatSets
  <1>4. Cardinality(S) \in N
    BY <1>3, FS_CardinalityType
  <1> QED
    BY <1>4 DEF N

-----------------------------------------------------------------------------
(* Sums over finite sets.                                                  *)

(* The element a fold takes next, and what its iteration satisfies.        *)
Pick(s) == CHOOSE x \in s : TRUE

IteratesAt(it, f, s) == it[s] = IF s = {} THEN 0 ELSE f[Pick(s)] + it[s \ {Pick(s)}]

IteratesTo(it, f, S, n) ==
    /\ it = [s \in SUBSET S |-> it[s]]
    /\ \A s \in SUBSET S : Cardinality(s) <= n => IteratesAt(it, f, s)

Iterates(it, f, S) ==
    it = [s \in SUBSET S |-> IF s = {} THEN 0 ELSE f[Pick(s)] + it[s \ {Pick(s)}]]

(* The community module's sum, unfolded.                                   *)
LEMMA SumIs ==
    ASSUME NEW f, NEW S
    PROVE  SumFunctionOnSet(f, S) = (CHOOSE it : Iterates(it, f, S))[S]
  BY DEF SumFunctionOnSet, FoldFunctionOnSet, MapThenFoldSet, Iterates, Pick

(* There is such an iteration: it is built up by the size of the subsets.  *)
LEMMA IterationExists ==
    ASSUME NEW S, IsFiniteSet(S), NEW f
    PROVE  \E it : Iterates(it, f, S)
  <1> DEFINE N == {n \in Nat : \E it : IteratesTo(it, f, S, n)}
  <1>1. \A s \in SUBSET S : IsFiniteSet(s) /\ Cardinality(s) \in Nat
    BY FS_Subset, FS_CardinalityType
  <1>2. \A s \in SUBSET S : s # {} =>
           /\ Pick(s) \in s /\ s \ {Pick(s)} \in SUBSET S
           /\ Cardinality(s \ {Pick(s)}) = Cardinality(s) - 1
    BY <1>1, FS_RemoveElement DEF Pick
  <1>3. 0 \in N
    <2> DEFINE it == [s \in SUBSET S |-> 0]
    <2>1. ASSUME NEW s \in SUBSET S, Cardinality(s) <= 0 PROVE IteratesAt(it, f, s)
      <3>1. s = {}
        BY <1>1, <2>1, FS_EmptySet
      <3> QED
        BY <3>1 DEF IteratesAt
    <2>2. IteratesTo(it, f, S, 0)
      BY <2>1 DEF IteratesTo
    <2> QED
      BY <2>2
  <1>4. ASSUME NEW n \in Nat, n \in N PROVE n + 1 \in N
    <2>1. PICK it : IteratesTo(it, f, S, n)
      BY <1>4
    <2> DEFINE next == [s \in SUBSET S |-> IF Cardinality(s) <= n THEN it[s]
                                           ELSE f[Pick(s)] + it[s \ {Pick(s)}]]
    <2>2. ASSUME NEW s \in SUBSET S, Cardinality(s) <= n + 1 PROVE IteratesAt(next, f, s)
      <3>1. CASE s = {}
        <4>1. Cardinality(s) <= n
          BY <3>1, FS_EmptySet
        <4> QED
          BY <2>1, <3>1, <4>1 DEF IteratesTo, IteratesAt
      <3>2. CASE s # {}
        <4>1. Pick(s) \in s /\ s \ {Pick(s)} \in SUBSET S /\ Cardinality(s \ {Pick(s)}) <= n
          BY <1>1, <1>2, <2>2, <3>2
        <4>2. next[s \ {Pick(s)}] = it[s \ {Pick(s)}]
          BY <4>1
        <4>3. next[s] = f[Pick(s)] + it[s \ {Pick(s)}]
          BY <2>1, <3>2 DEF IteratesTo, IteratesAt
        <4> QED
          BY <3>2, <4>2, <4>3 DEF IteratesAt
      <3> QED
        BY <3>1, <3>2
    <2>3. IteratesTo(next, f, S, n + 1)
      BY <2>2 DEF IteratesTo
    <2> QED
      BY <2>3
  <1> HIDE DEF N
  <1>5. \A n \in Nat : n \in N
    BY <1>3, <1>4, NatSets
  <1>6. Cardinality(S) \in N
    BY <1>5, FS_CardinalityType
  <1>7. PICK it : IteratesTo(it, f, S, Cardinality(S))
    BY <1>6 DEF N
  <1>8. \A s \in SUBSET S : IteratesAt(it, f, s)
    BY <1>7, FS_Subset DEF IteratesTo
  <1> QED
    BY <1>7, <1>8 DEF Iterates, IteratesTo, IteratesAt

(* Two iterations agree where both are defined, and the order in which     *)
(* whole numbers are added does not matter.                                *)
LEMMA IterationsAgree ==
    ASSUME NEW S, NEW T, IsFiniteSet(S), T \subseteq S, NEW f, NEW it, NEW jt,
           Iterates(it, f, S), Iterates(jt, f, T)
    PROVE  it[T] = jt[T]
  <1> DEFINE N == {n \in Nat : \A s \in SUBSET T : Cardinality(s) = n => it[s] = jt[s]}
  <1>1. \A s \in SUBSET T : IsFiniteSet(s) /\ Cardinality(s) \in Nat /\ s \in SUBSET S
    BY FS_Subset, FS_CardinalityType
  <1>2. \A s \in SUBSET T : s # {} =>
           /\ Pick(s) \in s /\ s \ {Pick(s)} \in SUBSET T
           /\ Cardinality(s \ {Pick(s)}) = Cardinality(s) - 1
    BY <1>1, FS_RemoveElement DEF Pick
  <1>3. 0 \in N
    <2>1. ASSUME NEW s \in SUBSET T, Cardinality(s) = 0 PROVE it[s] = jt[s]
      <3>1. s = {}
        BY <1>1, <2>1, FS_EmptySet
      <3> QED
        BY <3>1 DEF Iterates
    <2> QED
      BY <2>1
  <1>4. ASSUME NEW n \in Nat, n \in N PROVE n + 1 \in N
    <2>1. ASSUME NEW s \in SUBSET T, Cardinality(s) = n + 1 PROVE it[s] = jt[s]
      <3>1. s # {}
        <4>1. Cardinality({}) = 0
          BY FS_EmptySet
        <4> QED
          BY <2>1, <4>1
      <3>2. s \ {Pick(s)} \in SUBSET T /\ Cardinality(s \ {Pick(s)}) = n
        BY <1>2, <2>1, <3>1
      <3>3. it[s \ {Pick(s)}] = jt[s \ {Pick(s)}]
        BY <1>4, <3>2
      <3> QED
        BY <1>1, <3>1, <3>3 DEF Iterates
    <2> QED
      BY <2>1
  <1> HIDE DEF N
  <1>5. \A n \in Nat : n \in N
    BY <1>3, <1>4, NatSets
  <1>6. Cardinality(T) \in N
    BY <1>1, <1>5
  <1> QED
    BY <1>6 DEF N

(* Whole-number sums: the order of the summands does not matter.           *)
LEMMA AnyOrder ==
    ASSUME NEW S, IsFiniteSet(S), NEW f, \A x \in S : f[x] \in Int, NEW it, Iterates(it, f, S)
    PROVE  it[S] \in Int /\ \A x \in S : it[S] = f[x] + it[S \ {x}]
  <1> DEFINE N == {n \in Nat : \A s \in SUBSET S : Cardinality(s) <= n =>
                          it[s] \in Int /\ \A x \in s : it[s] = f[x] + it[s \ {x}]}
  <1>1. \A s \in SUBSET S : IsFiniteSet(s) /\ Cardinality(s) \in Nat
    BY FS_Subset, FS_CardinalityType
  <1>2. \A s \in SUBSET S : \A x \in s :
           s \ {x} \in SUBSET S /\ Cardinality(s \ {x}) = Cardinality(s) - 1
    BY <1>1, FS_RemoveElement
  <1>3. 0 \in N
    <2>1. ASSUME NEW s \in SUBSET S, Cardinality(s) <= 0 PROVE it[s] = 0 /\ s = {}
      <3>1. s = {}
        BY <1>1, <2>1, FS_EmptySet
      <3> QED
        BY <3>1 DEF Iterates
    <2> QED
      BY <2>1
  <1>4. ASSUME NEW n \in Nat, n \in N PROVE n + 1 \in N
    <2>1. ASSUME NEW s \in SUBSET S, Cardinality(s) <= n + 1
          PROVE  it[s] \in Int /\ \A x \in s : it[s] = f[x] + it[s \ {x}]
      <3>1. CASE s = {}
        BY <3>1 DEF Iterates
      <3>2. CASE s # {}
        <4> DEFINE p == Pick(s)
        <4>1. p \in s /\ it[s] = f[p] + it[s \ {p}]
          BY <3>2 DEF Pick, Iterates
        <4> HIDE DEF p
        <4>2. \A x \in s : s \ {x} \in SUBSET S /\ Cardinality(s \ {x}) <= n
          BY <1>1, <1>2, <2>1
        <4>3. \A x \in s : \A y \in s \ {x} :
                 (s \ {x}) \ {y} \in SUBSET S /\ Cardinality((s \ {x}) \ {y}) <= n
          <5>1. ASSUME NEW u \in SUBSET S, Cardinality(u) <= n, NEW y \in u
                PROVE  u \ {y} \in SUBSET S /\ Cardinality(u \ {y}) <= n
            BY <1>1, <1>2, <5>1
          <5> QED
            BY <4>2, <5>1
        <4>4. \A x \in s : /\ it[s \ {x}] \in Int
                           /\ \A y \in s \ {x} : /\ it[s \ {x}] = f[y] + it[(s \ {x}) \ {y}]
                                                 /\ it[(s \ {x}) \ {y}] \in Int
          BY <1>4, <4>2, <4>3
        <4>5. it[s] \in Int
          BY <4>1, <4>4
        <4>6. ASSUME NEW x \in s, x # p PROVE it[s] = f[x] + it[s \ {x}]
          <5>1. PICK rest \in Int : rest = it[(s \ {p}) \ {x}]
            BY <4>1, <4>4, <4>6
          <5>2. it[s \ {p}] = f[x] + rest
            BY <4>1, <4>4, <4>6, <5>1
          <5>3. (s \ {p}) \ {x} = (s \ {x}) \ {p}
            OBVIOUS
          <5>4. it[s \ {x}] = f[p] + rest
            BY <4>1, <4>4, <4>6, <5>1, <5>3
          <5>5. PICK a \in Int, b \in Int : a = f[x] /\ b = f[p]
            BY <4>1
          <5>6. b + (a + rest) = a + (b + rest)
            OBVIOUS
          <5> QED
            BY <4>1, <5>2, <5>4, <5>5, <5>6
        <4> QED
          BY <4>1, <4>5, <4>6
      <3> QED
        BY <3>1, <3>2
    <2> QED
      BY <2>1
  <1> HIDE DEF N
  <1>5. \A n \in Nat : n \in N
    BY <1>3, <1>4, NatSets
  <1>6. Cardinality(S) \in N
    BY <1>1, <1>5
  <1>7. \A n : n \in N => \A s \in SUBSET S : Cardinality(s) <= n =>
           it[s] \in Int /\ \A x \in s : it[s] = f[x] + it[s \ {x}]
    BY DEF N
  <1>8. Cardinality(S) <= Cardinality(S) /\ S \in SUBSET S
    BY <1>1
  <1> QED
    BY <1>6, <1>7, <1>8

(* The sum over a finite set, one summand at a time.                       *)
LEMMA SumStep ==
    ASSUME NEW S, IsFiniteSet(S), NEW f, \A x \in S : f[x] \in Int
    PROVE  /\ SumFunctionOnSet(f, S) \in Int
           /\ S = {} => SumFunctionOnSet(f, S) = 0
           /\ \A x \in S : SumFunctionOnSet(f, S) = f[x] + SumFunctionOnSet(f, S \ {x})
  <1>1. PICK it : Iterates(it, f, S) /\ SumFunctionOnSet(f, S) = it[S]
    BY IterationExists, SumIs
  <1>2. it[S] \in Int /\ \A x \in S : it[S] = f[x] + it[S \ {x}]
    <2>1. Iterates(it, f, S)
      BY <1>1
    <2> QED
      BY <2>1, AnyOrder
  <1>3. S = {} => it[S] = 0
    BY <1>1 DEF Iterates
  <1>4. ASSUME NEW x \in S PROVE it[S \ {x}] = SumFunctionOnSet(f, S \ {x})
    <2> DEFINE T == S \ {x}
    <2>1. IsFiniteSet(T) /\ T \subseteq S
      BY FS_Subset
    <2> HIDE DEF T
    <2>2. PICK jt : Iterates(jt, f, T) /\ SumFunctionOnSet(f, T) = jt[T]
      BY <2>1, IterationExists, SumIs
    <2>3. it[T] = jt[T]
      BY <1>1, <2>1, <2>2, IterationsAgree
    <2> QED
      BY <2>2, <2>3 DEF T
  <1> QED
    BY <1>1, <1>2, <1>3, <1>4

(* The same fact, for a summand that comes to a set.                       *)
LEMMA SumAdd ==
    ASSUME NEW S, IsFiniteSet(S), NEW f, \A x \in S : f[x] \in Int,
           NEW T \in SUBSET S, NEW x \in S \ T
    PROVE  /\ SumFunctionOnSet(f, T) \in Int
           /\ SumFunctionOnSet(f, T \cup {x}) = f[x] + SumFunctionOnSet(f, T)
  <1>1. IsFiniteSet(T) /\ IsFiniteSet(T \cup {x})
    BY FS_Subset, FS_AddElement
  <1>2. (T \cup {x}) \ {x} = T
    OBVIOUS
  <1>3. SumFunctionOnSet(f, T) \in Int
    BY <1>1, SumStep
  <1>4. \A y \in T \cup {x} : f[y] \in Int
    OBVIOUS
  <1>5. x \in T \cup {x}
    OBVIOUS
  <1>6. SumFunctionOnSet(f, T \cup {x}) = f[x] + SumFunctionOnSet(f, (T \cup {x}) \ {x})
    BY <1>1, <1>4, <1>5, SumStep
  <1> QED
    BY <1>2, <1>3, <1>6

(* The same of all parts of S at once.                                     *)
Additive(f, S) ==
    \A T \in SUBSET S : \A x \in S \ T :
        /\ SumFunctionOnSet(f, T) \in Int
        /\ SumFunctionOnSet(f, T \cup {x}) = f[x] + SumFunctionOnSet(f, T)

(* Sums of whole numbers are additive.                                     *)
LEMMA SumsAdditive ==
    ASSUME NEW S, IsFiniteSet(S), NEW f, \A x \in S : f[x] \in Int
    PROVE  Additive(f, S)
  BY SumAdd DEF Additive

(* The sum over no summands.                                               *)
LEMMA SumEmpty == ASSUME NEW f PROVE SumFunctionOnSet(f, {}) = 0
  BY SumStep, FS_EmptySet

(* A sum depends on its summands alone.                                    *)
LEMMA SumAgree ==
    ASSUME NEW S, IsFiniteSet(S), NEW f, NEW g, \A x \in S : f[x] \in Int /\ f[x] = g[x]
    PROVE  SumFunctionOnSet(f, S) = SumFunctionOnSet(g, S)
  <1> DEFINE F == {T \in SUBSET S : SumFunctionOnSet(f, T) = SumFunctionOnSet(g, T)}
  <1>1. {} \in F
    BY SumEmpty
  <1>2. ASSUME NEW T \in SUBSET S, NEW x \in S \ T, T \in F PROVE T \cup {x} \in F
    BY <1>2, SumAdd
  <1> HIDE DEF F
  <1>3. S \in F
    BY <1>1, <1>2, FiniteSubsets
  <1> QED
    BY <1>3 DEF F

(* Sums of sums and multiples, and of summands that differ by multiples.   *)
LEMMA SumPlus ==
    ASSUME NEW S, IsFiniteSet(S), NEW f, NEW g, NEW h,
           \A x \in S : f[x] \in Int /\ g[x] \in Int /\ h[x] = f[x] + g[x]
    PROVE  SumFunctionOnSet(h, S) = SumFunctionOnSet(f, S) + SumFunctionOnSet(g, S)
  <1> DEFINE F == {T \in SUBSET S :
                     SumFunctionOnSet(h, T) = SumFunctionOnSet(f, T) + SumFunctionOnSet(g, T)}
  <1>0. /\ \A x \in S : f[x] \in Int
        /\ \A x \in S : g[x] \in Int
        /\ \A x \in S : h[x] \in Int
    OBVIOUS
  <1>1. {} \in F
    BY SumEmpty
  <1>2. ASSUME NEW T \in SUBSET S, NEW x \in S \ T, T \in F PROVE T \cup {x} \in F
    <2>1. /\ SumFunctionOnSet(f, T) \in Int
          /\ SumFunctionOnSet(f, T \cup {x}) = f[x] + SumFunctionOnSet(f, T)
      BY <1>0, SumAdd
    <2>2. /\ SumFunctionOnSet(g, T) \in Int
          /\ SumFunctionOnSet(g, T \cup {x}) = g[x] + SumFunctionOnSet(g, T)
      BY <1>0, SumAdd
    <2>3. SumFunctionOnSet(h, T \cup {x}) = h[x] + SumFunctionOnSet(h, T)
      BY <1>0, SumAdd
    <2> QED
      BY <1>2, <2>1, <2>2, <2>3
  <1> HIDE DEF F
  <1>3. S \in F
    BY <1>1, <1>2, FiniteSubsets
  <1> QED
    BY <1>3 DEF F

(* A sum of multiples is the multiple of the sum.                          *)
LEMMA SumTimes ==
    ASSUME NEW S, IsFiniteSet(S), NEW a \in Int, NEW f, NEW h,
           \A x \in S : f[x] \in Int /\ h[x] = a * f[x]
    PROVE  SumFunctionOnSet(h, S) = a * SumFunctionOnSet(f, S)
  <1> DEFINE F == {T \in SUBSET S : SumFunctionOnSet(h, T) = a * SumFunctionOnSet(f, T)}
  <1>0. \A x \in S : h[x] \in Int
    OBVIOUS
  <1>1. {} \in F
    BY SumEmpty
  <1>2. ASSUME NEW T \in SUBSET S, NEW x \in S \ T, T \in F PROVE T \cup {x} \in F
    <2>1. PICK s \in Int, u \in Int : s = SumFunctionOnSet(f, T) /\ u = f[x]
      BY SumAdd
    <2>2. SumFunctionOnSet(f, T \cup {x}) = u + s
      BY <2>1, SumAdd
    <2>3. SumFunctionOnSet(h, T \cup {x}) = h[x] + SumFunctionOnSet(h, T)
      BY <1>0, SumAdd
    <2>4. SumFunctionOnSet(h, T) = a * s /\ h[x] = a * u
      BY <1>2, <2>1
    <2>5. a * u + a * s = a * (u + s)
      OBVIOUS
    <2> QED
      BY <2>2, <2>3, <2>4, <2>5
  <1> HIDE DEF F
  <1>3. S \in F
    BY <1>1, <1>2, FiniteSubsets
  <1> QED
    BY <1>3 DEF F

(* Sums over two sets that do not meet.                                    *)
LEMMA SumUnion ==
    ASSUME NEW S, NEW U, IsFiniteSet(S), IsFiniteSet(U), S \cap U = {},
           NEW f, \A x \in S \cup U : f[x] \in Int
    PROVE  SumFunctionOnSet(f, S \cup U) = SumFunctionOnSet(f, S) + SumFunctionOnSet(f, U)
  <1> DEFINE F == {T \in SUBSET U :
                     SumFunctionOnSet(f, S \cup T) = SumFunctionOnSet(f, S) + SumFunctionOnSet(f, T)}
  <1>0. IsFiniteSet(S \cup U) /\ SumFunctionOnSet(f, S) \in Int
    BY FS_Union, SumStep
  <1>1. {} \in F
    <2>1. S \cup {} = S
      OBVIOUS
    <2> QED
      BY <1>0, <2>1, SumEmpty
  <1>2. ASSUME NEW T \in SUBSET U, NEW x \in U \ T, T \in F PROVE T \cup {x} \in F
    <2>1. /\ SumFunctionOnSet(f, T) \in Int
          /\ SumFunctionOnSet(f, T \cup {x}) = f[x] + SumFunctionOnSet(f, T)
      BY SumAdd
    <2>2. S \cup T \in SUBSET (S \cup U) /\ x \in (S \cup U) \ (S \cup T)
      OBVIOUS
    <2>3. SumFunctionOnSet(f, (S \cup T) \cup {x}) = f[x] + SumFunctionOnSet(f, S \cup T)
      <3>1. PICK W \in {S \cup U}, V \in {S \cup T} : W = S \cup U /\ V = S \cup T
        OBVIOUS
      <3>2. IsFiniteSet(W) /\ V \in SUBSET W /\ x \in W \ V /\ \A z \in W : f[z] \in Int
        BY <1>0, <2>2, <3>1
      <3>3. SumFunctionOnSet(f, V \cup {x}) = f[x] + SumFunctionOnSet(f, V)
        BY <3>2, SumAdd
      <3> QED
        BY <3>1, <3>3
    <2>4. (S \cup T) \cup {x} = S \cup (T \cup {x})
      OBVIOUS
    <2>5. PICK a \in Int, b \in Int, c \in Int :
             a = f[x] /\ b = SumFunctionOnSet(f, S) /\ c = SumFunctionOnSet(f, T)
      BY <1>0, <2>1
    <2>6. SumFunctionOnSet(f, S \cup T) = b + c
      BY <1>2, <2>5
    <2>7. a + (b + c) = b + (a + c)
      OBVIOUS
    <2>8. SumFunctionOnSet(f, S \cup (T \cup {x})) = b + SumFunctionOnSet(f, T \cup {x})
      BY <2>1, <2>3, <2>4, <2>5, <2>6, <2>7
    <2> QED
      BY <2>5, <2>8
  <1> HIDE DEF F
  <1>3. U \in F
    BY <1>1, <1>2, FiniteSubsets
  <1> QED
    BY <1>3 DEF F

(* The order of two summations.                                            *)
LEMMA SumSwap ==
    ASSUME NEW S, NEW U, IsFiniteSet(S), IsFiniteSet(U),
           NEW f, \A x \in S, y \in U : f[x][y] \in Int
    PROVE  SumFunctionOnSet([x \in S |-> SumFunctionOnSet(f[x], U)], S)
             = SumFunctionOnSet([y \in U |-> SumFunctionOnSet([x \in S |-> f[x][y]], S)], U)
  <1> DEFINE rows(T) == SumFunctionOnSet([x \in S |-> SumFunctionOnSet(f[x], T)], S)
             cols == [y \in U |-> SumFunctionOnSet([x \in S |-> f[x][y]], S)]
             F == {T \in SUBSET U : rows(T) = SumFunctionOnSet(cols, T)}
  <1>0. \A y \in U : cols[y] \in Int
    BY SumStep
  <1>1. {} \in F
    <2> DEFINE g == [x \in S |-> SumFunctionOnSet(f[x], {})]
    <2>1. \A x \in S : g[x] \in Int /\ g[x] = 0 * g[x]
      BY SumEmpty
    <2> HIDE DEF g
    <2>2. SumFunctionOnSet(g, S) = 0 * SumFunctionOnSet(g, S) /\ SumFunctionOnSet(g, S) \in Int
      BY <2>1, SumTimes, SumStep
    <2> QED
      BY <2>2, SumEmpty DEF g
  <1>2. ASSUME NEW T \in SUBSET U, NEW z \in U \ T, T \in F PROVE T \cup {z} \in F
    <2> DEFINE a == [x \in S |-> SumFunctionOnSet(f[x], T \cup {z})]
               b == [x \in S |-> f[x][z]]
               c == [x \in S |-> SumFunctionOnSet(f[x], T)]
    <2>1. \A x \in S : b[x] \in Int /\ c[x] \in Int /\ a[x] = b[x] + c[x]
      <3>1. ASSUME NEW x \in S
            PROVE  /\ SumFunctionOnSet(f[x], T) \in Int /\ f[x][z] \in Int
                   /\ SumFunctionOnSet(f[x], T \cup {z}) = f[x][z] + SumFunctionOnSet(f[x], T)
        <4>1. PICK g : g = f[x]
          OBVIOUS
        <4>2. \A y \in U : g[y] \in Int
          BY <4>1
        <4>3. Additive(g, U)
          BY <4>2, SumsAdditive
        <4>4. /\ SumFunctionOnSet(g, T) \in Int
              /\ SumFunctionOnSet(g, T \cup {z}) = g[z] + SumFunctionOnSet(g, T)
          BY <4>3 DEF Additive
        <4> QED
          BY <4>1, <4>2, <4>4
      <3> QED
        BY <3>1
    <2> HIDE DEF a, b, c
    <2>2. SumFunctionOnSet(a, S) = SumFunctionOnSet(b, S) + SumFunctionOnSet(c, S)
      BY <2>1, SumPlus
    <2>3. SumFunctionOnSet(b, S) = cols[z]
      BY DEF b
    <2>4. SumFunctionOnSet(c, S) = SumFunctionOnSet(cols, T)
      BY <1>2 DEF c
    <2> HIDE DEF cols
    <2>5. SumFunctionOnSet(cols, T \cup {z}) = cols[z] + SumFunctionOnSet(cols, T)
      BY <1>0, SumAdd
    <2> QED
      BY <2>2, <2>3, <2>4, <2>5 DEF a
  <1> HIDE DEF F
  <1>3. U \in F
    BY <1>1, <1>2, FiniteSubsets
  <1> QED
    BY <1>3 DEF F

(* A sum of zeros.                                                         *)
LEMMA SumZero ==
    ASSUME NEW S, IsFiniteSet(S), NEW f, \A x \in S : f[x] = 0
    PROVE  SumFunctionOnSet(f, S) = 0
  <1> DEFINE F == {T \in SUBSET S : SumFunctionOnSet(f, T) = 0}
  <1>1. {} \in F
    BY SumEmpty
  <1>2. \A x \in S : f[x] \in Int
    OBVIOUS
  <1>3. ASSUME NEW T \in SUBSET S, NEW x \in S \ T, T \in F PROVE T \cup {x} \in F
    <2>1. SumFunctionOnSet(f, T \cup {x}) = f[x] + SumFunctionOnSet(f, T)
      BY <1>2, SumAdd
    <2> QED
      BY <1>3, <2>1
  <1> HIDE DEF F
  <1>4. S \in F
    BY <1>1, <1>3, FiniteSubsets
  <1> QED
    BY <1>4 DEF F

(* A sum over a set moved by an offset.                                    *)
Moved(S, d) == {x + d : x \in S}

(* Such a sum is the sum of the summands where they have moved to.         *)
LEMMA SumShift ==
    ASSUME NEW S, IsFiniteSet(S), NEW d \in Int, NEW f, NEW g,
           \A x \in S : x \in Int /\ g[x] \in Int /\ f[x + d] = g[x]
    PROVE  SumFunctionOnSet(f, Moved(S, d)) = SumFunctionOnSet(g, S)
  <1>0. ASSUME NEW T \in SUBSET S, NEW z \in S \ T
        PROVE  SumFunctionOnSet(g, T \cup {z}) = g[z] + SumFunctionOnSet(g, T)
    <2>1. \A x \in S : g[x] \in Int
      OBVIOUS
    <2> QED
      BY <2>1, SumAdd
  <1> DEFINE F == {T \in SUBSET S :
                     /\ IsFiniteSet({x + d : x \in T})
                     /\ SumFunctionOnSet(f, {x + d : x \in T}) = SumFunctionOnSet(g, T)}
  <1>1. {} \in F
    <2>1. {x + d : x \in {}} = {}
      OBVIOUS
    <2> QED
      BY <2>1, SumEmpty, FS_EmptySet
  <1>2. ASSUME NEW T \in SUBSET S, NEW z \in S \ T, T \in F PROVE T \cup {z} \in F
    <2> DEFINE U == {x + d : x \in T}
    <2>1. IsFiniteSet(U) /\ SumFunctionOnSet(f, U) = SumFunctionOnSet(g, T)
      BY <1>2
    <2>2. PICK w \in Int : w = z + d /\ f[w] = g[z]
      OBVIOUS
    <2>3. w \notin U /\ {x + d : x \in T \cup {z}} = U \cup {w}
      BY <2>2
    <2>4. \A y \in U \cup {w} : f[y] \in Int
      BY <2>2
    <2> HIDE DEF U
    <2>5. IsFiniteSet(U \cup {w})
      BY <2>1, FS_AddElement
    <2>6. U \in SUBSET (U \cup {w}) /\ w \in (U \cup {w}) \ U
      BY <2>3
    <2>7. SumFunctionOnSet(f, U \cup {w}) = f[w] + SumFunctionOnSet(f, U)
      BY <2>4, <2>5, <2>6, SumAdd
    <2>8. SumFunctionOnSet(g, T \cup {z}) = g[z] + SumFunctionOnSet(g, T)
      BY <1>0
    <2>9. T \cup {z} \in SUBSET S
      OBVIOUS
    <2> QED
      BY <2>1, <2>2, <2>3, <2>5, <2>7, <2>8, <2>9
  <1> HIDE DEF F
  <1>3. S \in F
    BY <1>1, <1>2, FiniteSubsets
  <1> QED
    BY <1>3 DEF F, Moved

-----------------------------------------------------------------------------
(* Whole numbers modulo q.                                                 *)

(* Equal up to a multiple of q.                                            *)
Congruent(a, b) == a \in Int /\ b \in Int /\ \E n \in Int : a = b + n * Q

(* What the proofs use of the modulus.                                     *)
LEMMA ModulusFacts == Q \in Nat /\ Q > 2 /\ Q \in Int
  BY ModulusAssumption

(* Every whole number is congruent to itself.                              *)
LEMMA CongSame == ASSUME NEW a \in Int PROVE Congruent(a, a)
  <1>1. a = a + 0 * Q
    BY ModulusFacts
  <1> QED
    BY <1>1 DEF Congruent

(* Congruence may be turned round.                                         *)
LEMMA CongSym == ASSUME NEW a, NEW b, Congruent(a, b) PROVE Congruent(b, a)
  <1>1. PICK n \in Int : a = b + n * Q
    BY DEF Congruent
  <1>2. b = a + (-n) * Q
    BY <1>1, ModulusFacts DEF Congruent
  <1> QED
    BY <1>2 DEF Congruent

(* Congruence chains.                                                      *)
LEMMA CongTrans ==
    ASSUME NEW a, NEW b, NEW c, Congruent(a, b), Congruent(b, c) PROVE Congruent(a, c)
  <1>1. PICK n \in Int : a = b + n * Q
    BY DEF Congruent
  <1>2. PICK m \in Int : b = c + m * Q
    BY DEF Congruent
  <1>3. a = c + (n + m) * Q
    BY <1>1, <1>2, ModulusFacts DEF Congruent
  <1> QED
    BY <1>3 DEF Congruent

(* Congruences may be added and subtracted.                                *)
LEMMA CongPlus ==
    ASSUME NEW a, NEW b, NEW c, NEW d, Congruent(a, b), Congruent(c, d)
    PROVE  Congruent(a + c, b + d) /\ Congruent(a - c, b - d)
  <1>1. PICK n \in Int : a = b + n * Q
    BY DEF Congruent
  <1>2. PICK m \in Int : c = d + m * Q
    BY DEF Congruent
  <1>3. a + c = (b + d) + (n + m) * Q /\ a - c = (b - d) + (n - m) * Q
    BY <1>1, <1>2, ModulusFacts DEF Congruent
  <1> QED
    BY <1>3 DEF Congruent

(* A congruence may be multiplied by a whole number.                       *)
LEMMA CongTimes ==
    ASSUME NEW a \in Int, NEW b, NEW c, Congruent(b, c)
    PROVE  Congruent(a * b, a * c)
  <1>1. PICK n \in Int : b = c + n * Q
    BY DEF Congruent
  <1>2. a * (c + n * Q) = a * c + (a * n) * Q
    BY ModulusFacts DEF Congruent
  <1>3. a * b \in Int /\ a * c \in Int /\ a * n \in Int
    BY DEF Congruent
  <1> QED
    BY <1>1, <1>2, <1>3 DEF Congruent

(* Reduction changes a number by a multiple of q and ends below q.         *)
LEMMA Residue ==
    ASSUME NEW a \in Int
    PROVE  (a % Q) \in 0..(Q - 1) /\ Congruent(a % Q, a)
  <1>0. Q \in Nat /\ Q > 0
    BY ModulusFacts
  <1>1. /\ a % Q \in 0..(Q - 1)
        /\ a \div Q \in Int
        /\ a = Q * (a \div Q) + (a % Q)
    <2>1. a % Q \in 0..(Q - 1)
      BY <1>0
    <2>2. a \div Q \in Int
      BY <1>0
    <2>3. a = Q * (a \div Q) + (a % Q)
      BY <1>0, SMTT(20)
    <2> QED
      BY <2>1, <2>2, <2>3
  <1>2. PICK n \in Int, r \in Int : n = a \div Q /\ r = a % Q
    BY <1>1
  <1>3. r = a + (-n) * Q
    BY <1>1, <1>2, ModulusFacts
  <1> QED
    BY <1>1, <1>2, <1>3 DEF Congruent

(* Reduced numbers that are congruent are the same.                        *)
LEMMA CongReduced ==
    ASSUME NEW a \in 0..(Q - 1), NEW b \in 0..(Q - 1), Congruent(a, b)
    PROVE  a = b
  <1>1. PICK n \in Int : a = b + n * Q
    BY DEF Congruent
  <1>2. n >= 1 => n * Q >= Q
    BY ModulusFacts
  <1>3. n <= -1 => n * Q <= -Q
    BY ModulusFacts
  <1>4. n = 0
    BY <1>1, <1>2, <1>3, ModulusFacts
  <1> QED
    BY <1>1, <1>4, ModulusFacts

(* Sums of congruent summands.                                             *)
LEMMA CongSum ==
    ASSUME NEW S, IsFiniteSet(S), NEW f, NEW g, \A x \in S : Congruent(f[x], g[x])
    PROVE  Congruent(SumFunctionOnSet(f, S), SumFunctionOnSet(g, S))
  <1> DEFINE F == {T \in SUBSET S : Congruent(SumFunctionOnSet(f, T), SumFunctionOnSet(g, T))}
  <1>0. (\A x \in S : f[x] \in Int) /\ (\A x \in S : g[x] \in Int)
    BY DEF Congruent
  <1>1. {} \in F
    BY SumEmpty, CongSame
  <1>2. ASSUME NEW T \in SUBSET S, NEW z \in S \ T, T \in F PROVE T \cup {z} \in F
    <2>1. /\ SumFunctionOnSet(f, T \cup {z}) = f[z] + SumFunctionOnSet(f, T)
          /\ SumFunctionOnSet(g, T \cup {z}) = g[z] + SumFunctionOnSet(g, T)
      BY <1>0, SumAdd
    <2>2. Congruent(f[z] + SumFunctionOnSet(f, T), g[z] + SumFunctionOnSet(g, T))
      BY <1>2, CongPlus
    <2> QED
      BY <2>1, <2>2
  <1> HIDE DEF F
  <1>3. S \in F
    BY <1>1, <1>2, FiniteSubsets
  <1> QED
    BY <1>3 DEF F

-----------------------------------------------------------------------------
(* Products of a row and a vector, before they are reduced.                *)

(* The product of two vectors over the places S, not reduced.              *)
Dot(f, g, S) == SumFunctionOnSet([j \in S |-> f[j] * g[j]], S)

(* f has whole numbers at the places S.                                    *)
IntsOn(f, S) == \A j \in S : f[j] \in Int

(* Column c of the rows d[j].                                              *)
ColumnOn(d, c, S) == [j \in S |-> d[j][c]]

(* de holds the products of the rows with e, ad those of a with the        *)
(* columns.                                                                *)
RowProducts(de, d, e, S, U) == \A j \in S : de[j] = Dot(d[j], e, U)
ColumnProducts(ad, a, d, S, U) == \A c \in U : ad[c] = Dot(a, ColumnOn(d, c, S), S)

(* Products of whole numbers.                                              *)
LEMMA IntTimes == \A a, b \in Int : a * b \in Int /\ a * b = b * a
  OBVIOUS

(* A product of whole-number vectors is a whole number, in either order.   *)
LEMMA DotInt ==
    ASSUME NEW S, IsFiniteSet(S), NEW f, NEW g, IntsOn(f, S), IntsOn(g, S)
    PROVE  Dot(f, g, S) \in Int /\ Dot(f, g, S) = Dot(g, f, S)
  <1> DEFINE h == [j \in S |-> f[j] * g[j]]
             k == [j \in S |-> g[j] * f[j]]
  <1>1. \A j \in S : h[j] \in Int
    BY IntTimes DEF IntsOn
  <1>2. h = k
    BY IntTimes DEF IntsOn
  <1> HIDE DEF h, k
  <1>3. SumFunctionOnSet(h, S) \in Int
    BY <1>1, SumStep
  <1> QED
    BY <1>2, <1>3 DEF Dot, h, k

(* Products with congruent vectors are congruent.                          *)
LEMMA DotCong ==
    ASSUME NEW S, IsFiniteSet(S), NEW f, NEW g, NEW h, IntsOn(f, S),
           \A j \in S : Congruent(g[j], h[j])
    PROVE  Congruent(Dot(f, g, S), Dot(f, h, S))
  <1> DEFINE a == [j \in S |-> f[j] * g[j]]
             b == [j \in S |-> f[j] * h[j]]
  <1>1. \A j \in S : Congruent(a[j], b[j])
    BY CongTimes DEF IntsOn
  <1> HIDE DEF a, b
  <1>2. Congruent(SumFunctionOnSet(a, S), SumFunctionOnSet(b, S))
    BY <1>1, CongSum
  <1> QED
    BY <1>2 DEF Dot, a, b

(* A product distributes over the sum of two vectors.                      *)
LEMMA DotPlus ==
    ASSUME NEW S, IsFiniteSet(S), NEW f, NEW g, NEW h, NEW k, IntsOn(f, S), IntsOn(g, S),
           IntsOn(h, S), \A j \in S : k[j] = g[j] + h[j]
    PROVE  Dot(f, k, S) = Dot(f, g, S) + Dot(f, h, S)
  <1> DEFINE a == [j \in S |-> f[j] * g[j]]
             b == [j \in S |-> f[j] * h[j]]
             c == [j \in S |-> f[j] * k[j]]
  <1>1. ASSUME NEW j \in S PROVE a[j] \in Int /\ b[j] \in Int /\ c[j] = a[j] + b[j]
    <2>1. PICK x \in Int, y \in Int, z \in Int : x = f[j] /\ y = g[j] /\ z = h[j]
      BY DEF IntsOn
    <2>2. x * (y + z) = x * y + x * z /\ x * y \in Int /\ x * z \in Int
      OBVIOUS
    <2> QED
      BY <2>1, <2>2
  <1> HIDE DEF a, b, c
  <1>2. SumFunctionOnSet(c, S) = SumFunctionOnSet(a, S) + SumFunctionOnSet(b, S)
    BY <1>1, SumPlus
  <1> QED
    BY <1>2 DEF Dot, a, b, c

(* a (D e) = (a D) e, for a row a, a matrix D and a vector e.              *)
LEMMA DotSwap ==
    ASSUME NEW S, IsFiniteSet(S), NEW U, IsFiniteSet(U), NEW a, IntsOn(a, S), NEW e, IntsOn(e, U),
           NEW d, \A j \in S : IntsOn(d[j], U),
           NEW de, RowProducts(de, d, e, S, U), NEW ad, ColumnProducts(ad, a, d, S, U)
    PROVE  Dot(a, de, S) = Dot(ad, e, U)
  <1> DEFINE f == [j \in S |-> [c \in U |-> a[j] * (d[j][c] * e[c])]]
             row == [j \in S |-> SumFunctionOnSet(f[j], U)]
             col == [c \in U |-> SumFunctionOnSet([j \in S |-> f[j][c]], S)]
  <1>1. \A j \in S : \A c \in U : a[j] \in Int /\ d[j][c] \in Int /\ e[c] \in Int
    BY DEF IntsOn
  <1>2. \A x, y, z \in Int : x * (y * z) \in Int /\ y * z \in Int /\ x * (y * z) = (x * y) * z
                           /\ x * (y * z) = z * (x * y)
    OBVIOUS
  <1>3. \A j \in S : \A c \in U : /\ f[j][c] \in Int
                                  /\ d[j][c] * e[c] \in Int
                                  /\ f[j][c] = a[j] * (d[j][c] * e[c])
                                  /\ f[j][c] = e[c] * (a[j] * d[j][c])
                                  /\ a[j] * d[j][c] \in Int
    BY <1>1, <1>2, IntTimes
  <1> HIDE DEF f
  <1>4. SumFunctionOnSet(row, S) = SumFunctionOnSet(col, U)
    <2>1. \A x \in S, y \in U : f[x][y] \in Int
      BY <1>3
    <2> QED
      BY <2>1, SumSwap
  <1>5. ASSUME NEW j \in S PROVE row[j] = a[j] * Dot(d[j], e, U)
    <2> DEFINE g == [c \in U |-> d[j][c] * e[c]]
    <2>1. PICK h : h = f[j]
      OBVIOUS
    <2>2. PICK x \in Int : x = a[j]
      BY DEF IntsOn
    <2>3. \A c \in U : g[c] \in Int /\ h[c] = x * g[c]
      BY <1>3, <2>1, <2>2
    <2> HIDE DEF g
    <2>4. SumFunctionOnSet(h, U) = x * SumFunctionOnSet(g, U)
      BY <2>3, SumTimes
    <2> QED
      BY <2>1, <2>2, <2>4 DEF g, Dot
  <1>6. ASSUME NEW c \in U PROVE col[c] = Dot(a, ColumnOn(d, c, S), S) * e[c]
    <2> DEFINE g == [j \in S |-> a[j] * d[j][c]]
               h == [j \in S |-> f[j][c]]
    <2>1. PICK x \in Int : x = e[c]
      BY DEF IntsOn
    <2>2. \A j \in S : g[j] \in Int /\ h[j] = x * g[j]
      BY <1>3, <2>1
    <2>3. Dot(a, ColumnOn(d, c, S), S) = SumFunctionOnSet(g, S)
      <3>1. [j \in S |-> a[j] * [i \in S |-> d[i][c]][j]] = g
        OBVIOUS
      <3> QED
        BY <3>1 DEF Dot, ColumnOn
    <2>4. col[c] = SumFunctionOnSet(h, S)
      OBVIOUS
    <2> HIDE DEF g, h, col
    <2>5. SumFunctionOnSet(h, S) = x * SumFunctionOnSet(g, S) /\ SumFunctionOnSet(g, S) \in Int
      BY <2>2, SumTimes, SumStep
    <2> QED
      BY <2>1, <2>3, <2>4, <2>5, IntTimes
  <1>7. row = [j \in S |-> a[j] * de[j]]
    BY <1>5 DEF RowProducts
  <1>8. col = [c \in U |-> ad[c] * e[c]]
    BY <1>6 DEF ColumnProducts
  <1> HIDE DEF row, col
  <1> QED
    BY <1>4, <1>7, <1>8 DEF Dot

(* h is x times g.                                                         *)
Multiple(h, x, g, S) == \A j \in S : h[j] = x * g[j]

(* A multiple of one vector multiplies the product.                        *)
LEMMA DotTimes ==
    ASSUME NEW S, IsFiniteSet(S), NEW x \in Int, NEW f, NEW g, NEW h,
           IntsOn(f, S), IntsOn(g, S), Multiple(h, x, g, S)
    PROVE  Dot(f, h, S) = x * Dot(f, g, S)
  <1> DEFINE a == [j \in S |-> f[j] * g[j]]
             b == [j \in S |-> f[j] * h[j]]
  <1>1. ASSUME NEW j \in S PROVE a[j] \in Int /\ b[j] = x * a[j]
    <2>1. PICK y \in Int, z \in Int : y = f[j] /\ z = g[j]
      BY DEF IntsOn
    <2>2. y * z \in Int /\ y * (x * z) = x * (y * z)
      OBVIOUS
    <2>3. a[j] = y * z /\ b[j] = y * (x * z)
      BY <2>1 DEF Multiple
    <2> QED
      BY <2>2, <2>3
  <1> HIDE DEF a, b
  <1>2. SumFunctionOnSet(b, S) = x * SumFunctionOnSet(a, S)
    BY <1>1, SumTimes
  <1> QED
    BY <1>2 DEF Dot, a, b

(* A product over two runs of columns.                                     *)
LEMMA SplitDot ==
    ASSUME NEW m \in Nat, NEW n \in Nat, NEW row, NEW pre, NEW b, NEW e,
           IntsOn(row, 1..(m + n)), IntsOn(pre, 1..(m + n)),
           \A c \in 1..n : b[c] = row[c + m] /\ e[c] = pre[c + m]
    PROVE  Dot(row, pre, 1..(m + n)) = Dot(row, pre, 1..m) + Dot(b, e, 1..n)
  <1> DEFINE S == 1..m
             U == 1..n
             B == {c + m : c \in U}
             f == [j \in 1..(m + n) |-> row[j] * pre[j]]
             f1 == [j \in S |-> row[j] * pre[j]]
             g == [c \in U |-> b[c] * e[c]]
  <1>1. IsFiniteSet(S) /\ IsFiniteSet(U) /\ IsFiniteSet(1..(m + n))
    BY FS_Interval
  <1>2. 1..(m + n) = S \cup B /\ S \cap B = {}
    <2>1. ASSUME NEW x \in 1..(m + n), x \notin S PROVE x \in B
      <3>1. x - m \in U /\ x = (x - m) + m
        BY <2>1
      <3> QED
        BY <3>1
    <2>2. ASSUME NEW x \in B PROVE x \in 1..(m + n) /\ x \notin S
      <3>1. PICK c \in U : x = c + m
        OBVIOUS
      <3> QED
        BY <3>1
    <2>3. S \subseteq 1..(m + n)
      OBVIOUS
    <2> HIDE DEF B, S
    <2> QED
      BY <2>1, <2>2, <2>3
  <1>3. IsFiniteSet(B)
    BY <1>1, <1>2, FS_Subset
  <1>4. ASSUME NEW j \in 1..(m + n) PROVE f[j] \in Int
    <2>1. PICK x \in Int, y \in Int : x = row[j] /\ y = pre[j]
      BY DEF IntsOn
    <2> QED
      BY <2>1
  <1>5. ASSUME NEW c \in U PROVE c \in Int /\ g[c] \in Int /\ f[c + m] = g[c]
    <2>1. PICK j \in 1..(m + n) : j = c + m
      OBVIOUS
    <2>2. f[j] = g[c]
      BY <2>1
    <2> QED
      BY <1>4, <2>1, <2>2
  <1>6. \A j \in S : f[j] \in Int /\ f[j] = f1[j]
    <2>1. \A j \in S : j \in 1..(m + n)
      OBVIOUS
    <2> QED
      BY <1>4, <2>1
  <1>7. /\ Dot(row, pre, 1..(m + n)) = SumFunctionOnSet(f, 1..(m + n))
        /\ Dot(row, pre, S) = SumFunctionOnSet(f1, S)
        /\ Dot(b, e, U) = SumFunctionOnSet(g, U)
    BY DEF Dot
  <1>8. \A j \in S \cup B : f[j] \in Int
    BY <1>2, <1>4
  <1> HIDE DEF f, f1, g
  <1>9. SumFunctionOnSet(f, B) = SumFunctionOnSet(g, U)
    <2> DEFINE d == m
    <2>1. d \in Int /\ IsFiniteSet(U)
      BY <1>1
    <2>2. \A x \in U : x \in Int /\ g[x] \in Int /\ f[x + d] = g[x]
      BY <1>5
    <2>3. B = Moved(U, d)
      BY DEF Moved
    <2> HIDE DEF U, B, d
    <2> QED
      BY <2>1, <2>2, <2>3, SumShift
  <1> HIDE DEF S, U, B
  <1>10. SumFunctionOnSet(f, S \cup B) = SumFunctionOnSet(f, S) + SumFunctionOnSet(f, B)
    BY <1>1, <1>2, <1>3, <1>8, SumUnion
  <1>11. SumFunctionOnSet(f, S) = SumFunctionOnSet(f1, S)
    BY <1>1, <1>6, SumAgree
  <1>12. SumFunctionOnSet(f, 1..(m + n)) = SumFunctionOnSet(f, S \cup B)
    BY <1>2, Zenon
  <1>13. Dot(row, pre, 1..(m + n)) = Dot(row, pre, S) + Dot(b, e, U)
    BY <1>7, <1>9, <1>10, <1>11, <1>12
  <1> QED
    BY <1>13 DEF S, U

(* A residue is its own residue.                                           *)
LEMMA SmallResidue ==
    ASSUME NEW a \in 0..(Q - 1)
    PROVE  a % Q = a
  <1>1. a \in Int
    BY ModulusFacts
  <1>2. (a % Q) \in 0..(Q - 1) /\ Congruent(a % Q, a)
    BY <1>1, Residue
  <1>3. PICK r \in 0..(Q - 1) : r = a % Q
    BY <1>2
  <1> QED
    BY <1>2, <1>3, CongReduced

(* A sum whose summands are zero but at one place.                         *)
LEMMA SumSingle ==
    ASSUME NEW S, IsFiniteSet(S), NEW y \in S, NEW f, f[y] \in Int,
           \A x \in S : x # y => f[x] = 0
    PROVE  SumFunctionOnSet(f, S) = f[y]
  <1>1. PICK T \in SUBSET S : T = S \ {y}
    OBVIOUS
  <1>2. \A x \in S : f[x] \in Int
    OBVIOUS
  <1>3. IsFiniteSet(T) /\ y \in S \ T /\ T \cup {y} = S
    BY <1>1, FS_Subset
  <1>4. SumFunctionOnSet(f, T) = 0
    BY <1>1, <1>3, SumZero
  <1>5. SumFunctionOnSet(f, T \cup {y}) = f[y] + SumFunctionOnSet(f, T)
    BY <1>2, <1>3, SumAdd
  <1>6. PICK z \in Int : z = f[y]
    OBVIOUS
  <1> QED
    BY <1>3, <1>4, <1>5, <1>6

(* f at s is g, along an injection s into S.                               *)
Along(f, g, s, S, U) ==
    /\ s \in [U -> S]
    /\ \A x, y \in U : s[x] = s[y] => x = y
    /\ \A x \in U : f[s[x]] = g[x]

(* A sum whose summands are zero but along an injection.                   *)
LEMMA SumAlong ==
    ASSUME NEW S, IsFiniteSet(S), NEW U, IsFiniteSet(U), NEW f, \A x \in S : f[x] \in Int,
           NEW g, NEW s, Along(f, g, s, S, U),
           \A y \in S : (\A x \in U : s[x] # y) => f[y] = 0
    PROVE  SumFunctionOnSet(f, S) = SumFunctionOnSet(g, U)
  <1> DEFINE F == {T \in SUBSET U : SumFunctionOnSet(f, {s[x] : x \in T}) = SumFunctionOnSet(g, T)}
  <1>1. \A x \in U : s[x] \in S /\ g[x] \in Int /\ f[s[x]] = g[x]
    BY DEF Along
  <1>2. {} \in F
    <2>1. {s[x] : x \in {}} = {}
      OBVIOUS
    <2> QED
      BY <2>1, SumEmpty
  <1>3. ASSUME NEW T \in SUBSET U, NEW z \in U \ T, T \in F PROVE T \cup {z} \in F
    <2> DEFINE V == {s[x] : x \in T}
    <2>1. SumFunctionOnSet(f, V) = SumFunctionOnSet(g, T)
      BY <1>3
    <2>2. PICK y \in S : y = s[z] /\ f[y] = g[z]
      BY <1>1
    <2>3. y \notin V
      BY <2>2 DEF Along
    <2>4. {s[x] : x \in T \cup {z}} = V \cup {y}
      BY <2>2
    <2>5. V \in SUBSET S
      BY <1>1
    <2> HIDE DEF V
    <2>6. SumFunctionOnSet(f, V \cup {y}) = f[y] + SumFunctionOnSet(f, V)
      <3>1. y \in S \ V
        BY <2>3
      <3> QED
        BY <2>5, <3>1, SumAdd
    <2>7. SumFunctionOnSet(g, T \cup {z}) = g[z] + SumFunctionOnSet(g, T)
      <3>1. \A x \in U : g[x] \in Int
        BY <1>1
      <3> QED
        BY <3>1, SumAdd
    <2>8. T \cup {z} \in SUBSET U
      OBVIOUS
    <2> QED
      BY <2>1, <2>2, <2>4, <2>6, <2>7, <2>8
  <1> HIDE DEF F
  <1>4. U \in F
    BY <1>2, <1>3, FiniteSubsets
  <1>5. PICK V : V = {s[x] : x \in U}
    OBVIOUS
  <1>6. PICK Z : Z = S \ V
    OBVIOUS
  <1>7. V \in SUBSET S /\ Z \in SUBSET S /\ V \cup Z = S /\ V \cap Z = {}
    BY <1>1, <1>5, <1>6
  <1>8. IsFiniteSet(V) /\ IsFiniteSet(Z)
    BY <1>7, FS_Subset
  <1>9. \A y \in Z : f[y] = 0
    BY <1>5, <1>6
  <1>10. SumFunctionOnSet(f, Z) = 0
    BY <1>8, <1>9, SumZero
  <1>11. \A y \in V \cup Z : f[y] \in Int
    BY <1>7
  <1>12. SumFunctionOnSet(f, V \cup Z) = SumFunctionOnSet(f, V) + SumFunctionOnSet(f, Z)
    BY <1>7, <1>8, <1>11, SumUnion
  <1>13. SumFunctionOnSet(f, V) = SumFunctionOnSet(g, U)
    BY <1>4, <1>5 DEF F
  <1>14. SumFunctionOnSet(g, U) \in Int
    BY <1>1, SumStep
  <1>15. SumFunctionOnSet(f, S) = SumFunctionOnSet(f, V) + SumFunctionOnSet(f, Z)
    BY <1>7, <1>12, Zenon
  <1> QED
    BY <1>10, <1>13, <1>14, <1>15

=============================================================================
