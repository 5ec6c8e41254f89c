------------------------- MODULE PolicyCachesProofs -------------------------
(***************************************************************************)
(* Proofs about PolicyCaches, for every number of threads, every capacity, *)
(* every set of policies and every set of calls.                           *)
(*                                                                         *)
(* The inductive invariant has a shared part (each cache is well formed    *)
(* and maps the key of a call to a value the uncached computation gives    *)
(* for a list of attributes that reads like that of the call) and a part   *)
(* for each thread (what it holds at each point of its call, and which     *)
(* guards it holds while it reads statistics).                             *)
(***************************************************************************)
EXTENDS PolicyCaches, FiniteSetTheorems, SequenceTheorems, TLAPS

-----------------------------------------------------------------------------
(* What the methods of BoundedCache preserve and return.                   *)

(* A cache as the methods make it.                                         *)
CacheOK(cache) ==
    /\ DOMAIN cache = {"map", "order", "hits", "misses"}
    /\ cache.order \in Seq(DOMAIN cache.map)
    /\ IsFiniteSet(DOMAIN cache.map)
    /\ WellFormed(cache)

LEMMA EmptyCacheOK == CacheOK(EmptyCache)
  <1> DEFINE e == EmptyCache
  <1>1. /\ DOMAIN e = {"map", "order", "hits", "misses"}
        /\ e.map = <<>> /\ e.order = <<>>
        /\ DOMAIN e.map = {}
        /\ Range(e.order) = {}
    BY DEF EmptyCache, Range
  <1>2. e.order \in Seq(DOMAIN e.map)
    BY <1>1
  <1>3. IsFiniteSet(DOMAIN e.map) /\ Cardinality(DOMAIN e.map) = 0
    BY <1>1, FS_EmptySet
  <1>4. WellFormed(e)
    <2>1. Fits(e)
      BY <1>3, CapacityAssumption DEF Fits
    <2>2. \A i, j \in DOMAIN e.order : e.order[i] = e.order[j] => i = j
      BY <1>1
    <2> QED
      BY <2>1, <2>2, <1>1 DEF WellFormed
  <1> QED
    BY <1>1, <1>2, <1>3, <1>4 DEF CacheOK

LEMMA CountedOK ==
    ASSUME NEW cache, NEW key, CacheOK(cache)
    PROVE  /\ CacheOK(Counted(cache, key))
           /\ Counted(cache, key).map = cache.map
  <1>1. /\ DOMAIN Counted(cache, key) = DOMAIN cache
        /\ Counted(cache, key).map = cache.map
        /\ Counted(cache, key).order = cache.order
    BY DEF CacheOK, Counted
  <1> QED
    BY <1>1 DEF CacheOK, WellFormed, Fits

-----------------------------------------------------------------------------
(* The queue.                                                              *)

Injective(order) == \A i, j \in DOMAIN order : order[i] = order[j] => i = j

(* Retain takes one key out of the queue and keeps the others.             *)
LEMMA RetainDropsKey ==
    ASSUME NEW S, NEW order \in Seq(S), Injective(order), NEW key \in Range(order)
    PROVE  /\ Retain(order, key) \in Seq(S)
           /\ Injective(Retain(order, key))
           /\ Range(Retain(order, key)) = Range(order) \ {key}
  <1> DEFINE at == CHOOSE i \in DOMAIN order : order[i] = key
             r == Retain(order, key)
  <1>1. at \in DOMAIN order /\ order[at] = key
    BY DEF Range
  <1>2. at \in 1..Len(order) /\ Len(order) \in Nat
    BY <1>1
  <1>3. r = [i \in 1..(Len(order) - 1) |-> IF i < at THEN order[i] ELSE order[i + 1]]
    BY DEF Retain
  <1> HIDE DEF at, r
  <1>4. Len(order) - 1 \in Nat
    BY <1>2
  <1>5. \A i \in 1..(Len(order) - 1) : r[i] \in S
    BY <1>2, <1>3
  <1>6. r \in Seq(S)
    BY <1>3, <1>4, <1>5, IsASeq
  <1>7. Injective(r)
    <2> SUFFICES ASSUME NEW i \in 1..(Len(order) - 1), NEW j \in 1..(Len(order) - 1),
                        r[i] = r[j]
                 PROVE  i = j
      BY <1>3 DEF Injective
    <2> DEFINE up(k) == IF k < at THEN k ELSE k + 1
    <2>1. r[i] = order[up(i)] /\ r[j] = order[up(j)]
      BY <1>3
    <2>2. up(i) \in DOMAIN order /\ up(j) \in DOMAIN order
      BY <1>2
    <2>3. up(i) = up(j)
      BY <2>1, <2>2 DEF Injective
    <2> QED
      BY <2>3, <1>2
  <1>8. ASSUME NEW k \in Range(r) PROVE k \in Range(order) \ {key}
    <2>1. PICK i \in 1..(Len(order) - 1) : k = r[i]
      BY <1>3, <1>8 DEF Range
    <2>2. CASE i < at
      BY <2>1, <2>2, <1>1, <1>2, <1>3 DEF Range, Injective
    <2>3. CASE ~(i < at)
      <3>1. k = order[i + 1] /\ i + 1 \in DOMAIN order /\ i + 1 # at
        BY <2>1, <2>3, <1>2, <1>3
      <3> QED
        BY <3>1, <1>1 DEF Range, Injective
    <2> QED
      BY <2>2, <2>3
  <1>9. ASSUME NEW k \in Range(order) \ {key} PROVE k \in Range(r)
    <2>1. PICK i \in DOMAIN order : k = order[i]
      BY DEF Range
    <2>2. i \in 1..Len(order) /\ i # at
      BY <2>1, <1>1
    <2>3. CASE i < at
      <3>1. i \in 1..(Len(order) - 1) /\ r[i] = k
        BY <2>1, <2>2, <2>3, <1>2, <1>3
      <3> QED
        BY <3>1, <1>3 DEF Range
    <2>4. CASE i > at
      <3>1. i - 1 \in 1..(Len(order) - 1) /\ r[i - 1] = k
        BY <2>1, <2>2, <2>4, <1>2, <1>3
      <3> QED
        BY <3>1, <1>3 DEF Range
    <2> QED
      BY <2>2, <2>3, <2>4, <1>2
  <1> QED
    BY <1>6, <1>7, <1>8, <1>9 DEF r

(* Appending a key that is not queued.                                     *)
LEMMA AppendNewKey ==
    ASSUME NEW S, NEW order \in Seq(S), Injective(order), NEW key, key \notin Range(order)
    PROVE  /\ Append(order, key) \in Seq(S \cup {key})
           /\ Injective(Append(order, key))
           /\ Range(Append(order, key)) = Range(order) \cup {key}
  <1> DEFINE a == Append(order, key)
  <1>1. order \in Seq(S \cup {key})
    BY SeqMonotonic
  <1>2. /\ a \in Seq(S \cup {key})
        /\ Len(a) = Len(order) + 1
        /\ \A i \in 1..Len(order) : a[i] = order[i]
        /\ a[Len(order) + 1] = key
    BY <1>1
  <1>3. Len(order) \in Nat /\ DOMAIN a = 1..(Len(order) + 1) /\ DOMAIN order = 1..Len(order)
    BY <1>2
  <1> HIDE DEF a
  <1>4. Injective(a)
    BY <1>2, <1>3 DEF Injective, Range
  <1>5. Range(a) \subseteq Range(order) \cup {key}
    BY <1>2, <1>3 DEF Range
  <1>6. Range(order) \cup {key} \subseteq Range(a)
    BY <1>2, <1>3 DEF Range
  <1> QED
    BY <1>2, <1>4, <1>5, <1>6 DEF a

-----------------------------------------------------------------------------
(* Insertion.                                                              *)

(* Before eviction the cache may be one entry too large.                   *)
LEMMA QueuedKey ==
    ASSUME NEW cache, CacheOK(cache), NEW key, NEW value
    PROVE  LET d == Queued(cache, key, value)
           IN  /\ DOMAIN d = {"map", "order", "hits", "misses"}
               /\ DOMAIN d.map = DOMAIN cache.map \cup {key}
               /\ d.map[key] = value
               /\ \A k \in DOMAIN cache.map \ {key} : d.map[k] = cache.map[k]
               /\ d.order \in Seq(DOMAIN d.map)
               /\ Injective(d.order)
               /\ Range(d.order) = DOMAIN d.map
               /\ d.order # <<>> /\ d.order[Len(d.order)] = key
               /\ IsFiniteSet(DOMAIN d.map)
               /\ Cardinality(DOMAIN d.map) \in 0..(Capacity + 1)
  <1> DEFINE d == Queued(cache, key, value)
             kept == IF Has(cache, key) THEN Retain(cache.order, key) ELSE cache.order
             keys == DOMAIN cache.map
  <1>1. /\ DOMAIN d = {"map", "order", "hits", "misses"}
        /\ d.map = [k \in keys \cup {key} |-> IF k = key THEN value ELSE cache.map[k]]
        /\ d.order = Append(kept, key)
    BY DEF CacheOK, Queued
  <1>2. cache.order \in Seq(keys) /\ Injective(cache.order) /\ Range(cache.order) = keys
    BY DEF CacheOK, WellFormed, Injective
  <1>3. kept \in Seq(keys) /\ Injective(kept) /\ Range(kept) = keys \ {key}
    <2>1. CASE Has(cache, key)
      BY <2>1, <1>2, RetainDropsKey DEF Has
    <2>2. CASE ~Has(cache, key)
      BY <2>2, <1>2 DEF Has
    <2> QED
      BY <2>1, <2>2
  <1>4. kept \in Seq(keys)
    BY <1>3
  <1> HIDE DEF kept, d
  <1>5. /\ d.order \in Seq(keys \cup {key})
        /\ Injective(d.order)
        /\ Range(d.order) = keys \cup {key}
    <2>1. key \notin Range(kept)
      BY <1>3
    <2>2. /\ Append(kept, key) \in Seq(keys \cup {key})
          /\ Injective(Append(kept, key))
          /\ Range(Append(kept, key)) = Range(kept) \cup {key}
      BY <2>1, <1>3, AppendNewKey
    <2> QED
      BY <2>2, <1>1, <1>3
  <1>6. d.order # <<>> /\ d.order[Len(d.order)] = key
    BY <1>1, <1>4
  <1>7. /\ IsFiniteSet(keys \cup {key})
        /\ Cardinality(keys \cup {key}) \in 0..(Capacity + 1)
    <2>1. IsFiniteSet(keys) /\ Cardinality(keys) \in Nat /\ Cardinality(keys) <= Capacity
      BY FS_CardinalityType DEF CacheOK, WellFormed, Fits
    <2>2. /\ IsFiniteSet(keys \cup {key})
          /\ \/ Cardinality(keys \cup {key}) = Cardinality(keys)
             \/ Cardinality(keys \cup {key}) = Cardinality(keys) + 1
      BY <2>1, FS_AddElement
    <2> QED
      BY <2>1, <2>2, CapacityAssumption
  <1>8. DOMAIN d.map = keys \cup {key}
    BY <1>1
  <1>9. d.map[key] = value /\ \A k \in keys \ {key} : d.map[k] = cache.map[k]
    BY <1>1
  <1> QED
    BY <1>1, <1>5, <1>6, <1>7, <1>8, <1>9 DEF d

(* A queue without its head.                                               *)
LEMMA HeadDropped ==
    ASSUME NEW S, NEW order \in Seq(S), Injective(order), Len(order) >= 1
    PROVE  LET rest == SubSeq(order, 2, Len(order))
           IN  /\ rest \in Seq(Range(order) \ {order[1]})
               /\ Injective(rest)
               /\ Range(rest) = Range(order) \ {order[1]}
  <1> DEFINE rest == SubSeq(order, 2, Len(order))
             n == Len(order) - 1
  <1>1. Len(order) \in Nat /\ n \in Nat /\ DOMAIN order = 1..Len(order)
    OBVIOUS
  <1>2. /\ rest \in Seq(S)
        /\ Len(rest) = n
        /\ \A i \in 1..n : rest[i] = order[i + 1]
    <2>1. \A i \in 2..Len(order) : order[i] \in S
      BY <1>1
    <2> QED
      BY <1>1, <2>1, SubSeqProperties
  <1>3. DOMAIN rest = 1..n
    BY <1>2
  <1> HIDE DEF rest
  <1>4. Injective(rest)
    <2> SUFFICES ASSUME NEW i \in 1..n, NEW j \in 1..n, rest[i] = rest[j]
                 PROVE  i = j
      BY <1>3 DEF Injective
    <2>1. order[i + 1] = order[j + 1] /\ i + 1 \in DOMAIN order /\ j + 1 \in DOMAIN order
      BY <1>1, <1>2
    <2>2. i + 1 = j + 1
      BY <2>1 DEF Injective
    <2> QED
      BY <2>2
  <1>5. ASSUME NEW k \in Range(rest) PROVE k \in Range(order) \ {order[1]}
    <2>1. PICK i \in 1..n : k = rest[i]
      BY <1>3 DEF Range
    <2>2. k = order[i + 1] /\ i + 1 \in DOMAIN order /\ i + 1 # 1 /\ 1 \in DOMAIN order
      BY <2>1, <1>1, <1>2
    <2> QED
      BY <2>2 DEF Range, Injective
  <1>6. ASSUME NEW k \in Range(order) \ {order[1]} PROVE k \in Range(rest)
    <2>1. PICK i \in DOMAIN order : k = order[i]
      BY DEF Range
    <2>2. i - 1 \in 1..n /\ rest[i - 1] = k
      BY <2>1, <1>1, <1>2
    <2> QED
      BY <2>2, <1>3 DEF Range
  <1>7. Range(rest) = Range(order) \ {order[1]}
    BY <1>5, <1>6
  <1>8. rest \in Seq(Range(order) \ {order[1]})
    <2>1. \A i \in 1..n : rest[i] \in Range(order) \ {order[1]}
      BY <1>3, <1>7 DEF Range
    <2>2. rest = [i \in 1..n |-> rest[i]]
      BY <1>2, <1>3
    <2> QED
      BY <2>1, <2>2, <1>1, IsASeq
  <1> QED
    BY <1>4, <1>7, <1>8 DEF rest

(* A queue that lists at least two keys has two ends.                      *)
LEMMA TwoEnds ==
    ASSUME NEW S, NEW order \in Seq(S), Injective(order), Cardinality(Range(order)) >= 2
    PROVE  Len(order) >= 2 /\ order[1] \in Range(order) /\ order[1] # order[Len(order)]
  <1>1. Len(order) \in Nat /\ DOMAIN order = 1..Len(order)
    OBVIOUS
  <1>2. CASE Len(order) = 0
    <2>1. Range(order) = {}
      BY <1>1, <1>2 DEF Range
    <2> QED
      BY <2>1, FS_EmptySet
  <1>3. CASE Len(order) = 1
    <2>1. Range(order) = {order[1]}
      BY <1>1, <1>3 DEF Range
    <2>2. Cardinality({order[1]}) = 1
      BY FS_Singleton
    <2> QED
      BY <2>1, <2>2
  <1>4. CASE Len(order) >= 2
    BY <1>1, <1>4 DEF Range, Injective
  <1> QED
    BY <1>1, <1>2, <1>3, <1>4

(* Evicting the oldest key of a cache that is one entry too large.         *)
LEMMA PoppedOnce ==
    ASSUME NEW d, DOMAIN d = {"map", "order", "hits", "misses"},
           d.order \in Seq(DOMAIN d.map), Injective(d.order),
           Range(d.order) = DOMAIN d.map, IsFiniteSet(DOMAIN d.map),
           Cardinality(DOMAIN d.map) \in 2..(Capacity + 1)
    PROVE  /\ CacheOK(Popped(d, 1))
           /\ Popped(d, 1).map = [k \in DOMAIN d.map \ {d.order[1]} |-> d.map[k]]
  <1>0. PICK order, keys : order = d.order /\ keys = DOMAIN d.map
    OBVIOUS
  <1> DEFINE p == Popped(d, 1)
             rest == SubSeq(order, 2, Len(order))
  <1>1. Len(order) \in Nat /\ Len(order) >= 2 /\ order[1] \in keys
    <2>1. Cardinality(Range(order)) >= 2
      BY <1>0, CapacityAssumption
    <2>2. order \in Seq(keys) /\ Injective(order) /\ Range(order) = keys
      BY <1>0
    <2> QED
      BY <2>1, <2>2, TwoEnds
  <1>2. /\ DOMAIN p = {"map", "order", "hits", "misses"}
        /\ p.map = Restrict(d.map, keys \ {order[i] : i \in 1..1})
        /\ p.order = rest
    BY <1>0 DEF Popped
  <1>3. {order[i] : i \in 1..1} = {order[1]}
    OBVIOUS
  <1>4. p.map = [k \in keys \ {order[1]} |-> d.map[k]] /\ DOMAIN p.map = keys \ {order[1]}
    BY <1>2, <1>3 DEF Restrict
  <1> HIDE DEF p
  <1>5. /\ rest \in Seq(keys \ {order[1]})
        /\ Injective(rest)
        /\ Range(rest) = keys \ {order[1]}
    <2>1. order \in Seq(keys) /\ Injective(order) /\ Range(order) = keys /\ Len(order) >= 1
      BY <1>0, <1>1
    <2> QED
      BY <2>1, HeadDropped
  <1>6. IsFiniteSet(keys \ {order[1]}) /\ Cardinality(keys \ {order[1]}) = Cardinality(keys) - 1
    BY <1>0, <1>1, FS_RemoveElement
  <1>7. Cardinality(keys) - 1 <= Capacity
    BY <1>0, CapacityAssumption
  <1>8. Fits(p)
    BY <1>4, <1>6, <1>7 DEF Fits
  <1>9. CacheOK(p)
    BY <1>2, <1>4, <1>5, <1>6, <1>8 DEF CacheOK, WellFormed, Injective
  <1> QED
    BY <1>0, <1>4, <1>9 DEF p

(* Nothing is popped when the cache fits.                                  *)
LEMMA PoppedNone ==
    ASSUME NEW d, DOMAIN d = {"map", "order", "hits", "misses"},
           d.order \in Seq(DOMAIN d.map), Injective(d.order),
           Range(d.order) = DOMAIN d.map, IsFiniteSet(DOMAIN d.map)
    PROVE  /\ Popped(d, 0).map = [k \in DOMAIN d.map |-> d.map[k]]
           /\ Fits(Popped(d, 0)) <=> Fits(d)
           /\ Fits(d) => CacheOK(Popped(d, 0))
  <1> DEFINE p == Popped(d, 0)
  <1>1. /\ DOMAIN p = {"map", "order", "hits", "misses"}
        /\ p.map = Restrict(d.map, DOMAIN d.map \ {d.order[i] : i \in 1..0})
        /\ p.order = SubSeq(d.order, 1, Len(d.order))
    BY DEF Popped
  <1>2. {d.order[i] : i \in 1..0} = {}
    OBVIOUS
  <1>3. p.map = [k \in DOMAIN d.map |-> d.map[k]] /\ DOMAIN p.map = DOMAIN d.map
    BY <1>1, <1>2 DEF Restrict
  <1>4. p.order = d.order
    BY <1>1, SubSeqFull
  <1> HIDE DEF p
  <1>5. Fits(p) <=> Fits(d)
    BY <1>3 DEF Fits
  <1>6. Fits(d) => CacheOK(p)
    BY <1>1, <1>3, <1>4, <1>5 DEF CacheOK, WellFormed, Injective
  <1> QED
    BY <1>3, <1>5, <1>6 DEF p

(* insert keeps a cache well formed, never evicts what it inserts, and     *)
(* leaves the value of every other key it retains unchanged.               *)
LEMMA InsertCorrect ==
    ASSUME NEW cache, CacheOK(cache), NEW key, NEW value
    PROVE  LET e == Insert(cache, key, value)
           IN  /\ CacheOK(e)
               /\ key \in DOMAIN e.map /\ e.map[key] = value
               /\ \A k \in DOMAIN e.map \ {key} :
                     k \in DOMAIN cache.map /\ e.map[k] = cache.map[k]
  <1> DEFINE d == Queued(cache, key, value)
             e == Insert(cache, key, value)
             Least(n) == /\ Fits(Popped(d, n))
                         /\ \A m \in 0..(n - 1) : ~Fits(Popped(d, m))
  <1>1. /\ DOMAIN d = {"map", "order", "hits", "misses"}
        /\ DOMAIN d.map = DOMAIN cache.map \cup {key}
        /\ d.map[key] = value
        /\ \A k \in DOMAIN cache.map \ {key} : d.map[k] = cache.map[k]
        /\ d.order \in Seq(DOMAIN d.map)
        /\ Injective(d.order)
        /\ Range(d.order) = DOMAIN d.map
        /\ d.order # <<>> /\ d.order[Len(d.order)] = key
        /\ IsFiniteSet(DOMAIN d.map)
        /\ Cardinality(DOMAIN d.map) \in 0..(Capacity + 1)
    BY QueuedKey
  <1>2. e = Popped(d, CHOOSE n \in 0..Len(d.order) : Least(n))
    BY DEF Insert, Evicted
  <1>3. Len(d.order) \in Nat
    BY <1>1
  <1> HIDE DEF d, e
  <1>4. ASSUME NEW m \in {0, 1}, m <= Len(d.order), Least(m)
        PROVE  e = Popped(d, m)
    <2>1. \A n \in 0..Len(d.order) : Least(n) => n = m
      <3> SUFFICES ASSUME NEW n \in 0..Len(d.order), Least(n), n # m PROVE FALSE
        OBVIOUS
      <3>1. CASE n < m
        <4>1. n \in 0..(m - 1)
          BY <3>1
        <4> QED
          BY <4>1, <1>4
      <3>2. CASE m < n
        <4>1. m \in 0..(n - 1)
          BY <3>2
        <4> QED
          BY <4>1, <1>4
      <3> QED
        BY <3>1, <3>2
    <2>2. m \in 0..Len(d.order)
      BY <1>3, <1>4
    <2>3. (CHOOSE n \in 0..Len(d.order) : Least(n)) = m
      <3> HIDE DEF Least
      <3> QED
        BY <2>1, <2>2, <1>4
    <2> QED
      BY <2>3, <1>2
  <1>5. CASE Fits(d)
    <2>1. Least(0)
      <3>1. 0..(0 - 1) = {}
        OBVIOUS
      <3>2. Fits(Popped(d, 0))
        BY <1>5, <1>1, PoppedNone
      <3> QED
        BY <3>1, <3>2
    <2>2. e = Popped(d, 0)
      BY <2>1, <1>3, <1>4
    <2>3. CacheOK(e) /\ e.map = [k \in DOMAIN d.map |-> d.map[k]]
      BY <2>2, <1>5, <1>1, PoppedNone
    <2> QED
      BY <2>3, <1>1 DEF e
  <1>6. CASE ~Fits(d)
    <2>1. Cardinality(DOMAIN d.map) \in 2..(Capacity + 1)
      BY <1>6, <1>1, CapacityAssumption DEF Fits
    <2>2. Len(d.order) >= 2 /\ d.order[1] # key
      <3>1. Cardinality(Range(d.order)) >= 2
        BY <2>1, <1>1, CapacityAssumption
      <3> QED
        BY <3>1, <1>1, TwoEnds
    <2>3. /\ CacheOK(Popped(d, 1))
          /\ Popped(d, 1).map = [k \in DOMAIN d.map \ {d.order[1]} |-> d.map[k]]
      BY <2>1, <1>1, PoppedOnce
    <2>4. Least(1)
      <3>1. \A m \in 0..(1 - 1) : m = 0
        OBVIOUS
      <3>2. Fits(Popped(d, 1)) /\ ~Fits(Popped(d, 0))
        BY <2>3, <1>6, <1>1, PoppedNone DEF CacheOK, WellFormed
      <3> QED
        BY <3>1, <3>2
    <2>5. e = Popped(d, 1)
      BY <2>2, <2>4, <1>3, <1>4
    <2> QED
      BY <2>2, <2>3, <2>5, <1>1 DEF e
  <1> QED
    BY <1>5, <1>6

-----------------------------------------------------------------------------
(* The inductive invariant.                                                *)

(* The value is one the uncached call gives for attributes that read alike.*)
Like(n, c, value) == \E d \in Alike[c] : value = Direct(n, WithAttrs(c, d))

ValuesRight(n, cache) ==
    \A c \in Calls :
        Has(cache, Key(n, c)) =>
            /\ cache.map[Key(n, c)] # Refusal
            /\ Like(n, c, cache.map[Key(n, c)])

CacheRight(n, cache) ==
    /\ CacheOK(cache)
    /\ DOMAIN cache.map \subseteq {Key(n, c) : c \in Calls}
    /\ cache.hits \in Nat /\ cache.misses \in Nat
    /\ ValuesRight(n, cache)

HoldsMatrix(t) ==
    /\ ToLsss(call[t]) # Refusal
    /\ got[t]["lsss"] = ToLsss(call[t])

HoldsClones(t) ==
    /\ pc[t] # Idle => call[t] \in Calls
    /\ pc[t] \in {<<"lsss", "get">>, <<"lsss", "put">>} => call[t].op \in Names
    /\ pc[t] \in {<<"recon", "get">>, <<"recon", "put">>} =>
          call[t].op \in {"recon", "target"} /\ HoldsMatrix(t)
    /\ pc[t] = <<"target", "get">> => call[t].op = "target"
    /\ pc[t] = <<"target", "put">> =>
          /\ call[t].op = "target"
          /\ HoldsMatrix(t)
          /\ Like("recon", call[t], got[t]["recon"])
          /\ got[t]["recon"] # Refusal

Snapshot(t, names) ==
    \A n \in names : holder[n] = t /\ got[t][n] = Stats(caches[n])

HoldsGuards(t) ==
    /\ pc[t] = <<"recon", "stats">> => Snapshot(t, {"lsss"})
    /\ pc[t] = <<"target", "stats">> => Snapshot(t, {"lsss", "recon"})
    /\ pc[t] = <<"target", "unlock">> => Snapshot(t, Names)
    /\ pc[t] = <<"recon", "unlock">> => holder["lsss"] = t /\ holder["recon"] = t
    /\ pc[t] = <<"lsss", "unlock">> => holder["lsss"] = t
    /\ \A n \in Names : pc[t] = <<n, "stats">> => call[t].op = "stats"
    /\ \A n \in Names : pc[t] = <<n, "unlock">> => call[t].op = "stats"
    /\ \A n \in Names : pc[t] = <<n, "clear">> => call[t].op = "clear"

Answered(t) ==
    pc[t] = Idle /\ call[t] # None /\ call[t].op \in Names =>
        call[t] \in Calls /\ Like(call[t].op, call[t], got[t][call[t].op])

ThreadOK(t) == HoldsClones(t) /\ HoldsGuards(t) /\ Answered(t)

IInv ==
    /\ TypeOK
    /\ \A n \in Names : CacheRight(n, caches[n])
    /\ \A t \in Threads : ThreadOK(t)

-----------------------------------------------------------------------------
(* What the values depend on, and what the keys say of it.                 *)

LEMMA WithAttrsFields ==
    ASSUME NEW c \in Calls, NEW d
    PROVE  /\ WithAttrs(c, d).policy = c.policy /\ WithAttrs(c, d).q = c.q
           /\ WithAttrs(c, d).ring = c.ring /\ WithAttrs(c, d).gid = c.gid
           /\ WithAttrs(c, d).attrs = d.attrs
  BY CallsAssumption DEF WithAttrs

LEMMA SelfAlike ==
    ASSUME NEW c \in Calls
    PROVE  c \in Alike[c]
  BY DEF Alike

LEMMA SameMatrix ==
    ASSUME NEW c, NEW d, c.policy = d.policy
    PROVE  ToLsss(c) = ToLsss(d)
  BY DEF ToLsss

LEMMA SameRecon ==
    ASSUME NEW c, NEW d, c.policy = d.policy, c.q = d.q, Range(c.attrs) = Range(d.attrs)
    PROVE  DirectRecon(c) = DirectRecon(d)
  <1>1. ToLsss(c) = ToLsss(d)
    BY SameMatrix
  <1>2. \A lsss : Reconstruction(lsss, c) = Reconstruction(lsss, d)
    BY DEF Reconstruction
  <1> QED
    BY <1>1, <1>2 DEF DirectRecon

LEMMA SameTarget ==
    ASSUME NEW c, NEW d, c.policy = d.policy, c.q = d.q, Range(c.attrs) = Range(d.attrs),
           c.ring = d.ring, c.gid = d.gid
    PROVE  DirectTarget(c) = DirectTarget(d)
  <1>1. ToLsss(c) = ToLsss(d) /\ DirectRecon(c) = DirectRecon(d)
    BY SameMatrix, SameRecon
  <1>2. \A lsss, recon : Target(lsss, recon, c) = Target(lsss, recon, d)
    BY DEF Target
  <1> QED
    BY <1>1, <1>2 DEF DirectTarget

LEMMA DirectValues ==
    ASSUME NEW c
    PROVE  /\ Direct("lsss", c) = ToLsss(c)
           /\ Direct("recon", c) = DirectRecon(c)
           /\ Direct("target", c) = DirectTarget(c)
  BY DEF Direct

(* The value of a call that reads like itself is its own value.            *)
LEMMA OwnValueIsLike ==
    ASSUME NEW n \in Names, NEW c \in Calls
    PROVE  Like(n, c, Direct(n, c))
  <1>1. Direct(n, WithAttrs(c, c)) = Direct(n, c)
    <2>1. ToLsss(WithAttrs(c, c)) = ToLsss(c)
      BY SameMatrix, WithAttrsFields
    <2>2. DirectRecon(WithAttrs(c, c)) = DirectRecon(c)
      BY SameRecon, WithAttrsFields
    <2>3. DirectTarget(WithAttrs(c, c)) = DirectTarget(c)
      BY SameTarget, WithAttrsFields
    <2> QED
      BY <2>1, <2>2, <2>3, DirectValues DEF Names
  <1> QED
    BY <1>1, SelfAlike DEF Like

(* Every value of a call is its own when no other list reads like its.     *)
LEMMA LikeIsOwn ==
    ASSUME NEW n \in Names, NEW c \in Calls, NEW value, Like(n, c, value), Unambiguous(c)
    PROVE  value = Direct(n, c)
  <1>1. PICK d \in Alike[c] : value = Direct(n, WithAttrs(c, d))
    BY DEF Like
  <1>2. Range(d.attrs) = Range(c.attrs)
    BY DEF Unambiguous
  <1>3. Range(WithAttrs(c, d).attrs) = Range(c.attrs)
    BY <1>2, WithAttrsFields
  <1>4. ToLsss(WithAttrs(c, d)) = ToLsss(c)
    BY SameMatrix, WithAttrsFields
  <1>5. DirectRecon(WithAttrs(c, d)) = DirectRecon(c)
    BY <1>3, SameRecon, WithAttrsFields
  <1>6. DirectTarget(WithAttrs(c, d)) = DirectTarget(c)
    BY <1>3, SameTarget, WithAttrsFields
  <1> QED
    BY <1>1, <1>4, <1>5, <1>6, DirectValues DEF Names

(* The matrix does not depend on the attributes at all.                    *)
LEMMA LikeMatrix ==
    ASSUME NEW c \in Calls, NEW value, Like("lsss", c, value)
    PROVE  value = ToLsss(c)
  <1>1. PICK d \in Alike[c] : value = Direct("lsss", WithAttrs(c, d))
    BY DEF Like
  <1> QED
    BY <1>1, SameMatrix, WithAttrsFields, DirectValues

(* What two calls with one key have in common.                             *)
LEMMA KeysTell ==
    ASSUME NEW n \in Names, NEW c \in Calls, NEW d \in Calls, Key(n, c) = Key(n, d)
    PROVE  /\ c.policy = d.policy
           /\ n # "lsss" => c.q = d.q /\ AttributeKey(c.attrs) = AttributeKey(d.attrs)
           /\ n = "target" => c.ring = d.ring /\ c.gid = d.gid
  <1>1. Parts(n, c) = Parts(n, d)
    BY BarsAssumption
  <1>2. CASE n = "lsss"
    <2>1. << <<c.policy>> >> = << <<d.policy>> >>
      BY <1>1, <1>2 DEF Parts
    <2> QED
      BY <1>2, <2>1
  <1>3. CASE n = "recon"
    <2>1. << <<c.policy>>, <<c.q>>, AttributeKey(c.attrs) >>
             = << <<d.policy>>, <<d.q>>, AttributeKey(d.attrs) >>
      BY <1>1, <1>3 DEF Parts
    <2> QED
      BY <1>3, <2>1
  <1>4. CASE n = "target"
    <2>1. << <<c.policy>>, <<c.q>>, <<c.ring>>, AttributeKey(c.attrs), <<c.gid>> >>
             = << <<d.policy>>, <<d.q>>, <<d.ring>>, AttributeKey(d.attrs), <<d.gid>> >>
      BY <1>1, <1>4 DEF Parts
    <2> QED
      BY <1>4, <2>1
  <1> QED
    BY <1>2, <1>3, <1>4 DEF Names

(* A value under a key is as right for one call with the key as for        *)
(* another.                                                                *)
LEMMA SameKeySameValue ==
    ASSUME NEW n \in Names, NEW c \in Calls, NEW d \in Calls, Key(n, c) = Key(n, d),
           NEW value, Like(n, d, value)
    PROVE  Like(n, c, value)
  <1>1. PICK e \in Alike[d] : value = Direct(n, WithAttrs(d, e))
    BY DEF Like
  <1>2. c.policy = d.policy
    BY KeysTell
  <1>3. CASE n = "lsss"
    <2>1. value = ToLsss(c)
      BY <1>2, <1>3, LikeMatrix, SameMatrix
    <2> QED
      BY <1>3, <2>1, OwnValueIsLike, DirectValues
  <1>4. CASE n # "lsss"
    <2>1. c.q = d.q /\ AttributeKey(c.attrs) = AttributeKey(d.attrs)
      BY <1>4, KeysTell
    <2>2. e \in Alike[c]
      BY <2>1 DEF Alike
    <2>3. CASE n = "recon"
      <3>1. DirectRecon(WithAttrs(c, e)) = DirectRecon(WithAttrs(d, e))
        BY <1>2, <2>1, SameRecon, WithAttrsFields
      <3> QED
        BY <1>1, <2>2, <2>3, <3>1, DirectValues DEF Like
    <2>4. CASE n = "target"
      <3>1. c.ring = d.ring /\ c.gid = d.gid
        BY <2>4, KeysTell
      <3>2. DirectTarget(WithAttrs(c, e)) = DirectTarget(WithAttrs(d, e))
        BY <1>2, <2>1, <3>1, SameTarget, WithAttrsFields
      <3> QED
        BY <1>1, <2>2, <2>4, <3>2, DirectValues DEF Like
    <2> QED
      BY <1>4, <2>3, <2>4 DEF Names
  <1> QED
    BY <1>3, <1>4

(* A refusal on the way to a value is a refusal of the value.              *)
LEMMA RefusalGoesUp ==
    ASSUME NEW c \in Calls, NEW n \in Names, Like(n, c, Refusal), NEW op \in Names,
           n = "recon" => op # "lsss", n = "target" => op = "target"
    PROVE  Like(op, c, Refusal)
  <1>1. PICK d \in Alike[c] : Refusal = Direct(n, WithAttrs(c, d))
    BY DEF Like
  <1> DEFINE e == WithAttrs(c, d)
  <1>2. Refusal = Direct(op, e)
    <2>1. ToLsss(e) = Refusal => DirectRecon(e) = Refusal
      BY DEF DirectRecon
    <2>2. DirectRecon(e) = Refusal => DirectTarget(e) = Refusal
      BY DEF DirectTarget
    <2> HIDE DEF e
    <2> QED
      BY <1>1, <2>1, <2>2, DirectValues DEF Names, e
  <1> QED
    BY <1>2 DEF Like

-----------------------------------------------------------------------------
(* The threads that do not move.                                           *)

(* A thread's part of the invariant survives a step of another thread that *)
(* touches only caches and guards that nobody or that thread itself held.  *)
LEMMA OthersKeep ==
    ASSUME IInv, NEW t \in Threads,
           \A u \in Threads \ {t} : pc'[u] = pc[u] /\ call'[u] = call[u] /\ got'[u] = got[u],
           \A n \in Names : holder[n] \notin {None, t} =>
               caches'[n] = caches[n] /\ holder'[n] = holder[n]
    PROVE  \A u \in Threads \ {t} : ThreadOK(u)'
  <1> SUFFICES ASSUME NEW u \in Threads \ {t} PROVE ThreadOK(u)'
    OBVIOUS
  <1>1. pc'[u] = pc[u] /\ call'[u] = call[u] /\ got'[u] = got[u] /\ ThreadOK(u)
    BY DEF IInv
  <1>2. HoldsClones(u)' /\ Answered(u)'
    BY <1>1 DEF ThreadOK, HoldsClones, HoldsMatrix, Answered
  <1>3. \A n \in Names : holder[n] = u => caches'[n] = caches[n] /\ holder'[n] = u
    BY NoneAssumption
  <1>4. \A names \in SUBSET Names : Snapshot(u, names) => Snapshot(u, names)'
    BY <1>1, <1>3 DEF Snapshot
  <1>5. {"lsss"} \in SUBSET Names /\ {"lsss", "recon"} \in SUBSET Names /\ Names \in SUBSET Names
    BY DEF Names
  <1>6. HoldsGuards(u)'
    BY <1>1, <1>3, <1>4, <1>5 DEF ThreadOK, HoldsGuards, Names
  <1> QED
    BY <1>2, <1>6 DEF ThreadOK

-----------------------------------------------------------------------------
(* The methods of a cache keep it right.                                   *)

LEMMA EmptyRight == \A n \in Names : CacheRight(n, EmptyCache)
  <1>1. DOMAIN EmptyCache.map = {} /\ EmptyCache.hits \in Nat /\ EmptyCache.misses \in Nat
    BY DEF EmptyCache
  <1> QED
    BY <1>1, EmptyCacheOK DEF CacheRight, ValuesRight, Has

LEMMA CountedRight ==
    ASSUME NEW n \in Names, NEW cache, CacheRight(n, cache), NEW key
    PROVE  CacheRight(n, Counted(cache, key))
  <1>1. CacheOK(Counted(cache, key)) /\ Counted(cache, key).map = cache.map
    BY CountedOK DEF CacheRight
  <1>2. Counted(cache, key).hits \in Nat /\ Counted(cache, key).misses \in Nat
    BY DEF Counted, CacheRight, CacheOK
  <1> QED
    BY <1>1, <1>2 DEF CacheRight, ValuesRight, Has

LEMMA InsertCounters ==
    ASSUME NEW cache, CacheOK(cache), NEW key, NEW value
    PROVE  /\ Insert(cache, key, value).hits = cache.hits
           /\ Insert(cache, key, value).misses = cache.misses
  <1>1. /\ DOMAIN Queued(cache, key, value) = {"map", "order", "hits", "misses"}
        /\ Queued(cache, key, value).hits = cache.hits
        /\ Queued(cache, key, value).misses = cache.misses
    BY DEF Queued, CacheOK
  <1> QED
    BY <1>1 DEF Insert, Evicted, Popped

LEMMA InsertRight ==
    ASSUME NEW n \in Names, NEW cache, CacheRight(n, cache), NEW c \in Calls,
           NEW value, value # Refusal, Like(n, c, value)
    PROVE  CacheRight(n, Insert(cache, Key(n, c), value))
  <1> DEFINE key == Key(n, c)
             e == Insert(cache, key, value)
  <1>1. /\ CacheOK(e)
        /\ key \in DOMAIN e.map /\ e.map[key] = value
        /\ \A k \in DOMAIN e.map \ {key} : k \in DOMAIN cache.map /\ e.map[k] = cache.map[k]
    BY InsertCorrect DEF CacheRight
  <1>2. e.hits \in Nat /\ e.misses \in Nat
    BY InsertCounters DEF CacheRight
  <1> HIDE DEF e
  <1>3. DOMAIN e.map \subseteq {Key(n, d) : d \in Calls}
    BY <1>1 DEF CacheRight
  <1>4. ASSUME NEW d \in Calls, Has(e, Key(n, d))
        PROVE  e.map[Key(n, d)] # Refusal /\ Like(n, d, e.map[Key(n, d)])
    <2>1. CASE Key(n, d) = key
      <3>1. Like(n, d, value)
        BY <2>1, SameKeySameValue
      <3> QED
        BY <2>1, <3>1, <1>1
    <2>2. CASE Key(n, d) # key
      BY <2>2, <1>1, <1>4 DEF CacheRight, ValuesRight, Has
    <2> QED
      BY <2>1, <2>2
  <1>5. ValuesRight(n, e)
    BY <1>4 DEF ValuesRight
  <1> QED
    BY <1>1, <1>2, <1>3, <1>5 DEF CacheRight, e

(* The caches after one of them changed.                                   *)
LEMMA OneCacheChanged ==
    ASSUME IInv, NEW name \in Names, NEW e, CacheRight(name, e),
           caches' = [caches EXCEPT ![name] = e]
    PROVE  /\ DOMAIN caches' = Names
           /\ caches'[name] = e
           /\ \A n \in Names \ {name} : caches'[n] = caches[n]
           /\ \A n \in Names : CacheRight(n, caches'[n])
  BY DEF IInv, TypeOK

-----------------------------------------------------------------------------
(* What a thread holds when it goes on.                                    *)

LEMMA ComputedValues ==
    ASSUME NEW c, NEW clones
    PROVE  /\ Computed("lsss", c, clones) = ToLsss(c)
           /\ Computed("recon", c, clones) = Reconstruction(clones["lsss"], c)
           /\ Computed("target", c, clones) = Target(clones["lsss"], clones["recon"], c)
  BY DEF Computed

(* What a thread computes on a miss is a value the uncached call gives.    *)
LEMMA ComputedIsLike ==
    ASSUME IInv, NEW t \in Threads, NEW name \in Names, pc[t] = <<name, "put">>
    PROVE  /\ call[t] \in Calls
           /\ Like(name, call[t], Computed(name, call[t], got[t]))
  <1>1. HoldsClones(t)
    BY DEF IInv, ThreadOK
  <1>2. call[t] \in Calls
    BY <1>1 DEF HoldsClones, Idle
  <1>3. CASE name = "lsss"
    BY <1>3, <1>2, ComputedValues, DirectValues, OwnValueIsLike
  <1>4. CASE name = "recon"
    <2>1. HoldsMatrix(t)
      BY <1>1, <1>4 DEF HoldsClones
    <2>2. Computed(name, call[t], got[t]) = DirectRecon(call[t])
      BY <1>4, <2>1, ComputedValues DEF HoldsMatrix, DirectRecon
    <2> QED
      BY <1>2, <1>4, <2>2, DirectValues, OwnValueIsLike
  <1>5. CASE name = "target"
    <2>1. /\ HoldsMatrix(t)
          /\ Like("recon", call[t], got[t]["recon"])
          /\ got[t]["recon"] # Refusal
      BY <1>1, <1>5 DEF HoldsClones
    <2>2. PICK d \in Alike[call[t]] : got[t]["recon"] = DirectRecon(WithAttrs(call[t], d))
      BY <2>1, DirectValues DEF Like
    <2>3. ToLsss(WithAttrs(call[t], d)) = ToLsss(call[t])
      BY <1>2, SameMatrix, WithAttrsFields
    <2>4. \A lsss, recon :
              Target(lsss, recon, WithAttrs(call[t], d)) = Target(lsss, recon, call[t])
      BY <1>2, WithAttrsFields DEF Target
    <2>5. DirectTarget(WithAttrs(call[t], d))
             = Target(got[t]["lsss"], got[t]["recon"], call[t])
      BY <2>1, <2>2, <2>3, <2>4 DEF DirectTarget, HoldsMatrix
    <2>6. Computed(name, call[t], got[t]) = Direct("target", WithAttrs(call[t], d))
      BY <1>5, <2>5, ComputedValues, DirectValues
    <2> QED
      BY <1>2, <1>5, <2>6 DEF Like
  <1> QED
    BY <1>2, <1>3, <1>4, <1>5 DEF Names

(* A call that obtained the right value of a cache, by a hit or by its own *)
(* insertion, goes on or returns with the right values in hand.            *)
LEMMA GoesOn ==
    ASSUME IInv, NEW t \in Threads, NEW name \in Names,
           pc[t] \in {<<name, "get">>, <<name, "put">>},
           pc' = [pc EXCEPT ![t] = After(call[t].op, name)],
           NEW value, value # Refusal, Like(name, call[t], value),
           got' = [got EXCEPT ![t][name] = value],
           UNCHANGED call
    PROVE  /\ ThreadOK(t)'
           /\ pc' \in [Threads -> (Names \X Steps) \cup {Idle}]
  <1>1. HoldsClones(t) /\ call[t] \in Calls
    BY DEF IInv, ThreadOK, HoldsClones, Idle
  <1>2. /\ pc'[t] = After(call[t].op, name)
        /\ got'[t][name] = value
        /\ \A n \in Names \ {name} : got'[t][n] = got[t][n]
        /\ call'[t] = call[t]
    BY DEF IInv, TypeOK
  <1>3. CASE name = call[t].op
    <2>1. pc'[t] = Idle
      BY <1>2, <1>3 DEF After
    <2>2. HoldsClones(t)' /\ HoldsGuards(t)'
      BY <2>1 DEF HoldsClones, HoldsGuards, Idle, Names
    <2>3. Answered(t)'
      BY <1>1, <1>2, <1>3 DEF Answered
    <2>4. pc' \in [Threads -> (Names \X Steps) \cup {Idle}]
      BY <2>1 DEF IInv, TypeOK
    <2> QED
      BY <2>2, <2>3, <2>4 DEF ThreadOK
  <1>4. CASE name # call[t].op /\ name = "lsss"
    <2>1. call[t].op \in {"recon", "target"}
      BY <1>1, <1>4 DEF HoldsClones, Names
    <2>2. pc'[t] = <<"recon", "get">>
      BY <1>2, <1>4 DEF After
    <2>3. HoldsMatrix(t)'
      BY <1>1, <1>2, <1>4, LikeMatrix DEF HoldsMatrix
    <2>4. HoldsClones(t)' /\ HoldsGuards(t)' /\ Answered(t)'
      BY <2>1, <2>2, <2>3, <1>1, <1>2 DEF HoldsClones, HoldsGuards, Answered, Idle, Names
    <2>5. pc' \in [Threads -> (Names \X Steps) \cup {Idle}]
      BY <2>2 DEF IInv, TypeOK, Names, Steps
    <2> QED
      BY <2>4, <2>5 DEF ThreadOK
  <1>5. CASE name # call[t].op /\ name = "recon"
    <2>1. call[t].op = "target" /\ HoldsMatrix(t)
      BY <1>1, <1>5 DEF HoldsClones
    <2>2. pc'[t] = <<"target", "put">>
      BY <1>2, <1>5, <2>1 DEF After
    <2>3. /\ HoldsMatrix(t)'
          /\ Like("recon", call[t], got'[t]["recon"])
          /\ got'[t]["recon"] # Refusal
      BY <2>1, <1>2, <1>5 DEF Names, HoldsMatrix
    <2>4. HoldsClones(t)' /\ HoldsGuards(t)' /\ Answered(t)'
      BY <2>1, <2>2, <2>3, <1>1, <1>2 DEF HoldsClones, HoldsGuards, Answered, Idle, Names
    <2>5. pc' \in [Threads -> (Names \X Steps) \cup {Idle}]
      BY <2>2 DEF IInv, TypeOK, Names, Steps
    <2> QED
      BY <2>4, <2>5 DEF ThreadOK
  <1>6. CASE name # call[t].op /\ name = "target"
    BY <1>1, <1>6 DEF HoldsClones
  <1> QED
    BY <1>3, <1>4, <1>5, <1>6 DEF Names

(* The place a thread moves to is a place of the program.                  *)
LEMMA PcMoves ==
    ASSUME IInv, NEW t \in Threads, NEW v \in (Names \X Steps) \cup {Idle},
           pc' = [pc EXCEPT ![t] = v]
    PROVE  pc' \in [Threads -> (Names \X Steps) \cup {Idle}]
  <1>1. pc \in [Threads -> (Names \X Steps) \cup {Idle}]
    BY DEF IInv, TypeOK
  <1> QED
    BY <1>1

-----------------------------------------------------------------------------
(* Each step keeps the invariant.                                          *)

(* The invariant of the next state, from what the step of one thread does. *)
LEMMA Assemble ==
    ASSUME IInv, NEW t \in Threads,
           \A u \in Threads \ {t} : pc'[u] = pc[u] /\ call'[u] = call[u] /\ got'[u] = got[u],
           \A n \in Names : holder[n] \notin {None, t} =>
               caches'[n] = caches[n] /\ holder'[n] = holder[n],
           DOMAIN caches' = Names, \A n \in Names : CacheRight(n, caches'[n]),
           holder' \in [Names -> Threads \cup {None}],
           pc' \in [Threads -> (Names \X Steps) \cup {Idle}],
           call' \in [Threads -> Calls \cup {None}],
           DOMAIN got' = Threads, \A u \in Threads : DOMAIN got'[u] = Names,
           budget' \in 0..MaxCalls,
           ThreadOK(t)'
    PROVE  IInv'
  <1>1. TypeOK'
    BY DEF TypeOK, CacheRight, CacheOK
  <1>2. \A u \in Threads : ThreadOK(u)'
    BY OthersKeep
  <1> QED
    BY <1>1, <1>2 DEF IInv

LEMMA InitIInv == Init => IInv
  <1> SUFFICES ASSUME Init PROVE IInv
    OBVIOUS
  <1>1. \A n \in Names : CacheRight(n, caches[n])
    BY EmptyRight DEF Init
  <1>2. TypeOK
    BY <1>1, MaxCallsAssumption DEF Init, TypeOK, CacheRight, CacheOK
  <1>3. \A t \in Threads : pc[t] = Idle /\ call[t] = None
    BY DEF Init
  <1>4. \A t \in Threads : ThreadOK(t)
    BY <1>3 DEF ThreadOK, HoldsClones, HoldsGuards, Answered, Idle, Names
  <1> QED
    BY <1>1, <1>2, <1>4 DEF IInv

LEMMA BeginStep ==
    ASSUME IInv, NEW t \in Threads, Begin(t)
    PROVE  IInv'
  <1>1. PICK c \in Calls : call' = [call EXCEPT ![t] = c] /\ pc' = [pc EXCEPT ![t] = Entry(c.op)]
    BY DEF Begin
  <1>2. c.op \in Names \cup {"clear", "stats"}
    BY CallsAssumption
  <1>3. /\ pc'[t] = Entry(c.op) /\ call'[t] = c
        /\ \A u \in Threads \ {t} : pc'[u] = pc[u] /\ call'[u] = call[u] /\ got'[u] = got[u]
        /\ DOMAIN got' = Threads /\ \A u \in Threads : DOMAIN got'[u] = Names
        /\ call' \in [Threads -> Calls \cup {None}]
    BY <1>1 DEF IInv, TypeOK, Begin
  <1>4. \/ c.op \in {"lsss", "recon"} /\ pc'[t] = <<"lsss", "get">>
        \/ c.op = "target" /\ pc'[t] = <<"target", "get">>
        \/ c.op = "clear" /\ pc'[t] = <<"lsss", "clear">>
        \/ c.op = "stats" /\ pc'[t] = <<"lsss", "stats">>
    BY <1>2, <1>3 DEF Entry, Names
  <1>5. pc' \in [Threads -> (Names \X Steps) \cup {Idle}]
    <2>1. Entry(c.op) \in (Names \X Steps) \cup {Idle}
      BY <1>3, <1>4 DEF Names, Steps
    <2> QED
      BY <1>1, <2>1, PcMoves
  <1>6. ThreadOK(t)'
    BY <1>3, <1>4 DEF ThreadOK, HoldsClones, HoldsGuards, Answered, Idle, Names
  <1>7. budget' \in 0..MaxCalls
    BY MaxCallsAssumption DEF IInv, TypeOK, Begin
  <1> QED
    BY <1>3, <1>5, <1>6, <1>7, Assemble DEF IInv, TypeOK, Begin

LEMMA LookupStep ==
    ASSUME IInv, NEW t \in Threads, NEW name \in Names, Lookup(t, name)
    PROVE  IInv'
  <1> DEFINE key == Key(name, call[t])
  <1>0. pc[t] = <<name, "get">> /\ HoldsClones(t)
    BY DEF IInv, ThreadOK, Lookup
  <1>1. HoldsClones(t) /\ call[t] \in Calls
    BY <1>0 DEF HoldsClones, Idle, Names
  <1>2. CacheRight(name, Counted(caches[name], key))
    BY CountedRight DEF IInv
  <1>3. DOMAIN caches' = Names /\ \A n \in Names : CacheRight(n, caches'[n])
    BY <1>2, OneCacheChanged DEF Lookup
  <1>4. \A n \in Names : holder[n] \notin {None, t} =>
            caches'[n] = caches[n] /\ holder'[n] = holder[n]
    BY <1>2, OneCacheChanged DEF Lookup, Free
  <1>5. /\ \A u \in Threads \ {t} : pc'[u] = pc[u] /\ call'[u] = call[u] /\ got'[u] = got[u]
        /\ DOMAIN got' = Threads /\ \A u \in Threads : DOMAIN got'[u] = Names
    BY DEF IInv, TypeOK, Lookup
  <1>6. ThreadOK(t)' /\ pc' \in [Threads -> (Names \X Steps) \cup {Idle}]
    <2>1. CASE Has(caches[name], key)
      <3>1. /\ caches[name].map[key] # Refusal
            /\ Like(name, call[t], caches[name].map[key])
        BY <2>1, <1>1 DEF IInv, CacheRight, ValuesRight
      <3>2. /\ pc' = [pc EXCEPT ![t] = After(call[t].op, name)]
            /\ got' = [got EXCEPT ![t][name] = caches[name].map[key]]
            /\ pc[t] = <<name, "get">>
            /\ UNCHANGED call
        BY <2>1, <3>1 DEF Lookup
      <3> QED
        BY <3>1, <3>2, GoesOn
    <2>2. CASE ~Has(caches[name], key)
      <3>1. pc' = [pc EXCEPT ![t] = Missed(name)] /\ UNCHANGED <<got, call>> /\ pc[t] = <<name, "get">>
        BY <2>2 DEF Lookup
      <3>2. pc'[t] = Missed(name)
        BY <3>1 DEF IInv, TypeOK
      <3>3. CASE name = "lsss"
        <4>1. pc'[t] = <<"lsss", "put">> /\ call[t].op \in Names
          BY <3>1, <3>2, <3>3, <1>1 DEF Missed, HoldsClones
        <4>2. ThreadOK(t)'
          BY <4>1, <3>1, <1>1 DEF ThreadOK, HoldsClones, HoldsGuards, Answered, Idle, Names
        <4>3. Missed(name) \in (Names \X Steps) \cup {Idle}
          BY <4>1, <3>2 DEF Names, Steps
        <4> QED
          BY <4>2, <4>3, <3>1, PcMoves
      <3>4. CASE name = "recon"
        <4>1. /\ pc'[t] = <<"recon", "put">>
              /\ call[t].op \in {"recon", "target"}
              /\ HoldsMatrix(t) /\ HoldsMatrix(t)'
          BY <3>1, <3>2, <3>4, <1>1 DEF Missed, HoldsClones, HoldsMatrix
        <4>2. ThreadOK(t)'
          BY <4>1, <3>1, <1>1 DEF ThreadOK, HoldsClones, HoldsGuards, Answered, Idle, Names
        <4>3. Missed(name) \in (Names \X Steps) \cup {Idle}
          BY <4>1, <3>2 DEF Names, Steps
        <4> QED
          BY <4>2, <4>3, <3>1, PcMoves
      <3>5. CASE name = "target"
        <4>1. pc'[t] = <<"lsss", "get">> /\ call[t].op = "target"
          BY <3>1, <3>2, <3>5, <1>1 DEF Missed, HoldsClones
        <4>2. ThreadOK(t)'
          BY <4>1, <3>1, <1>1 DEF ThreadOK, HoldsClones, HoldsGuards, Answered, Idle, Names
        <4>3. Missed(name) \in (Names \X Steps) \cup {Idle}
          BY <4>1, <3>2 DEF Names, Steps
        <4> QED
          BY <4>2, <4>3, <3>1, PcMoves
      <3> QED
        BY <3>3, <3>4, <3>5 DEF Names
    <2> QED
      BY <2>1, <2>2
  <1> QED
    BY <1>3, <1>4, <1>5, <1>6, Assemble DEF IInv, TypeOK, Lookup

LEMMA StoreStep ==
    ASSUME IInv, NEW t \in Threads, NEW name \in Names, Store(t, name)
    PROVE  IInv'
  <1> DEFINE value == Computed(name, call[t], got[t])
             e == Insert(caches[name], Key(name, call[t]), value)
  <1>1. pc[t] = <<name, "put">>
    BY DEF Store
  <1>2. call[t] \in Calls /\ Like(name, call[t], value)
    BY <1>1, ComputedIsLike
  <1>3. /\ value # Refusal
        /\ Free(name)
        /\ caches' = [caches EXCEPT ![name] = e]
        /\ got' = [got EXCEPT ![t][name] = value]
        /\ pc' = [pc EXCEPT ![t] = After(call[t].op, name)]
        /\ UNCHANGED <<holder, call, budget>>
    BY <1>2 DEF Store
  <1>4. CacheRight(name, e)
    BY <1>2, <1>3, InsertRight DEF IInv
  <1> HIDE DEF e, value
  <1>5. DOMAIN caches' = Names /\ \A n \in Names : CacheRight(n, caches'[n])
    BY <1>3, <1>4, OneCacheChanged
  <1>6. \A n \in Names : holder[n] \notin {None, t} =>
            caches'[n] = caches[n] /\ holder'[n] = holder[n]
    BY <1>3, <1>4, OneCacheChanged DEF Free
  <1>7. /\ \A u \in Threads \ {t} : pc'[u] = pc[u] /\ call'[u] = call[u] /\ got'[u] = got[u]
        /\ DOMAIN got' = Threads /\ \A u \in Threads : DOMAIN got'[u] = Names
    BY <1>3 DEF IInv, TypeOK
  <1>8. ThreadOK(t)' /\ pc' \in [Threads -> (Names \X Steps) \cup {Idle}]
    BY <1>1, <1>2, <1>3, GoesOn
  <1> QED
    BY <1>3, <1>5, <1>6, <1>7, <1>8, Assemble DEF IInv, TypeOK

LEMMA RefuseStep ==
    ASSUME IInv, NEW t \in Threads, NEW name \in Names, Refuse(t, name)
    PROVE  IInv'
  <1>1. pc[t] = <<name, "put">>
    BY DEF Refuse
  <1>2. call[t] \in Calls /\ Like(name, call[t], Refusal)
    BY <1>1, ComputedIsLike DEF Refuse
  <1>3. /\ call[t].op \in Names
        /\ name = "recon" => call[t].op # "lsss"
        /\ name = "target" => call[t].op = "target"
    BY <1>1 DEF IInv, ThreadOK, HoldsClones, Names
  <1>4. Like(call[t].op, call[t], Refusal)
    BY <1>2, <1>3, RefusalGoesUp
  <1>5. /\ pc'[t] = Idle /\ got'[t][call[t].op] = Refusal /\ call' = call
        /\ \A u \in Threads \ {t} : pc'[u] = pc[u] /\ call'[u] = call[u] /\ got'[u] = got[u]
        /\ DOMAIN got' = Threads /\ \A u \in Threads : DOMAIN got'[u] = Names
        /\ pc' \in [Threads -> (Names \X Steps) \cup {Idle}]
    BY <1>3 DEF IInv, TypeOK, Refuse
  <1>6. ThreadOK(t)'
    BY <1>2, <1>4, <1>5 DEF ThreadOK, HoldsClones, HoldsGuards, Answered, Idle, Names
  <1> QED
    BY <1>5, <1>6, Assemble DEF IInv, TypeOK, Refuse

LEMMA ClearStep ==
    ASSUME IInv, NEW t \in Threads, NEW name \in Names, Clear(t, name)
    PROVE  IInv'
  <1>1. CacheRight(name, EmptyCache)
    BY EmptyRight
  <1>2. DOMAIN caches' = Names /\ \A n \in Names : CacheRight(n, caches'[n])
    BY <1>1, OneCacheChanged DEF Clear
  <1>3. \A n \in Names : holder[n] \notin {None, t} =>
            caches'[n] = caches[n] /\ holder'[n] = holder[n]
    BY <1>1, OneCacheChanged DEF Clear, Free
  <1>4. call[t] \in Calls /\ call[t].op = "clear"
    BY DEF IInv, ThreadOK, HoldsClones, HoldsGuards, Idle, Clear
  <1>5. /\ pc'[t] = Following(name, "clear") /\ call' = call
        /\ \A u \in Threads \ {t} : pc'[u] = pc[u] /\ call'[u] = call[u] /\ got'[u] = got[u]
    BY DEF IInv, TypeOK, Clear
  <1>6. pc'[t] \in {<<"recon", "clear">>, <<"target", "clear">>, Idle}
    BY <1>5 DEF Following, Names
  <1>7. pc' \in [Threads -> (Names \X Steps) \cup {Idle}]
    BY <1>5, <1>6 DEF IInv, TypeOK, Clear, Names, Steps
  <1>8. ThreadOK(t)'
    BY <1>4, <1>5, <1>6 DEF ThreadOK, HoldsClones, HoldsGuards, Answered, Idle, Names
  <1> QED
    BY <1>2, <1>3, <1>5, <1>7, <1>8, Assemble DEF IInv, TypeOK, Clear

LEMMA ReadStatsStep ==
    ASSUME IInv, NEW t \in Threads, NEW name \in Names, ReadStats(t, name)
    PROVE  IInv'
  <1>1. call[t] \in Calls /\ call[t].op = "stats" /\ pc[t] = <<name, "stats">>
    BY DEF IInv, ThreadOK, HoldsClones, HoldsGuards, Idle, ReadStats
  <1>2. /\ pc'[t] = Following(name, "stats") /\ call' = call /\ caches' = caches
        /\ \A u \in Threads \ {t} : pc'[u] = pc[u] /\ call'[u] = call[u] /\ got'[u] = got[u]
        /\ DOMAIN got' = Threads /\ \A u \in Threads : DOMAIN got'[u] = Names
        /\ holder' \in [Names -> Threads \cup {None}]
    BY DEF IInv, TypeOK, ReadStats
  <1>3. /\ holder'[name] = t /\ got'[t][name] = Stats(caches[name])
        /\ \A n \in Names \ {name} : holder'[n] = holder[n] /\ got'[t][n] = got[t][n]
    BY DEF IInv, TypeOK, ReadStats
  <1>4. \A n \in Names : holder[n] \notin {None, t} => holder'[n] = holder[n]
    BY <1>3 DEF ReadStats, Free
  <1>5. HoldsGuards(t)
    BY DEF IInv, ThreadOK
  <1>6. \/ name = "lsss" /\ pc'[t] = <<"recon", "stats">> /\ Snapshot(t, {"lsss"})'
        \/ name = "recon" /\ pc'[t] = <<"target", "stats">> /\ Snapshot(t, {"lsss", "recon"})'
        \/ name = "target" /\ pc'[t] = <<"target", "unlock">> /\ Snapshot(t, Names)'
    <2>1. CASE name = "lsss"
      BY <2>1, <1>2, <1>3 DEF Following, Snapshot
    <2>2. CASE name = "recon"
      <3>1. Snapshot(t, {"lsss"})
        BY <2>2, <1>1, <1>5 DEF HoldsGuards
      <3>2. Snapshot(t, {"lsss", "recon"})'
        BY <2>2, <3>1, <1>2, <1>3 DEF Snapshot, Names
      <3> QED
        BY <2>2, <3>2, <1>2 DEF Following
    <2>3. CASE name = "target"
      <3>1. Snapshot(t, {"lsss", "recon"})
        BY <2>3, <1>1, <1>5 DEF HoldsGuards
      <3>2. Snapshot(t, Names)'
        BY <2>3, <3>1, <1>2, <1>3 DEF Snapshot, Names
      <3> QED
        BY <2>3, <3>2, <1>2 DEF Following
    <2> QED
      BY <2>1, <2>2, <2>3 DEF Names
  <1>7. pc' \in [Threads -> (Names \X Steps) \cup {Idle}]
    <2>1. pc' = [pc EXCEPT ![t] = Following(name, "stats")] \/ pc' = [pc EXCEPT ![t] = <<"target", "unlock">>]
      BY DEF ReadStats, Following
    <2>2. pc' = [pc EXCEPT ![t] = pc'[t]]
      BY <2>1 DEF IInv, TypeOK
    <2>3. pc'[t] \in (Names \X Steps) \cup {Idle}
      BY <1>6 DEF Names, Steps
    <2> QED
      BY <2>2, <2>3, PcMoves
  <1>8. ThreadOK(t)'
    BY <1>1, <1>2, <1>6 DEF ThreadOK, HoldsClones, HoldsGuards, Answered, Idle, Names
  <1> QED
    BY <1>2, <1>4, <1>7, <1>8, Assemble DEF IInv, TypeOK, ReadStats

LEMMA UnlockStep ==
    ASSUME IInv, NEW t \in Threads, NEW name \in Names, Unlock(t, name)
    PROVE  IInv'
  <1>1. call[t] \in Calls /\ call[t].op = "stats" /\ pc[t] = <<name, "unlock">> /\ HoldsGuards(t)
    BY DEF IInv, ThreadOK, HoldsClones, HoldsGuards, Idle, Unlock
  <1>2. /\ call' = call /\ caches' = caches
        /\ \A u \in Threads \ {t} : pc'[u] = pc[u] /\ call'[u] = call[u] /\ got'[u] = got[u]
        /\ holder' \in [Names -> Threads \cup {None}]
        /\ \A n \in Names \ {name} : holder'[n] = holder[n]
    BY DEF IInv, TypeOK, Unlock
  <1>3. \/ name = "target" /\ pc'[t] = <<"recon", "unlock">> /\ holder["lsss"] = t /\ holder["recon"] = t
        \/ name = "recon" /\ pc'[t] = <<"lsss", "unlock">> /\ holder["lsss"] = t
        \/ name = "lsss" /\ pc'[t] = Idle
    BY <1>1 DEF IInv, TypeOK, Unlock, HoldsGuards, Snapshot, Names
  <1>4. holder[name] = t
    BY <1>1 DEF HoldsGuards, Snapshot, Names
  <1>5. pc' \in [Threads -> (Names \X Steps) \cup {Idle}]
    BY <1>3 DEF IInv, TypeOK, Unlock, Names, Steps
  <1>6. ThreadOK(t)'
    BY <1>1, <1>2, <1>3 DEF ThreadOK, HoldsClones, HoldsGuards, Answered, Idle, Names
  <1>7. \A n \in Names : CacheRight(n, caches'[n])
    BY <1>2 DEF IInv
  <1>8. \A n \in Names : holder[n] \notin {None, t} =>
            caches'[n] = caches[n] /\ holder'[n] = holder[n]
    BY <1>2, <1>4
  <1>9. /\ DOMAIN caches' = Names /\ call' \in [Threads -> Calls \cup {None}]
        /\ DOMAIN got' = Threads /\ \A u \in Threads : DOMAIN got'[u] = Names
        /\ budget' \in 0..MaxCalls
    BY DEF IInv, TypeOK, Unlock
  <1> QED
    BY <1>2, <1>5, <1>6, <1>7, <1>8, <1>9, Assemble

LEMMA NextIInv == IInv /\ [Next]_vars => IInv'
  <1> SUFFICES ASSUME IInv, [Next]_vars PROVE IInv'
    OBVIOUS
  <1>1. CASE UNCHANGED vars
    BY <1>1 DEF vars, IInv, TypeOK, ThreadOK, HoldsClones, HoldsMatrix, HoldsGuards,
                Snapshot, Answered
  <1>2. ASSUME NEW t \in Threads, Begin(t) PROVE IInv'
    BY <1>2, BeginStep
  <1>3. ASSUME NEW t \in Threads, Step(t) PROVE IInv'
    BY <1>3, LookupStep, StoreStep, RefuseStep, ClearStep, ReadStatsStep, UnlockStep DEF Step
  <1> QED
    BY <1>1, <1>2, <1>3 DEF Next, Done

(* The invariant holds in every reachable state.                           *)
THEOREM Invariance == Spec => []IInv
  BY InitIInv, NextIInv, PTL DEF Spec

-----------------------------------------------------------------------------
(* The properties.                                                         *)

(* Caches, guards and program counters keep their shape, and a cache holds *)
(* keys of its own kind only.                                              *)
THEOREM TypeCorrect == Spec => []TypeOK
  <1>1. IInv => TypeOK
    BY DEF IInv
  <1> QED
    BY <1>1, Invariance, PTL

(* Under any interleaving of threads the three caches list each key once   *)
(* and never grow beyond their capacity.                                   *)
THEOREM CachesStayWellFormed == Spec => []CachesWellFormed
  <1>1. IInv => CachesWellFormed
    BY DEF IInv, CacheRight, CacheOK, CachesWellFormed
  <1> QED
    BY <1>1, Invariance, PTL

(* Caching is transparent up to the joined text of the attributes: every   *)
(* call answers what the uncached computation answers for a list that      *)
(* reads the same, and for its own list when no other list reads so,       *)
(* whatever other threads did meanwhile.                                   *)
THEOREM CachingIsTransparent == Spec => []AnswersAreDirect
  <1>1. IInv => AnswersAreDirect
    BY LikeIsOwn DEF IInv, ThreadOK, Answered, Like, AnswersAreDirect
  <1> QED
    BY <1>1, Invariance, PTL

(* policy_cache_stats is a snapshot of one moment.                         *)
THEOREM StatsAreSnapshots == Spec => []StatsAreOneMoment
  <1>1. IInv => StatsAreOneMoment
    BY DEF IInv, ThreadOK, HoldsGuards, Snapshot, StatsAreOneMoment
  <1> QED
    BY <1>1, Invariance, PTL

(* An insertion, with the evictions it causes, keeps what it inserts.      *)
THEOREM InsertionsAreKept == Spec => InsertedIsKept
  <1>1. ASSUME IInv, NEW t \in Threads, NEW n \in Names, Store(t, n)
        PROVE  Has(caches'[n], Key(n, call[t]))
    <2>1. CacheOK(caches[n]) /\ DOMAIN caches = Names
      BY <1>1 DEF IInv, CacheRight, TypeOK
    <2>2. caches'[n] = Insert(caches[n], Key(n, call[t]), Computed(n, call[t], got[t]))
      BY <1>1, <2>1 DEF Store
    <2> QED
      BY <2>1, <2>2, InsertCorrect DEF Has
  <1>2. IInv => [\A t \in Threads, n \in Names :
                    Store(t, n) => Has(caches'[n], Key(n, call[t]))]_vars
    BY <1>1
  <1> QED
    BY <1>2, Invariance, PTL DEF InsertedIsKept

=============================================================================
