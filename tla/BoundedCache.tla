---------------------------- MODULE BoundedCache ----------------------------
(***************************************************************************)
(* BoundedCache<K, V>, the bounded first-in first-out map behind every     *)
(* process-wide cache of the library (src/src/lsss.rs, and the same code   *)
(* again in src/src/mlwe.rs): a hash map, the queue of its keys in         *)
(* insertion order, and two counters.  Each method runs under the mutex    *)
(* that owns the cache, so a method is one value of the cache turned into  *)
(* another.                                                                *)
(***************************************************************************)
EXTENDS Integers, FiniteSets, Sequences, Functions

CONSTANT Capacity     \* entries retained

(* BoundedCache::new takes capacity.max(1).                                *)
ASSUME CapacityAssumption == Capacity \in Nat \ {0}

(* BoundedCache::new                                                       *)
EmptyCache == [map |-> <<>>, order |-> <<>>, hits |-> 0, misses |-> 0]

Has(cache, key) == key \in DOMAIN cache.map

(* get_cloned: the value is cache.map[key] on a hit, the counters move.    *)
Counted(cache, key) ==
    IF Has(cache, key)
    THEN [cache EXCEPT !.hits = @ + 1]
    ELSE [cache EXCEPT !.misses = @ + 1]

(* order.retain(|existing| existing != key), for an order that lists every *)
(* key at most once (WellFormed below).                                    *)
Retain(order, key) ==
    LET at == CHOOSE i \in DOMAIN order : order[i] = key
    IN  [i \in 1..(Len(order) - 1) |-> IF i < at THEN order[i] ELSE order[i + 1]]

(* order.pop_front() and map.remove, n times.                              *)
Popped(cache, n) ==
    [cache EXCEPT
        !.map = Restrict(@, DOMAIN @ \ {cache.order[i] : i \in 1..n}),
        !.order = SubSeq(@, n + 1, Len(@))]

(* Variant: the loop condition is `map.len() >= capacity`.                 *)
FitsStrictly(cache) == Cardinality(DOMAIN cache.map) < Capacity

Fits(cache) == Cardinality(DOMAIN cache.map) <= Capacity

(* while map.len() > capacity { ... }: the least number of pops that fits. *)
Evicted(cache) ==
    LET n == CHOOSE n \in 0..Len(cache.order) :
                 /\ Fits(Popped(cache, n))
                 /\ \A m \in 0..(n - 1) : ~Fits(Popped(cache, m))
    IN  Popped(cache, n)

(* Variant: a key that is already queued is queued again.                  *)
QueuedAgain(cache, key, value) ==
    [cache EXCEPT
        !.map = [k \in DOMAIN @ \cup {key} |-> IF k = key THEN value ELSE @[k]],
        !.order = Append(@, key)]

(* The key moves to, or joins, the back of the queue.                      *)
Queued(cache, key, value) ==
    [cache EXCEPT
        !.map = [k \in DOMAIN @ \cup {key} |-> IF k = key THEN value ELSE @[k]],
        !.order = Append(IF Has(cache, key) THEN Retain(@, key) ELSE @, key)]

(* insert(key, value)                                                      *)
Insert(cache, key, value) == Evicted(Queued(cache, key, value))

(* stats()                                                                 *)
Stats(cache) ==
    [len |-> Cardinality(DOMAIN cache.map), hits |-> cache.hits, misses |-> cache.misses]

-----------------------------------------------------------------------------

(* The queue lists the keys of the map, each once, and the map fits.  The  *)
(* eviction loop terminates only because of the first part: it spins for   *)
(* ever when the map is too large and the queue is empty.                  *)
WellFormed(cache) ==
    /\ \A i, j \in DOMAIN cache.order : cache.order[i] = cache.order[j] => i = j
    /\ Range(cache.order) = DOMAIN cache.map
    /\ Fits(cache)

=============================================================================
