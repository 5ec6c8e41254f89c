----------------------------- MODULE NttCaches -----------------------------
(***************************************************************************)
(* The products of src/src/mlwe.rs as threads call them, over the two      *)
(* process-wide caches they share: the plans of the rings, and the images  *)
(* of public matrices under the hash of their shape and coefficients.      *)
(* As in PolicyCaches a lookup, its computation and its insertion are      *)
(* three moments, and what a thread holds are clones.                      *)
(*                                                                         *)
(* A hash stands for what is hashed.  A call that panics (vectors shorter  *)
(* than the matrix) is not made.                                           *)
(***************************************************************************)
EXTENDS Ntt, FiniteSets

CONSTANTS
    PlanCapacity, ImageCapacity,   \* DEFAULT_NTT_CACHE_CAPACITY, ..._MATRIX_...
    Threshold,      \* the degree from which products use the transform: 64
    Threads,
    Calls,          \* the calls threads make, see Op
    MaxCalls,       \* bound: calls the threads make in all
    None

Plans == INSTANCE BoundedCache WITH Capacity <- PlanCapacity
Images == INSTANCE BoundedCache WITH Capacity <- ImageCapacity

VARIABLES
    plans,      \* the plan cache: degree -> plan (q is a constant here)
    images,     \* the matrix cache: key -> image
    held,       \* the thread whose guard of the plan cache outlives a step
    pc,         \* thread -> the next step of its call
    call,       \* thread -> its current or last call
    plan,       \* thread -> the plan it cloned or computed
    result,     \* thread -> what its last call returned
    budget      \* calls that may still begin

vars == <<plans, images, held, pc, call, plan, result, budget>>

(* A product has the degree n, a matrix, vectors v and t, a polynomial p:  *)
(* "vec" is matrix_vector_mul(a, v), "sub" is                              *)
(* matrix_vector_mul_sub_poly_mul_ntt(a, v, t, p), "scale" is              *)
(* vector_poly_mul_ntt(v, p) and "mul" is v[1].mul(p).                     *)
Op == {"vec", "sub", "scale", "mul", "clear", "stats"}

ASSUME CallsAssumption ==
    \A c \in Calls : c.op \in Op /\ DOMAIN c = {"op", "n", "a", "v", "t", "p"}

ASSUME BoundsAssumption == MaxCalls \in Nat /\ Threshold \in Nat

Steps == {"idle", "naive", "direct", "get_plan", "put_plan", "get_image", "put_image",
         "clear_plans", "clear_images", "stats_plans", "stats_images"}

-----------------------------------------------------------------------------
(* Values.                                                                 *)

(* matrix_ntt_cache_key: rows, cols and every coefficient in order.        *)
FlatCoefficients(a, n) ==
    [x \in 0..(Len(a) * Len(a[1]) * n - 1) |->
        a[(x \div (Len(a[1]) * n)) + 1][((x \div n) % Len(a[1])) + 1][x % n]]

(* Variant: the shape is not hashed.                                       *)
KeyWithoutShape(a, n) == [rows |-> 1, cols |-> 1, coeffs |-> FlatCoefficients(a, n)]

MatrixNttCacheKey(a, n) ==
    [rows |-> Len(a), cols |-> Len(a[1]), coeffs |-> FlatCoefficients(a, n)]

(* The image of a matrix, or of a vector, polynomial by polynomial.        *)
TransformVector(pl, v) == [j \in DOMAIN v |-> Forward(pl, v[j])]

Transform(pl, a) == [i \in DOMAIN a |-> TransformVector(pl, a[i])]

(* What a thread returns from its plan, the image it holds and its call.   *)
VecResult(pl, image, c) ==
    LET v_ntt == TransformVector(pl, c.v)
    IN  [i \in DOMAIN image |-> Inverse(pl, RowAccumulated(image[i], v_ntt, c.n))]

SubResult(pl, image, c) ==
    LET v_ntt == TransformVector(pl, c.v)
        t_ntt == TransformVector(pl, c.t)
        p_ntt == Forward(pl, c.p)
    IN  [i \in DOMAIN image |->
            LET acc == RowAccumulated(image[i], v_ntt, c.n)
            IN  Inverse(pl, [x \in 0..(c.n - 1) |->
                                Rem(acc[x] - Rem(t_ntt[i][x] * p_ntt[x]) + Q)])]

ScaleResult(pl, c) ==
    LET p_ntt == Forward(pl, c.p)
    IN  [i \in DOMAIN c.v |->
            Inverse(pl, [x \in 0..(c.n - 1) |-> Rem(Forward(pl, c.v[i])[x] * p_ntt[x])])]

ImageResult(pl, image, c) ==
    IF c.op = "vec" THEN VecResult(pl, image, c) ELSE SubResult(pl, image, c)

(* The rings below the threshold, term by term.                            *)
NaiveResult(c) ==
    IF c.op = "vec"
    THEN [i \in DOMAIN c.a |->
            LET sum[j \in 0..Len(c.a[i])] ==
                    IF j = 0 THEN Zero(c.n)
                    ELSE Add(sum[j - 1], MulNaive(c.a[i][j], c.v[j], c.n))
            IN  sum[Len(c.a[i])]]
    ELSE [i \in DOMAIN c.v |-> MulNaive(c.v[i], c.p, c.n)]

-----------------------------------------------------------------------------
(* Steps.                                                                  *)

Init ==
    /\ plans = Plans!EmptyCache
    /\ images = Images!EmptyCache
    /\ held = None
    /\ pc = [t \in Threads |-> "idle"]
    /\ call = [t \in Threads |-> None]
    /\ plan = [t \in Threads |-> None]
    /\ result = [t \in Threads |-> None]
    /\ budget = MaxCalls

(* Where a call starts: matrix_vector_mul_sub_poly_mul_ntt alone does not  *)
(* look at the threshold.                                                  *)
Entry(c) ==
    CASE c.op = "clear" -> "clear_plans"
      [] c.op = "stats" -> "stats_plans"
      [] c.op \in {"vec", "scale", "mul"} /\ c.n < Threshold -> "naive"
      [] c.op = "mul" /\ c.n >= Threshold -> "direct"
      [] c.op \in {"vec", "scale"} /\ c.n >= Threshold -> "get_plan"
      [] c.op = "sub" -> "get_plan"

Begin(t) ==
    /\ pc[t] = "idle"
    /\ budget > 0
    /\ \E c \in Calls :
          /\ call' = [call EXCEPT ![t] = c]
          /\ pc' = [pc EXCEPT ![t] = Entry(c)]
    /\ plan' = [plan EXCEPT ![t] = None]
    /\ result' = [result EXCEPT ![t] = None]
    /\ budget' = budget - 1
    /\ UNCHANGED <<plans, images, held>>

Returned(t, value) ==
    /\ result' = [result EXCEPT ![t] = value]
    /\ pc' = [pc EXCEPT ![t] = "idle"]

(* Products that touch no cache.                                           *)
Compute(t) ==
    /\ \/ pc[t] = "naive" /\ Returned(t, NaiveResult(call[t]))
       \/ /\ pc[t] = "direct"
          /\ Returned(t, <<MulNttOptimized(call[t].v[1], call[t].p, call[t].n)>>)
    /\ UNCHANGED <<plans, images, held, call, plan, budget>>

(* The plan is there: scaling returns, the matrix products go on.          *)
WithPlan(t, pl) ==
    /\ plan' = [plan EXCEPT ![t] = pl]
    /\ IF call[t].op = "scale"
       THEN Returned(t, ScaleResult(pl, call[t]))
       ELSE pc' = [pc EXCEPT ![t] = "get_image"] /\ UNCHANGED result

(* NttPlan::for_ring, its lookup and its insertion.                        *)
GetPlan(t) ==
    /\ pc[t] = "get_plan"
    /\ held = None
    /\ plans' = Plans!Counted(plans, call[t].n)
    /\ IF Plans!Has(plans, call[t].n)
       THEN WithPlan(t, plans.map[call[t].n])
       ELSE pc' = [pc EXCEPT ![t] = "put_plan"] /\ UNCHANGED <<plan, result>>
    /\ UNCHANGED <<images, held, call, budget>>

PutPlan(t) ==
    /\ pc[t] = "put_plan"
    /\ held = None
    /\ plans' = Plans!Insert(plans, call[t].n, ForRing(call[t].n))
    /\ WithPlan(t, ForRing(call[t].n))
    /\ UNCHANGED <<images, held, call, budget>>

(* matrix_ntt_representation, then the rows.                               *)
GetImage(t) ==
    LET key == MatrixNttCacheKey(call[t].a, call[t].n) IN
    /\ pc[t] = "get_image"
    /\ images' = Images!Counted(images, key)
    /\ IF Images!Has(images, key)
       THEN Returned(t, ImageResult(plan[t], images.map[key], call[t]))
       ELSE pc' = [pc EXCEPT ![t] = "put_image"] /\ UNCHANGED result
    /\ UNCHANGED <<plans, held, call, plan, budget>>

PutImage(t) ==
    LET image == Transform(plan[t], call[t].a) IN
    /\ pc[t] = "put_image"
    /\ images' = Images!Insert(images, MatrixNttCacheKey(call[t].a, call[t].n), image)
    /\ Returned(t, ImageResult(plan[t], image, call[t]))
    /\ UNCHANGED <<plans, held, call, plan, budget>>

(* clear_mlwe_caches: one guard, then the other.                           *)
Clear(t) ==
    /\ \/ /\ pc[t] = "clear_plans"
          /\ held = None
          /\ plans' = Plans!EmptyCache
          /\ pc' = [pc EXCEPT ![t] = "clear_images"]
          /\ UNCHANGED images
       \/ /\ pc[t] = "clear_images"
          /\ images' = Images!EmptyCache
          /\ pc' = [pc EXCEPT ![t] = "idle"]
          /\ UNCHANGED plans
    /\ UNCHANGED <<held, call, plan, result, budget>>

(* mlwe_cache_stats: the plan guard is a temporary of the tuple, held      *)
(* until the second part has been read and both are dropped.               *)
ReadStats(t) ==
    /\ \/ /\ pc[t] = "stats_plans"
          /\ held = None
          /\ held' = t
          /\ pc' = [pc EXCEPT ![t] = "stats_images"]
          /\ result' = [result EXCEPT ![t] = <<Plans!Stats(plans)>>]
       \/ /\ pc[t] = "stats_images"
          /\ held' = None
          /\ Returned(t, Append(result[t], Images!Stats(images)))
    /\ UNCHANGED <<plans, images, call, plan, budget>>

Done ==
    /\ budget = 0
    /\ \A t \in Threads : pc[t] = "idle"
    /\ UNCHANGED vars

Next ==
    \/ \E t \in Threads :
          \/ Begin(t)
          \/ Compute(t)
          \/ GetPlan(t) \/ PutPlan(t) \/ GetImage(t) \/ PutImage(t)
          \/ Clear(t) \/ ReadStats(t)
    \/ Done

Spec == Init /\ [][Next]_vars

-----------------------------------------------------------------------------

(* The polynomials behind a key.                                           *)
Degree(key) == Cardinality(DOMAIN key.coeffs) \div (key.rows * key.cols)

PolynomialAt(key, i, j) ==
    LET n == Degree(key)
    IN  [x \in 0..(n - 1) |-> key.coeffs[((i - 1) * key.cols + (j - 1)) * n + x]]

(* Whatever threads interleave, insert, evict and clear: the caches are    *)
(* within their bounds, a cached plan is its ring's, and a cached image    *)
(* holds the values of its matrix's polynomials, less than q in size, at   *)
(* the odd powers of psi, so two matrices never answer for each other.     *)
CachesExact ==
    /\ Plans!WellFormed(plans)
    /\ Images!WellFormed(images)
    /\ \A n \in DOMAIN plans.map : plans.map[n] = ForRing(n)
    /\ \A key \in DOMAIN images.map :
          /\ DOMAIN images.map[key] = 1..key.rows
          /\ \A i \in 1..key.rows, j \in 1..key.cols :
                /\ IsImage(images.map[key][i][j], PolynomialAt(key, i, j), Degree(key))
                /\ \A x \in 0..(Degree(key) - 1) :
                      images.map[key][i][j][x] \in (1 - Q)..(Q - 1)

(* The reference: sums of products with X^n = -1, reduced once.            *)
RowOf(c, i) ==
    [x \in 0..(c.n - 1) |->
        LET sum[j \in 0..Len(c.v)] ==
                IF j = 0 THEN 0
                ELSE sum[j - 1] + NegacyclicProduct(c.a[i][j], c.v[j], c.n)[x]
        IN  sum[Len(c.v)]]

ExactProduct(c) ==
    CASE c.op = "vec" -> [i \in DOMAIN c.a |-> [x \in 0..(c.n - 1) |-> RowOf(c, i)[x] % Q]]
      [] c.op = "sub" ->
            [i \in DOMAIN c.a |-> [x \in 0..(c.n - 1) |->
                (RowOf(c, i)[x] - NegacyclicProduct(c.t[i], c.p, c.n)[x]) % Q]]
      [] c.op \in {"scale", "mul"} ->
            [i \in DOMAIN c.v |-> [x \in 0..(c.n - 1) |->
                NegacyclicProduct(c.v[i], c.p, c.n)[x] % Q]]

(* No integer coefficient of a naive product is cut.                       *)
NothingCut(c) ==
    IF c.op = "vec"
    THEN \A i \in DOMAIN c.a, j \in DOMAIN c.v : FitsWord(c.a[i][j], c.v[j], c.n)
    ELSE \A i \in DOMAIN c.v : FitsWord(c.v[i], c.p, c.n)

(* Every product a thread gets back is the exact one, in 0..(q - 1),       *)
(* through the transform and its caches or without; term by term, below    *)
(* the threshold, as long as the integer coefficients fit thirty-two bits  *)
(* and no longer: a coefficient that was cut shows in the product.         *)
ProductsExact ==
    \A t \in Threads :
        /\ pc[t] = "idle"
        /\ call[t] # None
        /\ call[t].op \in {"vec", "sub", "scale", "mul"}
        => (result[t] = ExactProduct(call[t])
               <=> (Entry(call[t]) = "naive" => NothingCut(call[t])))

=============================================================================
