---------------------------- MODULE PolicyCaches ----------------------------
(***************************************************************************)
(* The three process-wide policy caches of src/src/lsss.rs, each behind a  *)
(* mutex of its own, used by any number of threads.  A cached computation  *)
(* looks its key up under the mutex, releases it, computes from the clones *)
(* it holds, and takes the mutex again to insert: between the two other    *)
(* threads look up, insert, evict and clear.  A derivation of a target     *)
(* nests a reconstruction, which nests an LSSS conversion.                 *)
(*                                                                         *)
(* Values are abstracted to what they are computed from.  A policy is the  *)
(* sequence of attributes its matrix rows carry and the sets of rows that  *)
(* reconstruct.  The keys are texts, as in the code: sequences of tokens,  *)
(* where a token is a separator or a piece of text without one.  Nothing   *)
(* keeps a caller from passing an attribute with a separator in it.        *)
(***************************************************************************)
EXTENDS BoundedCache

CONSTANTS
    Threads,
    Policies,
    Unbuildable,    \* the policies whose to_lsss fails or panics
    RowToAttr,      \* policy -> the attribute of each row of its matrix
    Reconstructs,   \* policy -> the sets of rows that have constants
    Before(_, _),   \* the order of the attributes' bytes
    Calls,          \* the calls threads make
    MaxCalls,       \* bound: calls the threads make in all
    None

VARIABLES
    caches,   \* name -> cache
    holder,   \* name -> the thread whose guard outlives a step, or None
    pc,       \* thread -> the next step of its call, <<cache, step>>, or Idle
    call,     \* thread -> its current or last call
    got,      \* thread -> name -> what the call read or computed so far
    budget    \* calls that may still begin

vars == <<caches, holder, pc, call, got, budget>>

-----------------------------------------------------------------------------
(* Calls, keys and values.                                                 *)

Names == {"lsss", "recon", "target"}

Idle == <<"idle", "idle">>

(* op "lsss" is lsss_from_policy_cached, "recon" reconstruction_data_cached*)
(* and "target" derive_policy_target_cached; "clear" and "stats" ignore    *)
(* the arguments.  ring stands for the dimensions k and n.                 *)
ASSUME CallsAssumption ==
    \A c \in Calls :
        /\ c.op \in Names \cup {"clear", "stats"}
        /\ c.policy \in Policies
        /\ DOMAIN c = {"op", "policy", "attrs", "q", "ring", "gid"}

ASSUME MaxCallsAssumption == MaxCalls \in Nat

ASSUME NoneAssumption == None \notin Threads /\ None \notin Calls

(* slice::join, for texts and a separator.                                 *)
Joined(texts, separator) ==
    LET first[n \in 0..Len(texts)] ==
            CASE n = 0 -> <<>>
              [] n = 1 -> texts[1]
              [] n > 1 -> first[n - 1] \o <<separator>> \o texts[n]
    IN  first[Len(texts)]

(* normalize_attributes: sorted and without duplicates.                    *)
Normalized(attrs) ==
    CHOOSE list \in [1..Cardinality(Range(attrs)) -> Range(attrs)] :
        \A i, j \in DOMAIN list : i < j => Before(list[i], list[j])

(* attribute_cache_key: the attributes joined as they are.                 *)
AttributeKey(attrs) == Joined(Normalized(attrs), "\\x1f")

(* Variant: the key of a target leaves out the user it belongs to.         *)
PartsWithoutGid(name, c) ==
    CASE name = "lsss"   -> <<<<c.policy>>>>
      [] name = "recon"  -> <<<<c.policy>>, <<c.q>>, AttributeKey(c.attrs)>>
      [] name = "target" -> <<<<c.policy>>, <<c.q>>, <<c.ring>>, AttributeKey(c.attrs)>>

(* What format! puts into the key under which a call looks a cache up.     *)
Parts(name, c) ==
    CASE name = "lsss"   -> <<<<c.policy>>>>
      [] name = "recon"  -> <<<<c.policy>>, <<c.q>>, AttributeKey(c.attrs)>>
      [] name = "target" -> <<<<c.policy>>, <<c.q>>, <<c.ring>>,
                              AttributeKey(c.attrs), <<c.gid>>>>

(* The keys, each joined once.                                             *)
Keys == [n \in Names |-> [c \in Calls |-> Joined(Parts(n, c), "|")]]

Key(name, c) == Keys[name][c]

(* The bars give the parts of a key back, even when an attribute has bars  *)
(* in it: the canonical text of a parsed policy, the numbers and the       *)
(* hexadecimal user have none, and one part only holds attributes.         *)
ASSUME BarsAssumption ==
    \A n \in Names : \A c, d \in Calls :
        Key(n, c) = Key(n, d) => Parts(n, c) = Parts(n, d)

Refusal == [error |-> "policy error"]

(* policy.to_lsss()                                                        *)
ToLsss(c) ==
    IF c.policy \in Unbuildable THEN Refusal
    ELSE [policy |-> c.policy, row_to_attr |-> RowToAttr[c.policy]]

(* get_reconstruction_constants and the row indices it is for, computed    *)
(* from the matrix at hand: the rows whose attribute the caller has.       *)
Reconstruction(lsss, c) ==
    LET rows == {i \in DOMAIN lsss.row_to_attr : lsss.row_to_attr[i] \in Range(c.attrs)}
    IN  IF rows \in Reconstructs[lsss.policy]
        THEN [policy |-> lsss.policy, q |-> c.q, rows |-> rows]
        ELSE Refusal

(* The sum of the scaled targets of the attributes of those rows.          *)
Target(lsss, recon, c) ==
    [attrs |-> {lsss.row_to_attr[i] : i \in recon.rows}, constants |-> recon,
     ring |-> c.ring, gid |-> c.gid]

(* What a thread computes on a miss, from the clones it holds.             *)
Computed(name, c, clones) ==
    CASE name = "lsss"   -> ToLsss(c)
      [] name = "recon"  -> Reconstruction(clones.lsss, c)
      [] name = "target" -> Target(clones.lsss, clones.recon, c)

(* The uncached answer of a call: each part as soon as the one it needs    *)
(* is there.                                                               *)
DirectRecon(c) ==
    IF ToLsss(c) = Refusal THEN Refusal ELSE Reconstruction(ToLsss(c), c)

DirectTarget(c) ==
    IF DirectRecon(c) = Refusal THEN Refusal ELSE Target(ToLsss(c), DirectRecon(c), c)

Direct(name, c) ==
    CASE name = "lsss"   -> ToLsss(c)
      [] name = "recon"  -> DirectRecon(c)
      [] name = "target" -> DirectTarget(c)

-----------------------------------------------------------------------------
(* Steps.                                                                  *)

Init ==
    /\ caches = [n \in Names |-> EmptyCache]
    /\ holder = [n \in Names |-> None]
    /\ pc = [t \in Threads |-> Idle]
    /\ call = [t \in Threads |-> None]
    /\ got = [t \in Threads |-> [n \in Names |-> None]]
    /\ budget = MaxCalls

Free(name) == holder[name] = None

Entry(op) ==
    CASE op \in {"lsss", "recon"} -> <<"lsss", "get">>
      [] op = "target"            -> <<"target", "get">>
      [] op = "clear"             -> <<"lsss", "clear">>
      [] op = "stats"             -> <<"lsss", "stats">>

(* Where a call goes on once it holds the value of a cache.                *)
After(op, name) ==
    CASE name = op                       -> Idle
      [] name = "lsss" /\ op # "lsss"    -> <<"recon", "get">>
      [] name = "recon" /\ op = "target" -> <<"target", "put">>

(* Where a lookup that missed goes on: a target needs the reconstruction,  *)
(* the other two are computed and inserted at once.                        *)
Missed(name) == IF name = "target" THEN <<"lsss", "get">> ELSE <<name, "put">>

Begin(t) ==
    /\ pc[t] = Idle
    /\ budget > 0
    /\ \E c \in Calls :
          /\ call' = [call EXCEPT ![t] = c]
          /\ pc' = [pc EXCEPT ![t] = Entry(c.op)]
    /\ got' = [got EXCEPT ![t] = [n \in Names |-> None]]
    /\ budget' = budget - 1
    /\ UNCHANGED <<caches, holder>>

(* lock_or_recover(cache).get_cloned(key)                                  *)
Lookup(t, name) ==
    LET key == Key(name, call[t]) IN
    /\ pc[t] = <<name, "get">>
    /\ Free(name)
    /\ caches' = [caches EXCEPT ![name] = Counted(@, key)]
    /\ IF Has(caches[name], key)
       THEN /\ got' = [got EXCEPT ![t][name] = caches[name].map[key]]
            /\ pc' = [pc EXCEPT ![t] = After(call[t].op, name)]
       ELSE /\ pc' = [pc EXCEPT ![t] = Missed(name)]
            /\ UNCHANGED got
    /\ UNCHANGED <<holder, call, budget>>

(* Variant: the insertion uses the key of the policy in every cache.       *)
StoreUnderPolicyKey(t, name) ==
    LET value == Computed(name, call[t], got[t]) IN
    /\ pc[t] = <<name, "put">>
    /\ value # Refusal
    /\ Free(name)
    /\ caches' = [caches EXCEPT ![name] = Insert(@, Key("lsss", call[t]), value)]
    /\ got' = [got EXCEPT ![t][name] = value]
    /\ pc' = [pc EXCEPT ![t] = After(call[t].op, name)]
    /\ UNCHANGED <<holder, call, budget>>

(* The computation succeeded: lock_or_recover(cache).insert(key, value).   *)
Store(t, name) ==
    LET value == Computed(name, call[t], got[t]) IN
    /\ pc[t] = <<name, "put">>
    /\ value # Refusal
    /\ Free(name)
    /\ caches' = [caches EXCEPT ![name] = Insert(@, Key(name, call[t]), value)]
    /\ got' = [got EXCEPT ![t][name] = value]
    /\ pc' = [pc EXCEPT ![t] = After(call[t].op, name)]
    /\ UNCHANGED <<holder, call, budget>>

(* The policy has no matrix, or the attributes have no constants: the      *)
(* error goes up to the caller and nothing is inserted.                    *)
Refuse(t, name) ==
    /\ pc[t] = <<name, "put">>
    /\ Computed(name, call[t], got[t]) = Refusal
    /\ got' = [got EXCEPT ![t][call[t].op] = Refusal]
    /\ pc' = [pc EXCEPT ![t] = Idle]
    /\ UNCHANGED <<caches, holder, call, budget>>

(* The order in which clear and stats take the three mutexes.              *)
Following(name, step) ==
    CASE name = "lsss"  -> <<"recon", step>>
      [] name = "recon" -> <<"target", step>>
      [] name = "target" -> IF step = "stats" THEN <<"target", "unlock">> ELSE Idle

(* clear_policy_caches: each guard is dropped before the next is taken.    *)
Clear(t, name) ==
    /\ pc[t] = <<name, "clear">>
    /\ Free(name)
    /\ caches' = [caches EXCEPT ![name] = EmptyCache]
    /\ pc' = [pc EXCEPT ![t] = Following(name, "clear")]
    /\ UNCHANGED <<holder, call, got, budget>>

(* Variant: each guard is dropped before the next is taken.                *)
ReadStatsUnheld(t, name) ==
    /\ pc[t] = <<name, "stats">>
    /\ Free(name)
    /\ got' = [got EXCEPT ![t][name] = Stats(caches[name])]
    /\ pc' = [pc EXCEPT ![t] = Following(name, "stats")]
    /\ UNCHANGED <<caches, holder, call, budget>>

(* policy_cache_stats: the guards are temporaries of one expression, so    *)
(* each is held until the whole tuple is built.                            *)
ReadStats(t, name) ==
    /\ pc[t] = <<name, "stats">>
    /\ Free(name)
    /\ holder' = [holder EXCEPT ![name] = t]
    /\ got' = [got EXCEPT ![t][name] = Stats(caches[name])]
    /\ pc' = [pc EXCEPT ![t] = Following(name, "stats")]
    /\ UNCHANGED <<caches, call, budget>>

(* Variant: only the last guard is dropped.                                *)
UnlockLast(t, name) ==
    /\ pc[t] = <<name, "unlock">>
    /\ holder' = [holder EXCEPT ![name] = None]
    /\ pc' = [pc EXCEPT ![t] = Idle]
    /\ UNCHANGED <<caches, call, got, budget>>

(* The temporaries are dropped in reverse order.                           *)
Unlock(t, name) ==
    /\ pc[t] = <<name, "unlock">>
    /\ holder' = [holder EXCEPT ![name] = None]
    /\ pc' = [pc EXCEPT ![t] = CASE name = "target" -> <<"recon", "unlock">>
                                 [] name = "recon"  -> <<"lsss", "unlock">>
                                 [] name = "lsss"   -> Idle]
    /\ UNCHANGED <<caches, call, got, budget>>

Step(t) ==
    \/ \E n \in Names : Lookup(t, n) \/ Store(t, n) \/ Refuse(t, n)
    \/ \E n \in Names : Clear(t, n) \/ ReadStats(t, n) \/ Unlock(t, n)

(* Every call has been made and has returned.                              *)
Done ==
    /\ budget = 0
    /\ \A t \in Threads : pc[t] = Idle
    /\ UNCHANGED vars

Next ==
    \/ \E t \in Threads : Begin(t) \/ Step(t)
    \/ Done

(* The scheduler runs every thread that can take a step of a call.         *)
Spec == Init /\ [][Next]_vars /\ \A t \in Threads : WF_vars(Step(t))

-----------------------------------------------------------------------------
(* Properties.                                                             *)

Steps == {"get", "put", "clear", "stats", "unlock"}

TypeOK ==
    /\ DOMAIN caches = Names
    /\ \A n \in Names :
          /\ DOMAIN caches[n] = {"map", "order", "hits", "misses"}
          /\ DOMAIN caches[n].map \subseteq {Key(n, c) : c \in Calls}
          /\ caches[n].hits \in Nat
          /\ caches[n].misses \in Nat
    /\ holder \in [Names -> Threads \cup {None}]
    /\ pc \in [Threads -> (Names \X Steps) \cup {Idle}]
    /\ call \in [Threads -> Calls \cup {None}]
    /\ DOMAIN got = Threads
    /\ \A t \in Threads : DOMAIN got[t] = Names
    /\ budget \in 0..MaxCalls

(* Whatever the threads interleave, every cache lists its keys once and    *)
(* stays within its capacity.                                              *)
CachesWellFormed == \A n \in Names : WellFormed(caches[n])

(* The call with the attributes of another one.                            *)
WithAttrs(c, d) == [c EXCEPT !.attrs = d.attrs]

(* The calls whose attributes read like those of a call.                   *)
Alike == [c \in Calls |-> {d \in Calls : AttributeKey(d.attrs) = AttributeKey(c.attrs)}]

(* No other list of attributes reads like that of the call.                *)
Unambiguous(c) == \A d \in Alike[c] : Range(d.attrs) = Range(c.attrs)

(* Caches never mix up policies, moduli, dimensions or users, nor lists of *)
(* attributes but for those whose joined texts coincide, whoever filled,   *)
(* evicted or cleared them meanwhile: a cached call answers what the       *)
(* uncached computation answers for a list of attributes that reads the    *)
(* same, and its own answer, refusals included, when no other list does.   *)
AnswersAreDirect ==
    \A t \in Threads :
        pc[t] = Idle /\ call[t] # None =>
            LET op == call[t].op
            IN  op \in Names =>
                    /\ \E d \in Alike[call[t]] :
                          got[t][op] = Direct(op, WithAttrs(call[t], d))
                    /\ Unambiguous(call[t]) => got[t][op] = Direct(op, call[t])

(* policy_cache_stats describes one moment: when its tuple is complete,    *)
(* the three parts are the statistics of the caches at that moment.        *)
StatsAreOneMoment ==
    \A t \in Threads :
        pc[t] = <<"target", "unlock">> =>
            \A n \in Names : got[t][n] = Stats(caches[n])

(* An insertion never evicts what it inserts.                              *)
InsertedIsKept ==
    [][\A t \in Threads, n \in Names :
          Store(t, n) => Has(caches'[n], Key(n, call[t]))]_vars

(* Every call returns: no order of lookups, clears and statistics leaves   *)
(* threads waiting for each other's guards.                                *)
EveryCallReturns ==
    \A t \in Threads : pc[t] # Idle ~> pc[t] = Idle

=============================================================================
