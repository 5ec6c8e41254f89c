--------------------------- MODULE LegacyKeyProofs ---------------------------
(***************************************************************************)
(* Proofs about LegacyKey, for every capacity, set of tags, set of batches *)
(* and set of slots.  The inductive invariant ties each copy of the tree   *)
(* to the history of the punctures it should reflect: the structured copy  *)
(* to the punctures made through UserSecretKey, the legacy copy to those   *)
(* made through either API.  Of a running batch it says how far the tree   *)
(* it works on has come.                                                   *)
(***************************************************************************)
EXTENDS LegacyKey, TLAPS

-----------------------------------------------------------------------------
(* The inductive invariant.                                                *)

KeyReflects(k, history) ==
    /\ k.puncture_tree.tags = history
    /\ k.puncture_count = k.puncture_tree.count

MapReflects(map, history) ==
    /\ KeyReflects(map.sk_struct, history.structured)
    /\ map.puncture_tree.tags = history.structured \cup history.legacy
    /\ map.puncture_count = map.puncture_tree.count

(* The tags a call has punctured so far.                                   *)
Behind(call) == {call.taus[i] : i \in 1..(call.next - 1)}

(* The map a call works on still lies where it was borrowed, and the tree  *)
(* has the tags behind, all of them in range, and no others more.          *)
BatchOnTrack ==
    batch # None =>
        /\ maps[batch.from] = batch.punctured_sk
        /\ batch.next \in 1..(Len(batch.taus) + 1)
        /\ \A t \in Behind(batch) : InRange(t)
        /\ batch.tree.tags = batch.punctured_sk.puncture_tree.tags \cup Behind(batch)

MapsReflect == \A s \in Slots : maps[s] # None => MapReflects(maps[s], map_history[s])

IInv ==
    /\ TypeOK
    /\ KeyReflects(key, key_history)
    /\ MapsReflect
    /\ BatchOnTrack
    /\ ForwardSecure

-----------------------------------------------------------------------------
(* Lemmas about the operators.                                             *)

LEMMA PunctureTagType ==
    ASSUME NEW tree \in Tree, NEW tag \in Tags, InRange(tag)
    PROVE  PunctureTag(tree, tag) \in Tree
  BY DEF Tree, PunctureTag, InRange

(* Both APIs of puncture.rs return a map of the right shape whose legacy   *)
(* copy, and only it, has the tags added.                                  *)
LEMMA PuncturedMap ==
    ASSUME NEW map \in LegacyMap, NEW history \in History, MapReflects(map, history),
           NEW tree \in Tree, NEW tags \in SUBSET Tags,
           tree.tags = map.puncture_tree.tags \cup tags
    PROVE  /\ WithTree(map, tree) \in LegacyMap
           /\ Revoked(history, tags) \in History
           /\ MapReflects(WithTree(map, tree), Revoked(history, tags))
  <1>1. WithTree(map, tree) \in LegacyMap
    BY DEF LegacyMap, WithTree, Tree
  <1>2. Revoked(history, tags) \in History
    BY DEF Revoked, History
  <1>3. MapReflects(WithTree(map, tree), Revoked(history, tags))
    BY DEF MapReflects, KeyReflects, WithTree, Revoked, LegacyMap, History
  <1> QED
    BY <1>1, <1>2, <1>3

(* One turn of the loop.                                                   *)
Turned(call, tree) == [call EXCEPT !.tree = tree, !.next = @ + 1]

LEMMA TurnedCall ==
    ASSUME NEW call \in BatchCall, NEW tree \in Tree
    PROVE  /\ Turned(call, tree) \in BatchCall
           /\ Turned(call, tree).tree = tree
           /\ Turned(call, tree).next = call.next + 1
           /\ Turned(call, tree).taus = call.taus
           /\ Turned(call, tree).from = call.from
           /\ Turned(call, tree).punctured_sk = call.punctured_sk
  <1>1. call.next + 1 \in Nat
    BY DEF BatchCall
  <1> QED
    BY <1>1 DEF Turned, BatchCall

(* It puts one more tag behind.                                            *)
LEMMA OneMoreBehind ==
    ASSUME NEW call \in BatchCall, NEW tree \in Tree, call.next \in 1..Len(call.taus)
    PROVE  Behind(Turned(call, tree)) = Behind(call) \cup {call.taus[call.next]}
  <1> DEFINE turned == Turned(call, tree)
  <1>1. turned.taus = call.taus /\ turned.next = call.next + 1
    BY TurnedCall
  <1>2. call.taus \in Seq(Tags)
    BY BatchesAssumption DEF BatchCall
  <1>3. 1..(turned.next - 1) = 1..(call.next - 1) \cup {call.next}
    BY <1>1, <1>2
  <1> QED
    BY <1>1, <1>3 DEF Behind

(* A call that has punctured its last tag has all of them behind.          *)
LEMMA AllBehind ==
    ASSUME NEW call \in BatchCall, call.next = Len(call.taus) + 1
    PROVE  Behind(call) = Range(call.taus)
  <1>1. call.taus \in Seq(Tags)
    BY BatchesAssumption DEF BatchCall
  <1> QED
    BY <1>1 DEF Behind, Range

LEMMA FreshMap ==
    /\ FreshKey \in StructuredKey
    /\ KeyReflects(FreshKey, {})
    /\ [structured |-> {}, legacy |-> {}] \in History
  BY DEF FreshKey, EmptyTree, StructuredKey, Tree, KeyReflects, History

(* A structured key keeps its meaning when it is written to a legacy map.  *)
LEMMA ExportedMap ==
    ASSUME NEW k \in StructuredKey, NEW history \in SUBSET Tags, KeyReflects(k, history)
    PROVE  /\ ToLegacyMap(k) \in LegacyMap
           /\ [structured |-> history, legacy |-> {}] \in History
           /\ MapReflects(ToLegacyMap(k), [structured |-> history, legacy |-> {}])
  BY DEF ToLegacyMap, LegacyMap, StructuredKey, History, MapReflects, KeyReflects

(* Storing a map that reflects its history keeps the conjuncts of IInv     *)
(* that speak of the slots.                                                *)
LEMMA StoredMap ==
    ASSUME IInv, NEW slot \in Slots, NEW map \in LegacyMap, NEW history \in History,
           MapReflects(map, history), Store(slot, map, history)
    PROVE  /\ maps' \in [Slots -> LegacyMap \cup {None}]
           /\ map_history' \in [Slots -> History]
           /\ MapsReflect'
  <1>1. maps' \in [Slots -> LegacyMap \cup {None}] /\ map_history' \in [Slots -> History]
    BY DEF IInv, TypeOK, Store
  <1>2. ASSUME NEW s \in Slots, maps'[s] # None
        PROVE  MapReflects(maps'[s], map_history'[s])
    <2>1. CASE s = slot
      <3>1. maps'[s] = map /\ map_history'[s] = history
        BY <2>1 DEF IInv, TypeOK, Store
      <3> QED
        BY <3>1
    <2>2. CASE s # slot
      <3>1. maps'[s] = maps[s] /\ map_history'[s] = map_history[s]
        BY <2>2 DEF IInv, TypeOK, Store
      <3> QED
        BY <3>1, <1>2 DEF IInv, MapsReflect
    <2> QED
      BY <2>1, <2>2
  <1> QED
    BY <1>1, <1>2 DEF MapsReflect

(* An action that only stores such a map keeps all of IInv, if it stores   *)
(* it where no batch is at work or is the end of the batch.                *)
LEMMA StoreKeepsIInv ==
    ASSUME IInv, NEW slot \in Slots, NEW map \in LegacyMap, NEW history \in History,
           MapReflects(map, history), Store(slot, map, history),
           UNCHANGED <<key, key_history, signed>>,
           batch' = None \/ (UNCHANGED batch /\ Unborrowed(slot))
    PROVE  IInv'
  <1>1. TypeOK'
    BY StoredMap DEF IInv, TypeOK
  <1>2. KeyReflects(key, key_history)' /\ ForwardSecure'
    BY DEF IInv, KeyReflects, ForwardSecure
  <1>3. MapsReflect'
    BY StoredMap
  <1>4. ASSUME batch' # None
        PROVE  UNCHANGED batch /\ batch \in BatchCall /\ maps'[batch.from] = maps[batch.from]
    BY <1>4 DEF IInv, TypeOK, Store, Unborrowed, BatchCall
  <1>5. BatchOnTrack'
    BY <1>4 DEF IInv, BatchOnTrack, Behind, InRange
  <1> QED
    BY <1>1, <1>2, <1>3, <1>5 DEF IInv

(* An action that leaves maps and batch alone keeps what IInv says of them.*)
LEMMA NothingStored ==
    ASSUME IInv, UNCHANGED <<maps, batch, map_history>>
    PROVE  MapsReflect' /\ BatchOnTrack'
  BY DEF IInv, MapsReflect, BatchOnTrack, Behind, InRange

-----------------------------------------------------------------------------
(* Each action keeps the invariant.                                        *)

LEMMA InitIInv == Init => IInv
  <1> SUFFICES ASSUME Init PROVE IInv
    OBVIOUS
  <1>1. TypeOK
    BY FreshMap DEF Init, TypeOK
  <1>2. KeyReflects(key, key_history)
    BY FreshMap DEF Init
  <1>3. ForwardSecure /\ MapsReflect /\ BatchOnTrack
    BY DEF Init, ForwardSecure, MapsReflect, BatchOnTrack
  <1> QED
    BY <1>1, <1>2, <1>3 DEF IInv

LEMMA PunctureStep ==
    ASSUME IInv, NEW tag \in Tags, Puncture(tag)
    PROVE  IInv'
  <1>1. PunctureTag(key.puncture_tree, tag) \in Tree
    BY PunctureTagType DEF IInv, TypeOK, StructuredKey, Puncture
  <1>2. key' \in StructuredKey
    BY <1>1 DEF IInv, TypeOK, StructuredKey, Puncture
  <1>3. TypeOK'
    BY <1>2 DEF IInv, TypeOK, Puncture
  <1>4. KeyReflects(key, key_history)'
    BY DEF IInv, TypeOK, KeyReflects, Puncture, PunctureTag, StructuredKey, Tree
  <1>5. ForwardSecure'
    BY DEF IInv, ForwardSecure, Puncture
  <1>6. MapsReflect' /\ BatchOnTrack'
    BY NothingStored DEF Puncture
  <1> QED
    BY <1>3, <1>4, <1>5, <1>6 DEF IInv

LEMMA SignStructuredStep ==
    ASSUME IInv, NEW tag \in Tags, SignStructured(tag)
    PROVE  IInv'
  <1>1. <<tag, [structured |-> key_history, legacy |-> {}]>> \in Tags \X History
    BY DEF IInv, TypeOK, History
  <1>2. TypeOK'
    BY <1>1 DEF IInv, TypeOK, SignStructured
  <1>3. ForwardSecure'
    BY DEF IInv, KeyReflects, ForwardSecure, SignStructured
  <1>4. MapsReflect' /\ BatchOnTrack'
    BY NothingStored DEF SignStructured
  <1> QED
    BY <1>2, <1>3, <1>4 DEF IInv, KeyReflects, SignStructured

(* A map in a slot is what its history says.                               *)
LEMMA MapAt ==
    ASSUME IInv, NEW slot \in Slots, maps[slot] # None
    PROVE  /\ maps[slot] \in LegacyMap
           /\ map_history[slot] \in History
           /\ MapReflects(maps[slot], map_history[slot])
  BY DEF IInv, TypeOK, MapsReflect

LEMMA ImportStep ==
    ASSUME IInv, NEW slot \in Slots, Import(slot)
    PROVE  IInv'
  <1>1. /\ maps[slot] \in LegacyMap
        /\ map_history[slot] \in History
        /\ MapReflects(maps[slot], map_history[slot])
    BY MapAt DEF Import
  <1>2. TypeOK'
    BY <1>1 DEF IInv, TypeOK, Import, LegacyMap, History
  <1>3. KeyReflects(key, key_history)'
    BY <1>1 DEF MapReflects, KeyReflects, Import
  <1>4. MapsReflect' /\ BatchOnTrack'
    BY NothingStored DEF Import
  <1> QED
    BY <1>2, <1>3, <1>4 DEF IInv, ForwardSecure, Import

LEMMA LegacySignStep ==
    ASSUME IInv, NEW slot \in Slots, NEW tag \in Tags, LegacySign(slot, tag)
    PROVE  IInv'
  <1>1. /\ maps[slot] \in LegacyMap
        /\ map_history[slot] \in History
        /\ MapReflects(maps[slot], map_history[slot])
    BY MapAt DEF LegacySign
  <1>2. TypeOK'
    BY <1>1 DEF IInv, TypeOK, LegacySign
  <1>3. ForwardSecure'
    BY <1>1 DEF MapReflects, KeyReflects, ForwardSecure, LegacySign
  <1>4. MapsReflect' /\ BatchOnTrack'
    BY NothingStored DEF LegacySign
  <1> QED
    BY <1>2, <1>3, <1>4 DEF IInv, KeyReflects, LegacySign

LEMMA LegacyPunctureStep ==
    ASSUME IInv, NEW from \in Slots, NEW to \in Slots, NEW tag \in Tags,
           LegacyPuncture(from, to, tag)
    PROVE  IInv'
  <1> DEFINE old  == maps[from].puncture_tree
             tree == PunctureTag(old, tag)
  <1>1. /\ maps[from] \in LegacyMap
        /\ MapReflects(maps[from], map_history[from])
        /\ map_history[from] \in History
    BY MapAt DEF LegacyPuncture
  <1>2. old \in Tree
    BY <1>1 DEF LegacyMap
  <1>3. tree \in Tree /\ tree.tags = old.tags \cup {tag}
    BY <1>2, PunctureTagType DEF LegacyPuncture, PunctureTag, Tree
  <1>4. /\ WithTree(maps[from], tree) \in LegacyMap
        /\ Revoked(map_history[from], {tag}) \in History
        /\ MapReflects(WithTree(maps[from], tree), Revoked(map_history[from], {tag}))
    BY <1>1, <1>3, PuncturedMap
  <1> QED
    BY <1>4, StoreKeepsIInv DEF LegacyPuncture

-----------------------------------------------------------------------------
(* The steps of a batch.                                                   *)

LEMMA BeginBatchStep ==
    ASSUME IInv, NEW from \in Slots, NEW taus \in Batches, BeginBatch(from, taus)
    PROVE  IInv'
  <1>1. maps[from] \in LegacyMap
    BY MapAt DEF BeginBatch
  <1>2. batch' \in BatchCall
    BY <1>1 DEF BeginBatch, BatchCall, LegacyMap
  <1>3. TypeOK'
    BY <1>2 DEF IInv, TypeOK, BeginBatch
  <1>4. taus \in Seq(Tags)
    BY BatchesAssumption
  <1>5. batch'.next = 1 /\ Behind(batch') = {}
    BY DEF BeginBatch, Behind
  <1>6. BatchOnTrack'
    BY <1>4, <1>5 DEF BeginBatch, BatchOnTrack
  <1> QED
    BY <1>3, <1>6 DEF IInv, BeginBatch, KeyReflects, MapsReflect, ForwardSecure

(* After a turn of the loop the call is still running.                     *)
LEMMA StillRunning ==
    ASSUME IInv, PunctureNext
    PROVE  batch' \in BatchCall
  <1>1. batch \in BatchCall /\ batch.taus \in Seq(Tags) /\ batch.tree \in Tree
    BY BatchesAssumption DEF IInv, TypeOK, PunctureNext, Looping, BatchCall
  <1>2. batch.next \in 1..Len(batch.taus)
    BY <1>1 DEF IInv, BatchOnTrack, PunctureNext, Looping
  <1>3. PunctureTag(batch.tree, NextTau) \in Tree
    BY <1>1, <1>2, PunctureTagType DEF NextTau, PunctureNext
  <1>4. batch' = Turned(batch, PunctureTag(batch.tree, NextTau))
    BY DEF PunctureNext, Turned
  <1> QED
    BY <1>1, <1>3, <1>4, TurnedCall

LEMMA PunctureNextStep ==
    ASSUME IInv, PunctureNext
    PROVE  IInv'
  <1> DEFINE tree == PunctureTag(batch.tree, NextTau)
  <1>1. batch \in BatchCall /\ batch.taus \in Seq(Tags) /\ batch.tree \in Tree
    BY BatchesAssumption DEF IInv, TypeOK, PunctureNext, Looping, BatchCall
  <1>2. batch.next \in 1..Len(batch.taus)
    BY <1>1 DEF IInv, BatchOnTrack, PunctureNext, Looping
  <1>3. NextTau \in Tags /\ InRange(NextTau)
    BY <1>1, <1>2 DEF NextTau, PunctureNext
  <1>4. tree \in Tree /\ tree.tags = batch.tree.tags \cup {NextTau}
    BY <1>1, <1>3, PunctureTagType DEF PunctureTag, Tree
  <1>5. batch' = Turned(batch, tree)
    BY DEF PunctureNext, Turned
  <1>6. /\ batch'.tree = tree /\ batch'.next = batch.next + 1
        /\ batch'.taus = batch.taus /\ batch'.from = batch.from
        /\ batch'.punctured_sk = batch.punctured_sk
        /\ batch' \in BatchCall
    BY <1>1, <1>4, <1>5, TurnedCall
  <1>7. Behind(batch') = Behind(batch) \cup {NextTau}
    BY <1>1, <1>2, <1>4, <1>5, OneMoreBehind DEF NextTau
  <1>8. /\ maps[batch.from] = batch.punctured_sk
        /\ \A t \in Behind(batch) : InRange(t)
        /\ batch.tree.tags = batch.punctured_sk.puncture_tree.tags \cup Behind(batch)
    BY DEF IInv, BatchOnTrack, PunctureNext, Looping
  <1>9. \A t \in Behind(batch') : InRange(t)
    BY <1>3, <1>7, <1>8
  <1>10. batch'.next \in 1..(Len(batch'.taus) + 1)
    BY <1>1, <1>2, <1>6
  <1>11. batch'.tree.tags = batch'.punctured_sk.puncture_tree.tags \cup Behind(batch')
    BY <1>4, <1>6, <1>7, <1>8
  <1>12. BatchOnTrack'
    BY <1>6, <1>8, <1>9, <1>10, <1>11 DEF BatchOnTrack, PunctureNext, InRange
  <1>13. TypeOK'
    BY <1>6 DEF IInv, TypeOK, PunctureNext
  <1> QED
    BY <1>12, <1>13 DEF IInv, PunctureNext, KeyReflects, MapsReflect, ForwardSecure

LEMMA FailBatchStep ==
    ASSUME IInv, FailBatch
    PROVE  IInv'
  BY DEF IInv, TypeOK, FailBatch, KeyReflects, MapsReflect, BatchOnTrack, ForwardSecure

(* What a call returns when its loop is over.                              *)
LEMMA Finished ==
    ASSUME IInv, batch # None, ~Looping
    PROVE  /\ batch \in BatchCall
           /\ maps[batch.from] = batch.punctured_sk /\ maps[batch.from] # None
           /\ Range(batch.taus) \in SUBSET Tags
           /\ \A t \in Range(batch.taus) : InRange(t)
           /\ batch.tree.tags = batch.punctured_sk.puncture_tree.tags \cup Range(batch.taus)
  <1>1. batch \in BatchCall /\ batch.taus \in Seq(Tags)
    BY BatchesAssumption DEF IInv, TypeOK, BatchCall
  <1>2. batch.next = Len(batch.taus) + 1
    BY <1>1 DEF IInv, BatchOnTrack, Looping
  <1>3. Behind(batch) = Range(batch.taus)
    BY <1>1, <1>2, AllBehind
  <1>4. batch.punctured_sk \in LegacyMap
    BY <1>1 DEF BatchCall
  <1>5. Range(batch.taus) \in SUBSET Tags
    BY <1>1 DEF Range
  <1> QED
    BY <1>1, <1>3, <1>4, <1>5, NoneAssumption DEF IInv, BatchOnTrack

LEMMA FinishBatchStep ==
    ASSUME IInv, NEW to \in Slots, FinishBatch(to)
    PROVE  IInv'
  <1> DEFINE map     == WithTree(batch.punctured_sk, batch.tree)
             history == Revoked(map_history[batch.from], Range(batch.taus))
  <1>1. /\ batch \in BatchCall
        /\ maps[batch.from] = batch.punctured_sk /\ maps[batch.from] # None
        /\ Range(batch.taus) \in SUBSET Tags
        /\ batch.tree.tags = batch.punctured_sk.puncture_tree.tags \cup Range(batch.taus)
    BY Finished DEF FinishBatch
  <1>2. batch.from \in Slots /\ batch.tree \in Tree
    BY <1>1 DEF BatchCall
  <1>3. /\ batch.punctured_sk \in LegacyMap
        /\ map_history[batch.from] \in History
        /\ MapReflects(batch.punctured_sk, map_history[batch.from])
    BY <1>1, <1>2, MapAt
  <1>4. map \in LegacyMap /\ history \in History /\ MapReflects(map, history)
    BY <1>1, <1>2, <1>3, PuncturedMap
  <1> QED
    BY <1>4, StoreKeepsIInv DEF FinishBatch

LEMMA NextIInv == IInv /\ [Next]_vars => IInv'
  <1> SUFFICES ASSUME IInv, [Next]_vars PROVE IInv'
    OBVIOUS
  <1>1. CASE UNCHANGED vars
    <2>1. MapsReflect' /\ BatchOnTrack'
      BY <1>1, NothingStored DEF vars
    <2> QED
      BY <1>1, <2>1 DEF vars, IInv, TypeOK, KeyReflects, ForwardSecure
  <1>2. ASSUME NEW tag \in Tags, Puncture(tag) \/ SignStructured(tag) PROVE IInv'
    BY <1>2, PunctureStep, SignStructuredStep
  <1>3. ASSUME NEW s \in Slots, TryKeygen(s) PROVE IInv'
    BY <1>3, FreshMap, ExportedMap, StoreKeepsIInv DEF TryKeygen
  <1>4. ASSUME NEW s \in Slots, Export(s) PROVE IInv'
    <2>1. key \in StructuredKey /\ key_history \in SUBSET Tags /\ KeyReflects(key, key_history)
      BY DEF IInv, TypeOK
    <2> QED
      BY <1>4, <2>1, ExportedMap, StoreKeepsIInv DEF Export
  <1>5. ASSUME NEW s \in Slots, Import(s) PROVE IInv'
    BY <1>5, ImportStep
  <1>6. ASSUME NEW from \in Slots, NEW to \in Slots, NEW tag \in Tags,
               LegacyPuncture(from, to, tag)
        PROVE  IInv'
    BY <1>6, LegacyPunctureStep
  <1>7. ASSUME NEW from \in Slots, NEW taus \in Batches, BeginBatch(from, taus) PROVE IInv'
    BY <1>7, BeginBatchStep
  <1>8. CASE PunctureNext \/ FailBatch
    BY <1>8, PunctureNextStep, FailBatchStep
  <1>9. ASSUME NEW to \in Slots, FinishBatch(to) PROVE IInv'
    BY <1>9, FinishBatchStep
  <1>10. ASSUME NEW s \in Slots, NEW tag \in Tags, LegacySign(s, tag) PROVE IInv'
    BY <1>10, LegacySignStep
  <1> QED
    BY <1>1, <1>2, <1>3, <1>4, <1>5, <1>6, <1>7, <1>8, <1>9, <1>10 DEF Next

(* The invariant holds in every reachable state.                           *)
THEOREM Invariance == Spec => []IInv
  BY InitIInv, NextIInv, PTL DEF Spec

-----------------------------------------------------------------------------
(* The properties.                                                         *)

(* Every key and every map the APIs produce is well formed.                *)
THEOREM TypeCorrect == Spec => []TypeOK
  <1>1. IInv => TypeOK
    BY DEF IInv
  <1> QED
    BY <1>1, Invariance, PTL

(* A tag revoked through UserSecretKey::puncture is never signed under     *)
(* again, on any path between the two representations.                     *)
THEOREM StructuredForwardSecurity == Spec => []ForwardSecure
  <1>1. IInv => ForwardSecure
    BY DEF IInv
  <1> QED
    BY <1>1, Invariance, PTL

(* verify_with_local_puncture_state refuses exactly the revoked tags, and  *)
(* its consistency check never fires on a map the APIs produced.           *)
THEOREM LocalCheckCorrect == Spec => []LocalCheckExact
  <1>1. IInv => LocalCheckExact
    <2> SUFFICES ASSUME IInv, NEW s \in Slots, maps[s] # None, NEW tag \in Tags
                 PROVE  LocalVerdict(maps[s], tag) =
                            IF ~InRange(tag) THEN "out of range"
                            ELSE IF tag \in map_history[s].structured \cup map_history[s].legacy
                            THEN "punctured" ELSE "verify"
      BY DEF LocalCheckExact
    <2>1. MapReflects(maps[s], map_history[s])
      BY DEF IInv, MapsReflect
    <2> QED
      BY <2>1 DEF MapReflects, LocalVerdict
  <1> QED
    BY <1>1, Invariance, PTL

(* A call that fails has a bad tag in its batch, and left the map alone.   *)
LEMMA FailureLeavesNothing ==
    ASSUME IInv, FailBatch
    PROVE  /\ ~\A t \in Range(batch.taus) : InRange(t)
           /\ maps' = maps /\ maps'[batch.from] = batch.punctured_sk
  <1>1. batch \in BatchCall /\ batch.taus \in Seq(Tags)
    BY BatchesAssumption DEF IInv, TypeOK, FailBatch, Looping, BatchCall
  <1>2. batch.next \in 1..Len(batch.taus)
    BY <1>1 DEF IInv, BatchOnTrack, FailBatch, Looping
  <1>3. NextTau \in Range(batch.taus)
    BY <1>1, <1>2 DEF NextTau, Range
  <1>4. maps[batch.from] = batch.punctured_sk
    BY DEF IInv, BatchOnTrack, FailBatch, Looping
  <1> QED
    BY <1>3, <1>4 DEF FailBatch

(* A call that succeeds has only good tags in its batch, and returned all  *)
(* of them.                                                                *)
LEMMA SuccessHasAll ==
    ASSUME IInv, NEW to \in Slots, FinishBatch(to)
    PROVE  /\ \A t \in Range(batch.taus) : InRange(t)
           /\ maps'[to] # None
           /\ maps'[to].sk_struct = batch.punctured_sk.sk_struct
           /\ maps'[to].puncture_tree.tags
                  = batch.punctured_sk.puncture_tree.tags \cup Range(batch.taus)
           /\ maps'[to].puncture_count = maps'[to].puncture_tree.count
           /\ \A s \in Slots \ {to} : maps'[s] = maps[s]
           /\ to # batch.from => maps'[batch.from] = batch.punctured_sk
  <1> DEFINE map == WithTree(batch.punctured_sk, batch.tree)
  <1>1. /\ batch \in BatchCall
        /\ maps[batch.from] = batch.punctured_sk
        /\ \A t \in Range(batch.taus) : InRange(t)
        /\ batch.tree.tags = batch.punctured_sk.puncture_tree.tags \cup Range(batch.taus)
    BY Finished DEF FinishBatch
  <1>2. batch.punctured_sk \in LegacyMap /\ batch.tree \in Tree /\ batch.from \in Slots
    BY <1>1 DEF BatchCall
  <1>3. /\ map \in LegacyMap
        /\ map.sk_struct = batch.punctured_sk.sk_struct
        /\ map.puncture_tree = batch.tree /\ map.puncture_count = batch.tree.count
    BY <1>2 DEF WithTree, LegacyMap, Tree
  <1>4. maps'[to] = map /\ \A s \in Slots \ {to} : maps'[s] = maps[s]
    BY DEF IInv, TypeOK, FinishBatch, Store
  <1> QED
    BY <1>1, <1>2, <1>3, <1>4, NoneAssumption

(* puncture_multiple is all or nothing: the tags it punctured before it    *)
(* met one beyond the capacity leave no trace, and a batch that succeeds   *)
(* is in the map it returns as a whole, for every batch and every          *)
(* interleaving with the other calls.                                      *)
THEOREM BatchAtomicity == Spec => BatchIsAtomic
  <1>1. IInv /\ [Next]_vars => [batch # None /\ batch' = None => AllOrNothing]_vars
    <2> SUFFICES ASSUME IInv, Next, batch # None, batch' = None PROVE AllOrNothing
      OBVIOUS
    <2>1. CASE FailBatch
      BY <2>1, FailureLeavesNothing DEF AllOrNothing
    <2>2. CASE \E to \in Slots : FinishBatch(to)
      <3>1. PICK to \in Slots : FinishBatch(to)
        BY <2>2
      <3> QED
        BY <3>1, SuccessHasAll DEF AllOrNothing
    <2>3. CASE PunctureNext
      BY <2>3, StillRunning, NoneAssumption
    <2>4. CASE UNCHANGED batch
      BY <2>4
    <2> QED
      BY <2>1, <2>2, <2>3, <2>4 DEF Next, Puncture, SignStructured, TryKeygen, Export, Import,
         LegacyPuncture, BeginBatch, LegacySign
  <1> QED
    BY <1>1, Invariance, PTL DEF Spec, BatchIsAtomic

=============================================================================
