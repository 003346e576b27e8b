------------------------ MODULE InstanceCache_proofs -------------------------
(***************************************************************************)
(* What holds of the instance cache for every number of tracks, topics,    *)
(* handles and writers and for every limit.                                *)
(***************************************************************************)
EXTENDS InstanceCache, FiniteSetTheorems, TLAPS

(* The map of a topic holds finitely many instances, whatever Handles is.    *)
FiniteCache == \A t \in Topics : IsFiniteSet(Cached(t))

(* The inductive invariant. *)
CacheInv ==
  /\ TypeOK
  /\ NoOrphanInstance
  /\ KeyFieldsBeforeInstances
  /\ FiniteCache
  /\ BoundedByFeeders

-----------------------------------------------------------------------------
(* Calls. *)

LEMMA IdleIsNotSlow == \A h, w : Slow(h, w) # Idle
BY DEF Slow, Idle

(* A call in progress is a slow one. *)
LEMMA SlowCall ==
  ASSUME TypeOK, NEW tr \in Tracks, call[tr] # Idle
  PROVE  /\ call[tr].handle \in HandlesOf(tr)
         /\ call[tr].writer \in Writers
BY DEF TypeOK, Slow, Idle

LEMMA FeedingFinite ==
  \A t : /\ IsFiniteSet(Feeding(t))
         /\ Cardinality(Feeding(t)) \in Nat
         /\ LimitOvershoot(t) \in Int
<1> TAKE t
<1>1. Feeding(t) \in SUBSET Tracks
  BY DEF Feeding
<1> QED BY <1>1, CacheConstants, FS_Subset, FS_CardinalityType DEF LimitOvershoot

LEMMA SerializingFinite ==
  \A t : /\ IsFiniteSet(Serializing(t))
         /\ Cardinality(Serializing(t)) \in Nat
         /\ Cardinality(Serializing(t)) <= Cardinality(Feeding(t))
<1> TAKE t
<1>1. Serializing(t) \in SUBSET Feeding(t)
  BY DEF Serializing
<1> QED BY <1>1, FeedingFinite, FS_Subset, FS_CardinalityType

-----------------------------------------------------------------------------
(* Type correctness. *)

LEMMA TypeOKInit == Init => TypeOK
<1> SUFFICES ASSUME Init PROVE TypeOK
  OBVIOUS
<1>1. [h \in {} |-> {}] \in [{} -> InstanceInfo]
  OBVIOUS
<1>2. instances \in [Topics -> UNION {[D -> InstanceInfo] : D \in SUBSET Handles}]
  BY <1>1 DEF Init
<1>3. /\ keyFields \in [Topics -> KeyedTypes \cup {NoType}]
      /\ call \in [Tracks -> {Idle} \cup {Slow(h, w) : h \in AnyHandle, w \in Writers}]
      /\ \A tr \in Tracks : call[tr] = Idle
  BY DEF Init
<1> QED BY <1>2, <1>3 DEF TypeOK

(* Replacing the map of one topic keeps the type of all maps. *)
LEMMA UpdateTopic ==
  ASSUME NEW S, NEW f \in [Topics -> S], NEW t \in Topics, NEW m \in S
  PROVE  [f EXCEPT ![t] = m] \in [Topics -> S]
OBVIOUS

(* The map of one topic, with one entry written, is a map again. *)
LEMMA PutType ==
  ASSUME NEW D \in SUBSET Handles, NEW map \in [D -> InstanceInfo],
         NEW h \in Handles, NEW info \in InstanceInfo
  PROVE  Put(map, h, info) \in [D \cup {h} -> InstanceInfo]
BY DEF Put

LEMMA ExtractType ==
  ASSUME TypeOK, NEW tr \in Tracks, Extract(tr)
  PROVE  keyFields' \in [Topics -> KeyedTypes \cup {NoType}]
BY CacheConstants DEF TypeOK, Extract, ExtractedKeyFields

LEMMA TopicMap ==
  ASSUME TypeOK, NEW t \in Topics
  PROVE  /\ Cached(t) \in SUBSET Handles
         /\ instances[t] \in [Cached(t) -> InstanceInfo]
BY DEF TypeOK, Cached

LEMMA TypeOKNext == TypeOK /\ [Next]_cacheVars => TypeOK'
<1> SUFFICES ASSUME TypeOK, [Next]_cacheVars PROVE TypeOK'
  OBVIOUS
<1> DEFINE Map == UNION {[D -> InstanceInfo] : D \in SUBSET Handles}
           Call == {Idle} \cup {Slow(h, w) : h \in AnyHandle, w \in Writers}
<1>T. /\ instances \in [Topics -> Map]
      /\ keyFields \in [Topics -> KeyedTypes \cup {NoType}]
      /\ call \in [Tracks -> Call]
      /\ \A tr \in Tracks : call[tr] # Idle => call[tr].handle \in HandlesOf(tr)
  BY DEF TypeOK
<1>0. ASSUME instances' \in [Topics -> Map],
             keyFields' \in [Topics -> KeyedTypes \cup {NoType}],
             call' \in [Tracks -> Call],
             \A tr \in Tracks : call'[tr] # Idle => call'[tr].handle \in HandlesOf(tr)
      PROVE  TypeOK'
  BY <1>0 DEF TypeOK, Idle, Slow, AnyHandle, HandlesOf
<1>I. Idle \in Call
  OBVIOUS
<1> HIDE DEF Map, Call
<1>1. ASSUME NEW tr \in Tracks, NEW w \in Writers, NEW h \in HandlesOf(tr), SkipUnkeyed(tr)
      PROVE  TypeOK'
  BY <1>0, <1>T, <1>1, ExtractType DEF SkipUnkeyed
<1>2. ASSUME NEW tr \in Tracks, NEW w \in Writers, NEW h \in HandlesOf(tr), UpdateCached(tr, h, w)
      PROVE  TypeOK'
  <2> DEFINE t == TopicOf[tr]
             map == [instances[t] EXCEPT ![h].writers = @ \cup {w}]
  <2>1. t \in Topics
    BY CacheConstants
  <2>2. h \in Cached(t)
    BY <1>2 DEF UpdateCached
  <2>3. instances[t][h] \in InstanceInfo
    BY <2>1, <2>2, TopicMap
  <2>4. [instances[t][h] EXCEPT !.writers = @ \cup {w}] \in InstanceInfo
    BY <2>3 DEF InstanceInfo
  <2>5. map \in [Cached(t) -> InstanceInfo]
    BY <2>1, <2>2, <2>4, TopicMap
  <2>6. map \in Map
    BY <2>1, <2>5, TopicMap DEF Map
  <2>7. instances' = [instances EXCEPT ![t] = map]
    BY <1>2 DEF UpdateCached
  <2>8. instances' \in [Topics -> Map]
    <3> HIDE DEF map
    <3> QED BY <1>T, <2>1, <2>6, <2>7, UpdateTopic
  <2> QED BY <1>0, <1>T, <1>2, <2>8, ExtractType DEF UpdateCached
<1>3. ASSUME NEW tr \in Tracks, NEW w \in Writers, NEW h \in HandlesOf(tr), RejectFull(tr, h)
      PROVE  TypeOK'
  BY <1>0, <1>T, <1>3, ExtractType DEF RejectFull
<1>4. ASSUME NEW tr \in Tracks, NEW w \in Writers, NEW h \in HandlesOf(tr), BeginSerialize(tr, h, w)
      PROVE  TypeOK'
  <2>1. h \in AnyHandle
    BY DEF HandlesOf, AnyHandle
  <2>2. Slow(h, w) \in Call /\ Slow(h, w).handle = h
    BY <2>1 DEF Slow, Call
  <2>3. call' = [call EXCEPT ![tr] = Slow(h, w)]
    BY <1>4 DEF BeginSerialize
  <2>4. call' \in [Tracks -> Call]
    BY <1>T, <2>2, <2>3
  <2>5. \A x \in Tracks : call'[x] # Idle => call'[x].handle \in HandlesOf(x)
    BY <1>T, <2>2, <2>3
  <2> QED BY <1>0, <1>T, <1>4, <2>4, <2>5, ExtractType DEF BeginSerialize
<1>5. ASSUME NEW tr \in Tracks, StoreKey(tr)
      PROVE  TypeOK'
  <2> DEFINE t == TopicOf[tr]
             h == call[tr].handle
             others == IF h \in Cached(t) THEN instances[t][h].writers ELSE {}
             info == [key |-> TypeOf[tr], writers |-> others \cup {call[tr].writer}]
  <2>1. t \in Topics
    BY CacheConstants
  <2>2. h \in Handles /\ call[tr].writer \in Writers
    BY <1>5, SlowCall DEF StoreKey, HandlesOf
  <2>3. others \in SUBSET Writers
    BY <2>1, TopicMap DEF InstanceInfo
  <2>4. info \in InstanceInfo
    BY <1>5, <2>2, <2>3 DEF StoreKey, InstanceInfo
  <2>5. Put(instances[t], h, info) \in [Cached(t) \cup {h} -> InstanceInfo]
    BY <2>1, <2>2, <2>4, TopicMap, PutType
  <2>6. Put(instances[t], h, info) \in Map
    BY <2>1, <2>2, <2>5, TopicMap DEF Map
  <2>7. instances' = [instances EXCEPT ![t] = Put(instances[t], h, info)]
    BY <1>5 DEF StoreKey
  <2>8. instances' \in [Topics -> Map]
    BY <1>T, <2>1, <2>6, <2>7, UpdateTopic
  <2> QED BY <1>0, <1>T, <1>I, <1>5, <2>8 DEF StoreKey
<1>6. ASSUME NEW tr \in Tracks, DropKey(tr)
      PROVE  TypeOK'
  BY <1>0, <1>T, <1>I, <1>6 DEF DropKey
<1>7. ASSUME NEW t \in Topics, NEW w \in Writers, RemoveWriter(t, w)
      PROVE  TypeOK'
  <2> DEFINE kept == {x \in Cached(t) : instances[t][x].writers \ {w} # {}}
             map == [h \in kept |-> [key |-> instances[t][h].key,
                                     writers |-> instances[t][h].writers \ {w}]]
  <2>1. map \in [kept -> InstanceInfo]
    BY TopicMap DEF InstanceInfo
  <2>2. kept \in SUBSET Handles
    BY TopicMap
  <2>3. map \in Map
    BY <2>1, <2>2 DEF Map
  <2>4. instances' = [instances EXCEPT ![t] = map]
    BY <1>7 DEF RemoveWriter, Cached
  <2>5. instances' \in [Topics -> Map]
    <3> HIDE DEF map
    <3> QED BY <1>T, <2>3, <2>4, UpdateTopic
  <2> QED BY <1>0, <1>T, <1>7, <2>5 DEF RemoveWriter
<1>8. CASE UNCHANGED cacheVars
  BY <1>0, <1>T, <1>8 DEF cacheVars
<1> QED
  BY <1>1, <1>2, <1>3, <1>4, <1>5, <1>6, <1>7, <1>8 DEF Next, BeginCall, FinishCall

(* Type correctness, for every value of the constants. *)
THEOREM TypeCorrect == Spec => []TypeOK
BY TypeOKInit, TypeOKNext, PTL DEF Spec

-----------------------------------------------------------------------------
(* What the fast path does to the map of its topic, and to no other. *)
LEMMA UpdatedEntry ==
  ASSUME TypeOK, NEW tr \in Tracks, NEW h, NEW w, UpdateCached(tr, h, w)
  PROVE  LET top == TopicOf[tr]
         IN  /\ top \in Topics
             /\ h \in Cached(top)
             /\ \A t \in Topics : t # top => instances'[t] = instances[t]
             /\ Cached(top)' = Cached(top)
             /\ \A x \in Cached(top) : x # h => instances'[top][x] = instances[top][x]
             /\ instances'[top][h].writers = instances[top][h].writers \cup {w}
<1> DEFINE top == TopicOf[tr]
           info == [instances[top][h] EXCEPT !.writers = @ \cup {w}]
           map == [instances[top] EXCEPT ![h] = info]
<1>1. top \in Topics
  BY CacheConstants
<1>2. h \in Cached(top)
  BY DEF UpdateCached
<1>3. instances[top][h] \in InstanceInfo
  BY <1>1, <1>2, TopicMap
<1>4. info.writers = instances[top][h].writers \cup {w}
  BY <1>3 DEF InstanceInfo
<1>5. DOMAIN instances = Topics
  BY DEF TypeOK
<1>6. instances' = [instances EXCEPT ![top] = map]
  BY DEF UpdateCached
<1> HIDE DEF top, info
<1>7. /\ DOMAIN map = Cached(top)
      /\ map[h] = info
      /\ \A x \in Cached(top) : x # h => map[x] = instances[top][x]
  <2> instances[top] \in [Cached(top) -> InstanceInfo]
    BY <1>1, TopicMap
  <2> QED BY <1>2
<1> HIDE DEF map
<1>8. /\ instances'[top] = map
      /\ \A t \in Topics : t # top => instances'[t] = instances[t]
  BY <1>1, <1>5, <1>6
<1>9. Cached(top)' = DOMAIN instances'[top]
  BY DEF Cached, top
<1> QED BY <1>1, <1>2, <1>4, <1>7, <1>8, <1>9 DEF top

(* What storing a key does to the map of its topic, and to no other. *)
LEMMA StoredEntry ==
  ASSUME TypeOK, NEW tr \in Tracks, StoreKey(tr)
  PROVE  LET top == TopicOf[tr]
             h == call[tr].handle
         IN  /\ top \in Topics
             /\ \A t \in Topics : t # top => instances'[t] = instances[t]
             /\ Cached(top)' = Cached(top) \cup {h}
             /\ \A x \in Cached(top) : x # h => instances'[top][x] = instances[top][x]
             /\ instances'[top][h].writers = PublishersOf(top, h) \cup {call[tr].writer}
<1> DEFINE top == TopicOf[tr]
           h == call[tr].handle
           info == [key |-> TypeOf[tr],
                    writers |-> PublishersOf(top, h) \cup {call[tr].writer}]
<1>1. top \in Topics
  BY CacheConstants
<1>2. instances' = [instances EXCEPT ![top] = Put(instances[top], h, info)]
  BY DEF StoreKey, PublishersOf
<1>3. /\ DOMAIN Put(instances[top], h, info) = Cached(top) \cup {h}
      /\ Put(instances[top], h, info)[h] = info
      /\ \A x \in Cached(top) : x # h => Put(instances[top], h, info)[x] = instances[top][x]
  BY DEF Put, Cached
<1>4. DOMAIN instances = Topics
  BY DEF TypeOK
<1> HIDE DEF top, h
<1>5. info.writers = PublishersOf(top, h) \cup {call[tr].writer}
  OBVIOUS
<1> HIDE DEF info
<1>6. instances'[top] = Put(instances[top], h, info)
  BY <1>1, <1>2, <1>4
<1>7. \A t \in Topics : t # top => instances'[t] = instances[t]
  BY <1>1, <1>2, <1>4
<1>8. Cached(top)' = DOMAIN instances'[top]
  BY DEF Cached, top
<1> QED BY <1>1, <1>3, <1>5, <1>6, <1>7, <1>8 DEF top, h

(* What a departure does to the map of its topic. *)
LEMMA RemovedEntry ==
  ASSUME TypeOK, NEW t \in Topics, NEW w, RemoveWriter(t, w)
  PROVE  /\ Cached(t)' = {h \in Cached(t) : instances[t][h].writers \ {w} # {}}
         /\ \A h \in Cached(t)' : instances'[t][h].writers = instances[t][h].writers \ {w}
BY DEF RemoveWriter, Cached, TypeOK

-----------------------------------------------------------------------------
(* The instance limit. *)

(* A step that adds no instance and no serializing track keeps the bound. *)
LEMMA BoundKept ==
  ASSUME FiniteCache, BoundedByFeeders,
         \A t \in Topics : /\ Cached(t)' \subseteq Cached(t)
                          /\ Serializing(t)' \subseteq Serializing(t)
  PROVE  FiniteCache' /\ BoundedByFeeders'
<1> SUFFICES ASSUME NEW t \in Topics
             PROVE  /\ IsFiniteSet(Cached(t)')
                    /\ Cardinality(Cached(t)') + Cardinality(Serializing(t)') <= LimitOvershoot(t)
  BY DEF FiniteCache, BoundedByFeeders, LimitOvershoot, Feeding
<1>1. /\ IsFiniteSet(Cached(t)')
      /\ Cardinality(Cached(t)') <= Cardinality(Cached(t))
  BY FS_Subset DEF FiniteCache
<1>2. Cardinality(Serializing(t)') <= Cardinality(Serializing(t))
  BY SerializingFinite, FS_Subset
<1>3. /\ Cardinality(Cached(t)) \in Nat
      /\ Cardinality(Cached(t)') \in Nat
      /\ Cardinality(Serializing(t)) \in Nat
      /\ Cardinality(Serializing(t)') \in Nat
  <2>1. IsFiniteSet(Serializing(t)')
    BY SerializingFinite, FS_Subset
  <2> QED BY <1>1, <2>1, SerializingFinite, FS_CardinalityType DEF FiniteCache
<1> QED BY <1>1, <1>2, <1>3, FeedingFinite DEF BoundedByFeeders

(* The limit is tested against the instances that are stored, so one more    *)
(* track may start to serialize while all the others are about to store.     *)
LEMMA BoundBeginSerialize ==
  ASSUME TypeOK, FiniteCache, BoundedByFeeders,
         NEW tr \in Tracks, NEW h, NEW w \in Writers, BeginSerialize(tr, h, w)
  PROVE  FiniteCache' /\ BoundedByFeeders'
<1>1. \A t \in Topics : Cached(t)' = Cached(t)
  BY DEF BeginSerialize, Cached
<1> SUFFICES ASSUME NEW t \in Topics
             PROVE  Cardinality(Cached(t)) + Cardinality(Serializing(t)') <= LimitOvershoot(t)
  BY <1>1 DEF FiniteCache, BoundedByFeeders, LimitOvershoot, Feeding
<1>2. CASE tr \notin Feeding(t)
  <2>1. Serializing(t)' = Serializing(t)
    BY <1>2 DEF Serializing, Feeding, BeginSerialize, Extract, TypeOK
  <2> QED BY <2>1 DEF BoundedByFeeders
<1>3. CASE tr \in Feeding(t)
  <2>1. TopicOf[tr] = t
    BY <1>3 DEF Feeding
  <2>2. Cardinality(Cached(t)) < MaxInstances /\ Cardinality(Cached(t)) \in Nat
    BY <2>1, FS_CardinalityType DEF BeginSerialize, FiniteCache
  <2>3. Serializing(t)' \in SUBSET Feeding(t)
    BY DEF Serializing, Feeding
  <2>4. /\ Cardinality(Serializing(t)') <= Cardinality(Feeding(t))
        /\ Cardinality(Serializing(t)') \in Nat
    BY <2>3, FeedingFinite, FS_Subset, FS_CardinalityType
  <2> QED BY <2>2, <2>4, FeedingFinite, CacheConstants DEF LimitOvershoot
<1> QED BY <1>2, <1>3

(* Storing trades a serializing track for an instance. *)
LEMMA BoundStoreKey ==
  ASSUME TypeOK, FiniteCache, BoundedByFeeders, NEW tr \in Tracks, StoreKey(tr)
  PROVE  FiniteCache' /\ BoundedByFeeders'
<1> DEFINE top == TopicOf[tr]
           h == call[tr].handle
<1>1. /\ tr \in Serializing(top)
      /\ top \in Topics
      /\ \A t \in Topics : t # top => tr \notin Feeding(t)
  BY CacheConstants DEF StoreKey, Serializing, Feeding
<1>2. \A t \in Topics : Cached(t)' = IF t = top THEN Cached(t) \cup {h} ELSE Cached(t)
  BY StoredEntry DEF Cached
<1>3. \A t \in Topics : Serializing(t)' = Serializing(t) \ {tr}
  BY DEF StoreKey, Serializing, Feeding, TypeOK
<1> SUFFICES ASSUME NEW t \in Topics
             PROVE  /\ IsFiniteSet(Cached(t)')
                    /\ Cardinality(Cached(t)') + Cardinality(Serializing(t)') <= LimitOvershoot(t)
  BY DEF FiniteCache, BoundedByFeeders, LimitOvershoot, Feeding
<1>4. CASE t # top
  <2>1. Serializing(t)' = Serializing(t)
    BY <1>1, <1>3, <1>4 DEF Serializing
  <2> QED BY <1>2, <1>4, <2>1 DEF FiniteCache, BoundedByFeeders
<1>5. CASE t = top
  <2>1. /\ IsFiniteSet(Cached(t)')
        /\ Cardinality(Cached(t)') <= Cardinality(Cached(t)) + 1
        /\ Cardinality(Cached(t)) \in Nat
        /\ Cardinality(Cached(t)') \in Nat
    <3>1. Cached(t)' = Cached(t) \cup {h} /\ IsFiniteSet(Cached(t))
      BY <1>2, <1>5 DEF FiniteCache
    <3>2. /\ IsFiniteSet(Cached(t) \cup {h})
          /\ Cardinality(Cached(t) \cup {h}) =
               IF h \in Cached(t) THEN Cardinality(Cached(t)) ELSE Cardinality(Cached(t)) + 1
      BY <3>1, FS_AddElement
    <3>3. Cardinality(Cached(t)) \in Nat
      BY <3>1, FS_CardinalityType
    <3> QED BY <3>1, <3>2, <3>3
  <2>2. /\ Cardinality(Serializing(t)') = Cardinality(Serializing(t)) - 1
        /\ Cardinality(Serializing(t)) \in Nat
    <3>1. Serializing(t)' = Serializing(t) \ {tr} /\ tr \in Serializing(t)
      BY <1>1, <1>3, <1>5
    <3>2. IsFiniteSet(Serializing(t)) /\ Cardinality(Serializing(t)) \in Nat
      BY SerializingFinite
    <3>3. Cardinality(Serializing(t) \ {tr}) = Cardinality(Serializing(t)) - 1
      BY <3>1, <3>2, FS_RemoveElement
    <3> QED BY <3>1, <3>2, <3>3
  <2>3. Cardinality(Cached(t)) + Cardinality(Serializing(t)) <= LimitOvershoot(t)
    BY DEF BoundedByFeeders
  <2> QED BY <2>1, <2>2, <2>3, FeedingFinite
<1> QED BY <1>4, <1>5

-----------------------------------------------------------------------------
(* The inductive invariant. *)

LEMMA CacheInvInit == Init => CacheInv
<1> SUFFICES ASSUME Init PROVE CacheInv
  OBVIOUS
<1>1. \A t \in Topics : Cached(t) = {} /\ Serializing(t) = {}
  BY CacheConstants DEF Init, Cached, Serializing, Feeding
<1>2. FiniteCache
  BY <1>1, FS_EmptySet DEF FiniteCache
<1>3. BoundedByFeeders
  BY <1>1, FS_EmptySet, FeedingFinite, CacheConstants DEF BoundedByFeeders, LimitOvershoot
<1>4. NoOrphanInstance /\ KeyFieldsBeforeInstances
  BY <1>1 DEF NoOrphanInstance, KeyFieldsBeforeInstances
<1> QED BY <1>2, <1>3, <1>4, TypeOKInit DEF CacheInv

(* Key field names are never forgotten, and a call that goes on has them. *)
LEMMA KeyFieldsKept ==
  ASSUME TypeOK, NEW tr \in Tracks, Extract(tr)
  PROVE  /\ \A t \in Topics : keyFields[t] # NoType => keyFields'[t] # NoType
         /\ HasKeyFields(tr) => keyFields'[TopicOf[tr]] # NoType
BY CacheConstants DEF TypeOK, Extract, HasKeyFields, ExtractedKeyFields

LEMMA CacheInvNext == CacheInv /\ [Next]_cacheVars => CacheInv'
<1> SUFFICES ASSUME CacheInv, [Next]_cacheVars PROVE CacheInv'
  OBVIOUS
<1> USE DEF CacheInv
<1>0. TypeOK'
  BY TypeOKNext
<1>1. ASSUME instances' = instances,
             \A t \in Topics : keyFields[t] # NoType => keyFields'[t] # NoType,
             \A t \in Topics : Serializing(t)' \subseteq Serializing(t)
      PROVE  CacheInv'
  <2>1. \A t \in Topics : Cached(t)' = Cached(t)
    BY <1>1 DEF Cached
  <2>2. FiniteCache' /\ BoundedByFeeders'
    BY <1>1, <2>1, BoundKept
  <2> QED BY <1>0, <1>1, <2>1, <2>2 DEF NoOrphanInstance, KeyFieldsBeforeInstances
<1>2. ASSUME NEW tr \in Tracks, SkipUnkeyed(tr)
      PROVE  CacheInv'
  BY <1>1, <1>2, KeyFieldsKept DEF SkipUnkeyed, Serializing, Feeding
<1>3. ASSUME NEW tr \in Tracks, NEW w \in Writers, NEW h \in HandlesOf(tr), UpdateCached(tr, h, w)
      PROVE  CacheInv'
  <2>1. \A t \in Topics : /\ Cached(t)' = Cached(t)
                          /\ Serializing(t)' = Serializing(t)
    BY <1>3 DEF UpdateCached, Cached, Serializing, Feeding, TypeOK
  <2>2. FiniteCache' /\ BoundedByFeeders'
    BY <2>1, BoundKept
  <2>3. NoOrphanInstance'
    <3> SUFFICES ASSUME NEW t \in Topics, NEW x \in Cached(t)
                 PROVE  instances'[t][x].writers # {}
      BY <2>1 DEF NoOrphanInstance
    <3>1. instances[t][x] \in InstanceInfo
      BY TopicMap
    <3> QED BY <1>3, <3>1 DEF UpdateCached, NoOrphanInstance, TypeOK, Cached, InstanceInfo
  <2>4. KeyFieldsBeforeInstances'
    BY <1>3, <2>1, KeyFieldsKept DEF UpdateCached, KeyFieldsBeforeInstances
  <2> QED BY <1>0, <2>2, <2>3, <2>4
<1>4. ASSUME NEW tr \in Tracks, NEW h, RejectFull(tr, h)
      PROVE  CacheInv'
  BY <1>1, <1>4, KeyFieldsKept DEF RejectFull, Serializing, Feeding
<1>5. ASSUME NEW tr \in Tracks, NEW w \in Writers, NEW h \in HandlesOf(tr), BeginSerialize(tr, h, w)
      PROVE  CacheInv'
  <2>1. \A t \in Topics : /\ Cached(t)' = Cached(t)
                          /\ t # TopicOf[tr] => Serializing(t)' = Serializing(t)
    BY <1>5 DEF BeginSerialize, Cached, Serializing, Feeding, TypeOK
  <2>2. FiniteCache' /\ BoundedByFeeders'
    BY <1>5, BoundBeginSerialize
  <2>3. NoOrphanInstance'
    BY <1>5, <2>1 DEF BeginSerialize, NoOrphanInstance
  <2>4. KeyFieldsBeforeInstances'
    BY <1>5, <2>1, KeyFieldsKept DEF BeginSerialize, KeyFieldsBeforeInstances
  <2> QED BY <1>0, <2>2, <2>3, <2>4
<1>6. ASSUME NEW tr \in Tracks, StoreKey(tr)
      PROVE  CacheInv'
  <2> DEFINE top == TopicOf[tr]
  <2>1. top \in Topics /\ tr \in Serializing(top)
    BY <1>6, CacheConstants DEF StoreKey, Serializing, Feeding
  <2>2. \A t \in Topics : /\ t # top => instances'[t] = instances[t]
                          /\ Serializing(t)' \subseteq Serializing(t)
    BY <1>6 DEF StoreKey, Serializing, Feeding, TypeOK
  <2>3. keyFields[top] # NoType
    BY <2>1 DEF KeyFieldsBeforeInstances
  <2>4. KeyFieldsBeforeInstances'
    BY <1>6, <2>2, <2>3 DEF StoreKey, KeyFieldsBeforeInstances, Cached
  <2>5. NoOrphanInstance'
    <3> SUFFICES ASSUME NEW t \in Topics, NEW x \in Cached(t)'
                 PROVE  instances'[t][x].writers # {}
      BY DEF NoOrphanInstance
    <3>1. CASE t # top
      BY <2>2, <3>1 DEF NoOrphanInstance, Cached
    <3>2. CASE t = top
      <4>1. x = call[tr].handle \/ x \in Cached(top)
        BY <1>6, <3>2, StoredEntry
      <4> QED BY <1>6, <2>1, <3>2, <4>1, StoredEntry DEF NoOrphanInstance
    <3> QED BY <3>1, <3>2
  <2> QED BY <1>0, <1>6, <2>4, <2>5, BoundStoreKey
<1>7. ASSUME NEW tr \in Tracks, DropKey(tr)
      PROVE  CacheInv'
  BY <1>1, <1>7 DEF DropKey, Serializing, Feeding, TypeOK
<1>8. ASSUME NEW t \in Topics, NEW w \in Writers, RemoveWriter(t, w)
      PROVE  CacheInv'
  <2>1. \A x \in Topics : /\ Cached(x)' \subseteq Cached(x)
                          /\ Serializing(x)' = Serializing(x)
    BY <1>8 DEF RemoveWriter, Cached, Serializing, Feeding, TypeOK
  <2>2. FiniteCache' /\ BoundedByFeeders'
    BY <2>1, BoundKept
  <2>3. KeyFieldsBeforeInstances'
    BY <1>8, <2>1 DEF RemoveWriter, KeyFieldsBeforeInstances
  <2>4. NoOrphanInstance'
    BY <1>8 DEF RemoveWriter, NoOrphanInstance, Cached, TypeOK
  <2> QED BY <1>0, <2>2, <2>3, <2>4
<1>9. CASE UNCHANGED cacheVars
  BY <1>1, <1>9 DEF cacheVars, Serializing, Feeding
<1> QED
  BY <1>2, <1>3, <1>4, <1>5, <1>6, <1>7, <1>8, <1>9 DEF Next, BeginCall, FinishCall

(* The cache keeps its invariant under every interleaving of its callers.    *)
THEOREM CacheInvariant == Spec => []CacheInv
BY CacheInvInit, CacheInvNext, PTL DEF Spec

(* However many tracks race for the last place, a topic holds at most        *)
(* MaxInstances instances and one more for each further keyed type.          *)
THEOREM BoundHolds == Spec => []BoundedByFeeders
BY CacheInvariant, PTL DEF CacheInv

(* No instance is ever kept, listed or counted without a writer. *)
THEOREM NoOrphans == Spec => []NoOrphanInstance
BY CacheInvariant, PTL DEF CacheInv

(* Instances never show up under a topic whose key fields are unknown. *)
THEOREM KeyFieldsFirst == Spec => []KeyFieldsBeforeInstances
BY CacheInvariant, PTL DEF CacheInv

-----------------------------------------------------------------------------
(* The cache implements InstanceTracker.                                     *)

Bar == [t \in Topics |-> [h \in Handles |-> PublishersOf(t, h)]]

(* The tracker tracks exactly the cached instances: none is cached without a *)
(* writer.                                                                   *)
LEMMA TrackedIsCached ==
  ASSUME TypeOK, NoOrphanInstance
  PROVE  \A t \in Topics : Tracker!Tracked(t) = Cached(t)
<1> SUFFICES ASSUME NEW t \in Topics
             PROVE  {h \in Handles : Bar[t][h] # {}} = Cached(t)
  BY DEF Tracker!Tracked, Bar
<1> QED BY TopicMap DEF NoOrphanInstance, PublishersOf, Bar

(* The instance has its own copy of the standard operator. *)
LEMMA TrackerCardinality == \A S : Tracker!Cardinality(S) = Cardinality(S)
BY DEF Tracker!Cardinality, Cardinality

LEMMA BarInit == Init => Tracker!Init
BY DEF Init, Tracker!Init, PublishersOf, Cached

LEMMA BarNext == CacheInv /\ [Next]_cacheVars => [Tracker!Next]_Bar
<1> SUFFICES ASSUME CacheInv, [Next]_cacheVars PROVE Tracker!Next \/ Bar' = Bar
  BY DEF Bar
<1> USE DEF CacheInv
<1>1. ASSUME instances' = instances
      PROVE  Bar' = Bar
  BY <1>1 DEF Bar, PublishersOf, Cached
<1>2. ASSUME NEW tr \in Tracks, NEW w \in Writers, NEW h \in HandlesOf(tr), UpdateCached(tr, h, w)
      PROVE  Tracker!Next
  <2> DEFINE top == TopicOf[tr]
  <2>1. top \in Topics /\ h \in Cached(top) /\ h \in Handles
    BY <1>2, CacheConstants, TopicMap DEF UpdateCached
  <2>3. \A x \in Topics : \A y \in Handles :
           PublishersOf(x, y)' = IF x = top /\ y = h THEN PublishersOf(x, y) \cup {w}
                                                  ELSE PublishersOf(x, y)
    <3> SUFFICES ASSUME NEW x \in Topics, NEW y \in Handles
                 PROVE  PublishersOf(x, y)' =
                          IF x = top /\ y = h THEN PublishersOf(x, y) \cup {w} ELSE PublishersOf(x, y)
      OBVIOUS
    <3>1. CASE x # top
      BY <1>2, <3>1, UpdatedEntry DEF PublishersOf, Cached
    <3>2. CASE x = top /\ y # h
      BY <1>2, <3>2, UpdatedEntry DEF PublishersOf
    <3>3. CASE x = top /\ y = h
      BY <1>2, <3>3, UpdatedEntry DEF PublishersOf
    <3> QED BY <3>1, <3>2, <3>3
  <2>4. Bar' = [Bar EXCEPT ![top][h] = @ \cup {w}]
    <3> HIDE DEF top
    <3> QED BY <2>1, <2>3 DEF Bar
  <2>5. h \in Tracker!Tracked(top)
    BY <2>1, TrackedIsCached
  <2>6. Tracker!Publish(top, h, w)
    BY <2>4, <2>5 DEF Tracker!Publish, Bar
  <2> QED BY <2>1, <2>6 DEF Tracker!Next
<1>3. ASSUME NEW tr \in Tracks, StoreKey(tr)
      PROVE  Tracker!Next
  <2> DEFINE top == TopicOf[tr]
  <2>0. PICK h \in Handles, w \in Writers : h = call[tr].handle /\ w = call[tr].writer
    BY <1>3, SlowCall DEF StoreKey, HandlesOf
  <2>1. top \in Topics
    BY CacheConstants
  <2>2. \A x \in Topics : \A y \in Handles :
           PublishersOf(x, y)' = IF x = top /\ y = h THEN PublishersOf(x, y) \cup {w}
                                                  ELSE PublishersOf(x, y)
    <3> SUFFICES ASSUME NEW x \in Topics, NEW y \in Handles
                 PROVE  PublishersOf(x, y)' =
                          IF x = top /\ y = h THEN PublishersOf(x, y) \cup {w} ELSE PublishersOf(x, y)
      OBVIOUS
    <3>1. CASE x # top
      BY <1>3, <2>0, <3>1, StoredEntry DEF PublishersOf, Cached
    <3>2. CASE x = top /\ y # h
      BY <1>3, <2>0, <3>2, StoredEntry DEF PublishersOf
    <3>3. CASE x = top /\ y = h
      BY <1>3, <2>0, <3>3, StoredEntry DEF PublishersOf
    <3> QED BY <3>1, <3>2, <3>3
  <2>3. Bar' = [Bar EXCEPT ![top][h] = @ \cup {w}]
    <3> HIDE DEF top
    <3> QED BY <2>1, <2>2 DEF Bar
  <2>4. Cardinality(Cached(top)) < LimitOvershoot(top)
    <3>1. tr \in Serializing(top)
      BY <1>3 DEF StoreKey, Serializing, Feeding
    <3>2. Cardinality(Serializing(top)) >= 1
      BY <3>1, SerializingFinite, FS_EmptySet
    <3>3. Cardinality(Cached(top)) \in Nat
      BY <2>1, FS_CardinalityType DEF FiniteCache
    <3> QED BY <2>1, <3>2, <3>3, SerializingFinite, FeedingFinite DEF BoundedByFeeders
  <2>5. Tracker!Cardinality(Tracker!Tracked(top)) < [t \in Topics |-> LimitOvershoot(t)][top]
    BY <2>1, <2>4, TrackedIsCached, TrackerCardinality
  <2>6. Tracker!Publish(top, h, w)
    BY <2>3, <2>5 DEF Tracker!Publish, Bar
  <2> QED BY <2>1, <2>6 DEF Tracker!Next
<1>4. ASSUME NEW t \in Topics, NEW w \in Writers, RemoveWriter(t, w)
      PROVE  Tracker!Next
  <2>1. \A x \in Topics : \A h \in Handles :
          PublishersOf(x, h)' = IF x = t THEN PublishersOf(x, h) \ {w} ELSE PublishersOf(x, h)
    <3> SUFFICES ASSUME NEW x \in Topics, NEW h \in Handles
                 PROVE  PublishersOf(x, h)' =
                          IF x = t THEN PublishersOf(x, h) \ {w} ELSE PublishersOf(x, h)
      OBVIOUS
    <3>1. CASE x # t
      BY <1>4, <3>1 DEF RemoveWriter, PublishersOf, Cached, TypeOK
    <3>2. CASE x = t
      BY <1>4, <3>2, RemovedEntry DEF PublishersOf
    <3> QED BY <3>1, <3>2
  <2>2. Tracker!Depart(t, w)
    BY <2>1 DEF Tracker!Depart
  <2> QED BY <2>2 DEF Tracker!Next
<1>5. ASSUME NEW tr \in Tracks, NEW w, NEW h,
             SkipUnkeyed(tr) \/ RejectFull(tr, h) \/ BeginSerialize(tr, h, w) \/ DropKey(tr)
      PROVE  Bar' = Bar
  BY <1>1, <1>5 DEF SkipUnkeyed, RejectFull, BeginSerialize, DropKey
<1>6. CASE UNCHANGED cacheVars
  BY <1>1, <1>6 DEF cacheVars
<1> QED
  BY <1>2, <1>3, <1>4, <1>5, <1>6 DEF Next, BeginCall, FinishCall

(* Threads, the dropped mutex and the maps implement the atomic tracker: a   *)
(* sample adds its writer to its instance or does nothing, a departure takes *)
(* away the departed writer and nothing else, for every number of tracks.    *)
THEOREM RefinesTracker == Spec => ImplementsTracker
<1>1. CacheInv /\ [Next]_cacheVars => [Tracker!Next]_Bar
  BY BarNext
<1> QED BY BarInit, <1>1, CacheInvariant, PTL DEF Spec, ImplementsTracker, Tracker!Spec, Bar
=============================================================================
