-------------------------- MODULE TopicKeys_proofs ---------------------------
(***************************************************************************)
(* What holds of an answer of topic keys, for every number of tracks and   *)
(* topics, on top of the invariant of the cache.                           *)
(***************************************************************************)
EXTENDS TopicKeys, InstanceCache_proofs

(* Key fields are those of a type the spy knows under the name. *)
KnownFields == \A t \in Topics : keyFields[t] \in KnownKeyed(t) \cup {NoType}

(* So are the keys that are stored and those that are being serialized. *)
KnownCalls == \A tr \in Tracks : call[tr] # Idle => TypeOf[tr] \in schemas

KnownInstances ==
  \A t \in Topics : \A h \in Cached(t) : instances[t][h].key \in KnownKeyed(t)

(* And those of the instances of a row. *)
InstancesRead ==
  row.pc = "shown" => \A i \in row.instances : i.key \in KnownKeyed(row.topic)

(* The fields of a row, once read, are those of the topic, or there were no  *)
(* instances when they were read.                                            *)
FieldsRead ==
  row.pc \in {"instances", "shown"} =>
    IF row.fields # NoType THEN row.fields = keyFields[row.topic] ELSE row.first

Known == KnownFields /\ KnownCalls /\ KnownInstances

KeysInv == CacheInv /\ KeysTypeOK /\ Known /\ FieldsRead /\ InstancesRead

-----------------------------------------------------------------------------
LEMMA KeysInvInit == KeysInit => KeysInv
BY CacheInvInit DEF KeysInit, KeysInv, KeysTypeOK, Known, KnownFields, KnownCalls,
  KnownInstances, FieldsRead, InstancesRead, NoRow, Init, Cached

(* What is known of a name stays known when types are learned. *)
LEMMA KnownGrows ==
  ASSUME schemas \subseteq schemas', NEW t \in Topics
  PROVE  KnownKeyed(t) \subseteq KnownKeyed(t)'
BY DEF KnownKeyed, Feeding

(* A step of the cache keeps the key fields of a topic, but for the first    *)
(* time, when they become those of the type of a track that feeds it.        *)
LEMMA FieldsStay ==
  ASSUME TypeOK, CacheStep, NEW t \in Topics
  PROVE  keyFields'[t] = keyFields[t] \/ (keyFields[t] = NoType /\ keyFields'[t] \in KnownKeyed(t))
<1> DEFINE Stays == keyFields'[t] = keyFields[t]
                      \/ (keyFields[t] = NoType /\ keyFields'[t] \in KnownKeyed(t))
<1>1. ASSUME NEW tr \in Tracks, TypeOf[tr] \in schemas, Extract(tr) PROVE Stays
  <2>1. TopicOf[tr] \in Topics /\ keyFields \in [Topics -> KeyedTypes \cup {NoType}]
    BY CacheConstants DEF TypeOK
  <2>2. CASE t = TopicOf[tr]
    <3>1. keyFields'[t] = ExtractedKeyFields(t, TypeOf[tr])
      BY <1>1, <2>1, <2>2 DEF Extract
    <3>2. TypeOf[tr] \in KeyedTypes => TypeOf[tr] \in KnownKeyed(t)
      BY <1>1, <2>2 DEF KnownKeyed, Feeding
    <3> QED BY <3>1, <3>2 DEF ExtractedKeyFields
  <2>3. CASE t # TopicOf[tr]
    BY <1>1, <2>1, <2>3 DEF Extract
  <2> QED BY <2>2, <2>3
<1>2. ASSUME NEW tr \in Tracks, NEW w \in Writers, NEW h \in HandlesOf(tr),
             TypeOf[tr] \in schemas, BeginCall(tr, h, w)
      PROVE  Stays
  <2>1. Extract(tr)
    BY <1>2 DEF BeginCall, SkipUnkeyed, UpdateCached, RejectFull, BeginSerialize
  <2> QED BY <1>1, <1>2, <2>1
<1>3. ASSUME NEW tr \in Tracks, FinishCall(tr) PROVE Stays
  BY <1>3 DEF FinishCall, StoreKey, DropKey
<1>4. ASSUME NEW x \in Topics, NEW w \in Writers, RemoveWriter(x, w) PROVE Stays
  BY <1>4 DEF RemoveWriter
<1> HIDE DEF Stays
<1>5. Stays
  BY <1>2, <1>3, <1>4 DEF CacheStep
<1> QED BY <1>5 DEF Stays

(* A step of the cache serializes and stores keys of known types only. *)
LEMMA KeysStayKnown ==
  ASSUME TypeOK, KnownCalls, KnownInstances, CacheStep
  PROVE  KnownCalls' /\ KnownInstances'
<1>1. UNCHANGED schemas
  BY DEF CacheStep
<1>2. \A t \in Topics : KnownKeyed(t)' = KnownKeyed(t)
  BY <1>1 DEF KnownKeyed, Feeding
<1>3. /\ call \in [Tracks -> {Idle} \cup {Slow(h, w) : h \in AnyHandle, w \in Writers}]
      /\ instances \in [Topics -> UNION {[D -> InstanceInfo] : D \in SUBSET Handles}]
  BY DEF TypeOK
<1>4. ASSUME NEW tr \in Tracks, NEW w \in Writers, NEW h \in HandlesOf(tr),
             TypeOf[tr] \in schemas, BeginCall(tr, h, w)
      PROVE  KnownCalls' /\ KnownInstances'
  <2>1. CASE SkipUnkeyed(tr) \/ RejectFull(tr, h)
    BY <1>1, <1>2, <2>1 DEF SkipUnkeyed, RejectFull, KnownCalls, KnownInstances, Cached
  <2>2. CASE UpdateCached(tr, h, w)
    <3> DEFINE x == TopicOf[tr]
               info == [instances[x][h] EXCEPT !.writers = instances[x][h].writers \cup {w}]
               map == [instances[x] EXCEPT ![h] = info]
    <3>1. x \in Topics /\ h \in DOMAIN instances[x] /\ UNCHANGED call
      BY <2>2, CacheConstants DEF UpdateCached, Cached
    <3>2. instances' = [instances EXCEPT ![x] = map]
      BY <2>2 DEF UpdateCached
    <3>3. info.key = instances[x][h].key
      BY <1>3, <3>1 DEF InstanceInfo
    <3> HIDE DEF info
    <3>4. /\ DOMAIN map = DOMAIN instances[x]
          /\ \A i \in DOMAIN map : map[i].key = instances[x][i].key
      BY <3>1, <3>3
    <3> HIDE DEF map
    <3>5. \A t \in Topics : instances'[t] = IF t = x THEN map ELSE instances[t]
      BY <1>3, <3>1, <3>2
    <3> QED BY <1>1, <1>2, <3>1, <3>4, <3>5 DEF KnownCalls, KnownInstances, Cached
  <2>3. CASE BeginSerialize(tr, h, w)
    <3>1. UNCHANGED instances /\ call' = [call EXCEPT ![tr] = Slow(h, w)]
      BY <2>3 DEF BeginSerialize
    <3> QED BY <1>1, <1>2, <1>3, <1>4, <3>1 DEF KnownCalls, KnownInstances, Cached
  <2> QED BY <1>4, <2>1, <2>2, <2>3 DEF BeginCall
<1>5. ASSUME NEW tr \in Tracks, FinishCall(tr) PROVE KnownCalls' /\ KnownInstances'
  <2>1. call[tr] # Idle /\ call' = [call EXCEPT ![tr] = Idle]
    BY <1>5 DEF FinishCall, StoreKey, DropKey
  <2>2. KnownCalls'
    BY <1>1, <1>3, <2>1 DEF KnownCalls
  <2>3. CASE DropKey(tr)
    BY <1>2, <2>2, <2>3 DEF DropKey, KnownInstances, Cached
  <2>4. CASE StoreKey(tr)
    <3> DEFINE x == TopicOf[tr]
               g == call[tr].handle
               others == IF g \in Cached(x) THEN instances[x][g].writers ELSE {}
               info == [key |-> TypeOf[tr], writers |-> others \cup {call[tr].writer}]
    <3>1. x \in Topics /\ TypeOf[tr] \in KnownKeyed(x)
      BY <2>1, <2>4, CacheConstants DEF StoreKey, KnownCalls, KnownKeyed, Feeding
    <3>2. instances' = [instances EXCEPT ![x] = Put(@, g, info)]
      BY <2>4 DEF StoreKey
    <3>3. info.key \in KnownKeyed(x)
      BY <3>1
    <3> HIDE DEF info
    <3>4. ASSUME NEW t \in Topics, NEW i \in DOMAIN instances'[t]
          PROVE  instances'[t][i].key \in KnownKeyed(t)
      <4>1. CASE t # x
        BY <1>3, <3>1, <3>2, <3>4, <4>1 DEF KnownInstances, Cached
      <4>2. CASE t = x
        <5>1. instances'[t] = Put(instances[x], g, info)
          BY <1>3, <3>1, <3>2, <4>2
        <5>2. i = g \/ i \in DOMAIN instances[x]
          BY <3>4, <5>1 DEF Put
        <5>3. instances'[t][i] = IF i = g THEN info ELSE instances[x][i]
          BY <5>1, <5>2 DEF Put
        <5> QED BY <3>1, <3>3, <4>2, <5>2, <5>3 DEF KnownInstances, Cached
      <4> QED BY <4>1, <4>2
    <3> QED BY <1>2, <2>2, <3>4 DEF KnownInstances, Cached
  <2> QED BY <1>5, <2>3, <2>4 DEF FinishCall
<1>6. ASSUME NEW x \in Topics, NEW w \in Writers, RemoveWriter(x, w)
      PROVE  KnownCalls' /\ KnownInstances'
  <2> DEFINE left == {i \in DOMAIN instances[x] : instances[x][i].writers \ {w} # {}}
  <2>1. /\ UNCHANGED call
        /\ instances' = [instances EXCEPT ![x] = [h \in left |->
             [key |-> instances[x][h].key, writers |-> instances[x][h].writers \ {w}]]]
    BY <1>6 DEF RemoveWriter
  <2>2. instances'[x] = [h \in left |->
             [key |-> instances[x][h].key, writers |-> instances[x][h].writers \ {w}]]
    BY <1>3, <2>1
  <2>3. \A i \in DOMAIN instances'[x] :
          i \in DOMAIN instances[x] /\ instances'[x][i].key = instances[x][i].key
    BY <2>2
  <2>4. \A t \in Topics : t # x => instances'[t] = instances[t]
    BY <1>3, <2>1
  <2> QED BY <1>1, <1>2, <2>1, <2>3, <2>4 DEF KnownCalls, KnownInstances, Cached
<1> QED BY <1>4, <1>5, <1>6 DEF CacheStep

LEMMA KeysInvNext == KeysInv /\ [KeysNext]_keysVars => KeysInv'
<1> SUFFICES ASSUME KeysInv, [KeysNext]_keysVars PROVE KeysInv'
  OBVIOUS
<1> USE DEF KeysInv
<1>1. CacheInv'
  <2>1. CacheStep => [Next]_cacheVars
    BY DEF CacheStep, Next
  <2>2. [Next]_cacheVars
    BY <2>1 DEF KeysNext, LearnType, AskType, AskFields, AskInstances, keysVars, cacheVars
  <2> QED BY <2>2, CacheInvNext
<1>2. ASSUME NEW type \in Types, LearnType(type) PROVE KeysInv'
  <2>1. \A t \in Topics : KnownKeyed(t) \subseteq KnownKeyed(t)'
    BY <1>2, KnownGrows DEF LearnType
  <2>2. KeysTypeOK' /\ FieldsRead'
    BY <1>2 DEF LearnType, cacheVars, KeysTypeOK, FieldsRead
  <2>3. Known'
    BY <1>2, <2>1 DEF LearnType, cacheVars, Known, KnownFields, KnownCalls, KnownInstances, Cached
  <2>4. row.pc = "shown" => row.topic \in Topics
    BY DEF KeysTypeOK, NoRow
  <2>5. InstancesRead'
    BY <1>2, <2>1, <2>4 DEF LearnType, InstancesRead
  <2> QED BY <1>1, <2>2, <2>3, <2>5
<1>3. CASE CacheStep
  <2>1. TypeOK
    BY DEF CacheInv
  <2>2. KeysTypeOK'
    BY <1>3 DEF CacheStep, KeysTypeOK
  <2>3. \A t \in Topics : KnownKeyed(t)' = KnownKeyed(t)
    BY <1>3 DEF CacheStep, KnownKeyed, Feeding
  <2>4. Known'
    BY <1>3, <2>1, <2>3, FieldsStay, KeysStayKnown DEF Known, KnownFields
  <2>5. FieldsRead'
    BY <1>3, <2>1, FieldsStay DEF CacheStep, KeysTypeOK, FieldsRead, NoRow
  <2>6. InstancesRead'
    BY <1>3, <2>3 DEF CacheStep, KeysTypeOK, InstancesRead, NoRow
  <2> QED BY <1>1, <2>2, <2>4, <2>5, <2>6
<1>4. UNCHANGED <<cacheVars, schemas>> => Known'
  BY DEF cacheVars, Known, KnownFields, KnownCalls, KnownInstances, KnownKeyed, Feeding, Cached
<1>5. ASSUME NEW tr \in Tracks, AskType(tr) PROVE KeysInv'
  BY <1>1, <1>4, <1>5, CacheConstants DEF AskType, KeysTypeOK, FieldsRead, InstancesRead
<1>6. CASE AskFields
  <2>1. row.topic \in Topics
    BY <1>6 DEF AskFields, KeysTypeOK, NoRow
  <2>2. keyFields[row.topic] = NoType => Cached(row.topic) = {}
    BY <2>1 DEF CacheInv, KeyFieldsBeforeInstances
  <2>3. keyFields[row.topic] \in Fields
    BY <2>1 DEF CacheInv, TypeOK, Fields
  <2>4. KeysTypeOK'
    BY <1>6, <2>1, <2>3 DEF AskFields, KeysTypeOK
  <2>5. FieldsRead' /\ InstancesRead'
    BY <1>6, <2>2 DEF AskFields, cacheVars, FieldsRead, InstancesRead
  <2> QED BY <1>1, <1>4, <1>6, <2>4, <2>5 DEF AskFields
<1>7. CASE AskInstances
  <2>1. row \in [pc : {"instances"}, topic : Topics, fields : Fields, first : BOOLEAN]
    BY <1>7 DEF AskInstances, KeysTypeOK, NoRow
  <2>2. row.topic \in Topics
    BY <2>1
  <2>3. \A i \in ActiveInstances(row.topic) :
          i \in InstanceKey /\ i.key \in KnownKeyed(row.topic)
    <3>1. \A h \in Cached(row.topic) :
            h \in Handles /\ instances[row.topic][h].key \in KeyedTypes
      BY <2>2 DEF CacheInv, TypeOK, InstanceInfo, Cached
    <3>2. \A h \in Cached(row.topic) : instances[row.topic][h].key \in KnownKeyed(row.topic)
      BY <2>2 DEF Known, KnownInstances
    <3> QED BY <3>1, <3>2 DEF ActiveInstances, InstanceKey
  <2>4. KeysTypeOK'
    BY <1>7, <2>1, <2>3 DEF AskInstances, KeysTypeOK
  <2>5. FieldsRead'
    BY <1>7, <2>1 DEF AskInstances, cacheVars, FieldsRead
  <2>6. KnownKeyed(row.topic)' = KnownKeyed(row'.topic)
    BY <1>7 DEF AskInstances, KnownKeyed, Feeding
  <2>7. row'.topic = row.topic /\ row'.instances = ActiveInstances(row.topic) /\ UNCHANGED schemas
    BY <1>7 DEF AskInstances
  <2>8. InstancesRead'
    BY <2>3, <2>7 DEF InstancesRead, KnownKeyed, Feeding
  <2> QED BY <1>1, <1>4, <1>7, <2>4, <2>5, <2>8 DEF AskInstances
<1>8. CASE UNCHANGED keysVars
  BY <1>1, <1>4, <1>8 DEF keysVars, cacheVars, KeysTypeOK, FieldsRead, InstancesRead, KnownKeyed, Feeding
<1> QED BY <1>2, <1>3, <1>5, <1>6, <1>7, <1>8 DEF KeysNext

-----------------------------------------------------------------------------
(* The inductive invariant of a console that asks for keys. *)
THEOREM KeysInvariant == KeysSpec => []KeysInv
BY KeysInvInit, KeysInvNext, PTL DEF KeysSpec

(* A row shows the key fields its instances have, but for the instances that *)
(* came after the fields were read and were the first, and for those of a    *)
(* second keyed type known under the name.                                   *)
THEOREM RowsFitTogether == KeysSpec => []FieldsDescribeTheInstances
<1>1. KeysInv => FieldsDescribeTheInstances
  <2> SUFFICES ASSUME KeysInv, row.pc = "shown" PROVE FieldsDescribeTheInstances
    BY DEF FieldsDescribeTheInstances
  <2>1. row.topic \in Topics
    BY DEF KeysInv, KeysTypeOK, NoRow
  <2>2. row.fields # NoType => row.fields = keyFields[row.topic]
    BY DEF KeysInv, FieldsRead
  <2>3. row.fields # NoType => row.fields \in KnownKeyed(row.topic)
    BY <2>1, <2>2 DEF KeysInv, Known, KnownFields
  <2>4. row.fields = NoType => row.first
    BY DEF KeysInv, FieldsRead
  <2>5. \A i \in row.instances : i.key \in KnownKeyed(row.topic)
    BY DEF KeysInv, InstancesRead
  <2> QED BY <2>2, <2>3, <2>4, <2>5 DEF FieldsDescribeTheInstances
<1> QED BY KeysInvariant, <1>1, PTL
=============================================================================
