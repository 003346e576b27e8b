---------------------------- MODULE InstanceCache ----------------------------
(***************************************************************************)
(* The instance cache of the spy (model/InstanceCache.cpp): per topic name *)
(* the instances seen, the writers that publish each one, and the type the *)
(* key field names were taken from.                                        *)
(*                                                                         *)
(* add_or_update_instance drops the mutex while it serializes the key of a *)
(* new instance, so a call is up to two critical sections, and what the    *)
(* first one checked may not hold in the second.  The threads that call it *)
(* are the tracks of the DDS Pipe: a track carries the samples of one      *)
(* DdsTopic (a topic name and a type) and handles one sample at a time;    *)
(* two tracks share a topic name when two types are published under it.    *)
(***************************************************************************)
EXTENDS Naturals, FiniteSets

CONSTANTS
  Topics,        \* topic names
  Types,         \* dynamic types
  KeyedTypes,    \* the types with at least one @key member
  Handles,       \* instance handles of keyed samples
  NilHandle,     \* the handle of a sample whose type has no key
  Writers,       \* GUIDs of data writers
  Tracks,        \* the threads that deliver samples
  TopicOf,       \* [Tracks -> Topics]
  TypeOf,        \* [Tracks -> Types]
  MaxInstances,  \* MAX_INSTANCES_PER_TOPIC
  NoType         \* no key field names are known

ASSUME CacheConstants ==
  /\ KeyedTypes \subseteq Types
  /\ NoType \notin Types
  /\ NilHandle \notin Handles
  /\ TopicOf \in [Tracks -> Topics]
  /\ TypeOf \in [Tracks -> Types]
  /\ MaxInstances \in Nat \ {0}
  /\ IsFiniteSet(Tracks)

VARIABLES
  instances,   \* instances_by_topic_: per topic a partial function of handles
  keyFields,   \* key_fields_cache_: the type the names come from, or NoType
  call         \* per track: the add_or_update_instance call it is in

cacheVars == <<instances, keyFields, call>>

AnyHandle == Handles \cup {NilHandle}

(* The key JSON of an instance is the content of the handle read through a   *)
(* type; the handle is the key of the map, so the type is what is recorded.  *)
InstanceInfo == [key : KeyedTypes, writers : SUBSET Writers]

Idle == [pc |-> "idle"]
Slow(h, w) == [pc |-> "slow", handle |-> h, writer |-> w]

(* The handles the samples of a track can have. *)
HandlesOf(tr) == IF TypeOf[tr] \in KeyedTypes THEN Handles ELSE {NilHandle}

(* The tracks that can add instances to topic t. *)
Feeding(t) == {tr \in Tracks : TopicOf[tr] = t /\ TypeOf[tr] \in KeyedTypes}

(* Those that are serializing a key, without the mutex. *)
Serializing(t) == {tr \in Feeding(t) : call[tr] # Idle}

Cached(t) == DOMAIN instances[t]

-----------------------------------------------------------------------------
Init ==
  /\ instances = [t \in Topics |-> [h \in {} |-> {}]]
  /\ keyFields = [t \in Topics |-> NoType]
  /\ call = [tr \in Tracks |-> Idle]

(* Mutant: the names are extracted again from every sample's type. *)
ReextractedKeyFields(t, type) == IF type \in KeyedTypes THEN type ELSE NoType

(* extract_key_field_names_: the names are taken once, from the first type   *)
(* with key members that the topic shows.                                    *)
ExtractedKeyFields(t, type) ==
  IF keyFields[t] = NoType /\ type \in KeyedTypes THEN type ELSE keyFields[t]

(* Every call begins under the mutex with the key field names.               *)
Extract(tr) ==
  /\ call[tr] = Idle
  /\ keyFields' = [keyFields EXCEPT
                     ![TopicOf[tr]] = ExtractedKeyFields(TopicOf[tr], TypeOf[tr])]

HasKeyFields(tr) == ExtractedKeyFields(TopicOf[tr], TypeOf[tr]) # NoType

(* No type of the topic has a key: nothing is cached. *)
SkipUnkeyed(tr) ==
  /\ Extract(tr)
  /\ ~HasKeyFields(tr)
  /\ UNCHANGED <<instances, call>>

(* Fast path: the instance is cached, its writer is added. *)
UpdateCached(tr, h, w) ==
  /\ Extract(tr)
  /\ HasKeyFields(tr)
  /\ h \in Cached(TopicOf[tr])
  /\ instances' = [instances EXCEPT ![TopicOf[tr]][h].writers = @ \cup {w}]
  /\ UNCHANGED call

(* A new instance and a full topic: the sample is not tracked. *)
RejectFull(tr, h) ==
  /\ Extract(tr)
  /\ HasKeyFields(tr)
  /\ h \notin Cached(TopicOf[tr])
  /\ Cardinality(Cached(TopicOf[tr])) >= MaxInstances
  /\ UNCHANGED <<instances, call>>

(* Mutant: the limit is off by one. *)
BeginSerializeOneMore(tr, h, w) ==
  /\ Extract(tr)
  /\ HasKeyFields(tr)
  /\ h \notin Cached(TopicOf[tr])
  /\ Cardinality(Cached(TopicOf[tr])) <= MaxInstances
  /\ call' = [call EXCEPT ![tr] = Slow(h, w)]
  /\ UNCHANGED instances

(* A new instance and room for it: the mutex is released and the key is      *)
(* serialized.                                                               *)
BeginSerialize(tr, h, w) ==
  /\ Extract(tr)
  /\ HasKeyFields(tr)
  /\ h \notin Cached(TopicOf[tr])
  /\ Cardinality(Cached(TopicOf[tr])) < MaxInstances
  /\ call' = [call EXCEPT ![tr] = Slow(h, w)]
  /\ UNCHANGED instances

(* Insert or overwrite one entry of a topic's map. *)
Put(map, h, info) ==
  [x \in DOMAIN map \cup {h} |-> IF x = h THEN info ELSE map[x]]

(* Mutant: an empty key JSON is stored like any other. *)
StoreAnyKey(tr) ==
  /\ call[tr] # Idle
  /\ instances' = [instances EXCEPT ![TopicOf[tr]] =
         Put(@, call[tr].handle, [key |-> TypeOf[tr], writers |-> {call[tr].writer}])]
  /\ call' = [call EXCEPT ![tr] = Idle]
  /\ UNCHANGED keyFields

(* Mutant: the entry is replaced, with whom another track stored in it. *)
StoreFresh(tr) == TypeOf[tr] \in KeyedTypes /\ StoreAnyKey(tr)

(* The key of the new instance is ready: the mutex is taken again and the    *)
(* entry is written through the reference to the topic's map taken before    *)
(* the release.  Neither the limit nor the writer is looked at again, and an *)
(* entry another track stored meanwhile gets this key and one more writer.   *)
StoreKey(tr) ==
  LET t == TopicOf[tr]
      h == call[tr].handle
      others == IF h \in Cached(t) THEN instances[t][h].writers ELSE {}
  IN
  /\ call[tr] # Idle
  /\ TypeOf[tr] \in KeyedTypes
  /\ instances' = [instances EXCEPT ![t] =
         Put(@, h, [key |-> TypeOf[tr], writers |-> others \cup {call[tr].writer}])]
  /\ call' = [call EXCEPT ![tr] = Idle]
  /\ UNCHANGED keyFields

(* No key comes out of the payload (it does not deserialize, or its type has *)
(* no key member though another type of the topic has): nothing is stored.   *)
DropKey(tr) ==
  /\ call[tr] # Idle
  /\ call' = [call EXCEPT ![tr] = Idle]
  /\ UNCHANGED <<instances, keyFields>>

(* Mutant: an instance nobody publishes stays in the map. *)
RemoveWriterOnly(t, w) ==
  /\ instances' = [instances EXCEPT ![t] =
         [h \in DOMAIN @ |-> [@[h] EXCEPT !.writers = @ \ {w}]]]
  /\ UNCHANGED <<keyFields, call>>

(* on_writer_changed(w, t, active = false).  With active = true the handler  *)
(* returns at once: a writer is added by its samples.                        *)
RemoveWriter(t, w) ==
  /\ instances' = [instances EXCEPT ![t] =
         [h \in {x \in DOMAIN @ : @[x].writers \ {w} # {}} |->
            [key |-> @[h].key, writers |-> @[h].writers \ {w}]]]
  /\ UNCHANGED <<keyFields, call>>

(* add_or_update_instance: up to its return or the release of the mutex, and *)
(* from the release on.                                                      *)
BeginCall(tr, h, w) ==
  \/ SkipUnkeyed(tr)
  \/ UpdateCached(tr, h, w)
  \/ RejectFull(tr, h)
  \/ BeginSerialize(tr, h, w)

FinishCall(tr) == StoreKey(tr) \/ DropKey(tr)

-----------------------------------------------------------------------------
(* Any track may bring a sample of any writer at any time, and any departure *)
(* may be announced: the class itself relies on no order between the two.    *)
Next ==
  \/ \E tr \in Tracks, w \in Writers : \E h \in HandlesOf(tr) : BeginCall(tr, h, w)
  \/ \E tr \in Tracks : FinishCall(tr)
  \/ \E t \in Topics, w \in Writers : RemoveWriter(t, w)

Spec == Init /\ [][Next]_cacheVars

-----------------------------------------------------------------------------
(* The variables have the shapes the code gives them: in particular a stored *)
(* key representation is never the empty string, which is what the fast path *)
(* and "topic keys v" take for granted.                                      *)
TypeOK ==
  /\ instances \in [Topics -> UNION {[D -> InstanceInfo] : D \in SUBSET Handles}]
  /\ keyFields \in [Topics -> KeyedTypes \cup {NoType}]
  /\ call \in [Tracks -> {Idle} \cup {Slow(h, w) : h \in AnyHandle, w \in Writers}]
  /\ \A tr \in Tracks : call[tr] # Idle => call[tr].handle \in HandlesOf(tr)

(* An instance without writers is erased in the step that takes its last     *)
(* writer away: get_active_instances never has one to filter out, and the    *)
(* limit counts only instances the user can see.                             *)
NoOrphanInstance ==
  \A t \in Topics : \A h \in Cached(t) : instances[t][h].writers # {}

(* What the limit really bounds.  The limit is tested before the mutex is    *)
(* released and not again, so each further track of the topic can push it    *)
(* one instance over: a topic of one type holds MaxInstances, a topic of n   *)
(* keyed types MaxInstances + n - 1.                                         *)
LimitOvershoot(t) == MaxInstances + Cardinality(Feeding(t)) - 1

BoundedByFeeders ==
  \A t \in Topics :
    Cardinality(Cached(t)) + Cardinality(Serializing(t)) <= LimitOvershoot(t)

(* Instances are stored, and keys serialized, only for a topic whose key     *)
(* field names are known: read at one moment, instances never come without   *)
(* key fields, whatever unkeyed types are published under the same name.     *)
(* ("topic keys" reads the two in two critical sections, key fields first.)  *)
KeyFieldsBeforeInstances ==
  \A t \in Topics :
    Cached(t) # {} \/ Serializing(t) # {} => keyFields[t] # NoType

(* The cache implements the lock-free, thread-free tracker: whatever the     *)
(* interleaving, each call adds its writer to its instance in one step or    *)
(* does nothing, and a departure takes exactly the departed writer.          *)
PublishersOf(t, h) == IF h \in Cached(t) THEN instances[t][h].writers ELSE {}

Tracker == INSTANCE InstanceTracker WITH
  Capacity <- [t \in Topics |-> LimitOvershoot(t)],
  publishers <- [t \in Topics |-> [h \in Handles |-> PublishersOf(t, h)]]

ImplementsTracker == Tracker!Spec
=============================================================================
