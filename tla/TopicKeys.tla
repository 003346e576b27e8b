------------------------------ MODULE TopicKeys ------------------------------
(***************************************************************************)
(* "topics <name> keys" against the instance cache: the console asks, for  *)
(* each topic the name matches, whether its type is known, for the names   *)
(* of its key fields and for its instances (visualization/ModelParser.cpp),*)
(* three questions with a critical section each, while tracks put samples  *)
(* in the cache and writers depart.                                        *)
(***************************************************************************)
EXTENDS InstanceCache

VARIABLES
  schemas,   \* types_discovered_: the types add_schema has brought
  row        \* the row of the answer the console is putting together

keysVars == <<cacheVars, schemas, row>>

NoRow == [pc |-> "none"]

KeysInit ==
  /\ Init
  /\ schemas = {}
  /\ row = NoRow

(* DataStreamer::add_schema *)
LearnType(type) ==
  /\ schemas' = schemas \cup {type}
  /\ UNCHANGED <<cacheVars, row>>

(* A sample gets to the cache once its type is known (DataStreamer::add_data). *)
CacheStep ==
  /\ \/ \E tr \in Tracks, w \in Writers : \E h \in HandlesOf(tr) :
          TypeOf[tr] \in schemas /\ BeginCall(tr, h, w)
     \/ \E tr \in Tracks : FinishCall(tr)
     \/ \E t \in Topics, w \in Writers : RemoveWriter(t, w)
  /\ UNCHANGED <<schemas, row>>

(* topics_keys_by_ddstopic, one turn of its loop: a topic, which is a name   *)
(* with a type, is left out when the type is unknown; from here on only the  *)
(* name is used.                                                             *)
AskType(tr) ==
  /\ row.pc \in {"none", "shown"}
  /\ TypeOf[tr] \in schemas
  /\ row' = [pc |-> "fields", topic |-> TopicOf[tr]]
  /\ UNCHANGED <<cacheVars, schemas>>

(* get_topic_key_fields.  For the property, the row also keeps whether       *)
(* there were no instances yet.                                              *)
AskFields ==
  /\ row.pc = "fields"
  /\ row' = [pc |-> "instances", topic |-> row.topic, fields |-> keyFields[row.topic],
             first |-> Cached(row.topic) = {}]
  /\ UNCHANGED <<cacheVars, schemas>>

(* get_active_instances: the keys of the entries that have a writer, each    *)
(* the content of a handle written as the members of one type.               *)
ActiveInstances(t) ==
  {[handle |-> h, key |-> instances[t][h].key] :
     h \in {x \in Cached(t) : instances[t][x].writers # {}}}

(* get_topic_instances *)
AskInstances ==
  /\ row.pc = "instances"
  /\ row' = [pc |-> "shown", topic |-> row.topic, fields |-> row.fields,
             first |-> row.first, instances |-> ActiveInstances(row.topic)]
  /\ UNCHANGED <<cacheVars, schemas>>

KeysNext ==
  \/ \E type \in Types : LearnType(type)
  \/ CacheStep
  \/ \E tr \in Tracks : AskType(tr)
  \/ AskFields
  \/ AskInstances

KeysSpec == KeysInit /\ [][KeysNext]_keysVars

-----------------------------------------------------------------------------
Fields == KeyedTypes \cup {NoType}
InstanceKey == [handle : Handles, key : KeyedTypes]

KeysTypeOK ==
  /\ schemas \subseteq Types
  /\ \/ row = NoRow
     \/ row \in [pc : {"fields"}, topic : Topics]
     \/ row \in [pc : {"instances"}, topic : Topics, fields : Fields, first : BOOLEAN]
     \/ row \in [pc : {"shown"}, topic : Topics, fields : Fields, first : BOOLEAN,
                 instances : SUBSET InstanceKey]

(* The types with a key the spy knows to be published under a topic name. *)
KnownKeyed(t) == {TypeOf[tr] : tr \in Feeding(t)} \cap schemas

(* A row fits together.  The key fields it shows are those every later row   *)
(* of the name will show.  An instance it shows has the members of these key *)
(* fields, but in two cases: the fields were read before the name had any    *)
(* instance (two critical sections), or two types with a key are known under *)
(* the name and the instance is of the other one (one cache per name).       *)
FieldsDescribeTheInstances ==
  row.pc = "shown" =>
    /\ row.fields # NoType => row.fields = keyFields[row.topic]
    /\ \A i \in row.instances :
         \/ row.fields = i.key
         \/ row.fields = NoType /\ row.first
         \/ {row.fields, i.key} \subseteq KnownKeyed(row.topic)
=============================================================================
