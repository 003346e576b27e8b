------------------------------- MODULE SpyModel -------------------------------
(***************************************************************************)
(* The spy's model (model/SpyModel.hpp): the database discovery fills and  *)
(* the instances the data path fills, of one network.  The two paths share *)
(* nothing that orders them.  A sample waits in the history of the reader  *)
(* of its topic until a track takes it, a departure is processed by the    *)
(* endpoint track: whichever comes first.                                  *)
(*                                                                         *)
(* The data path is the abstract InstanceTracker, which InstanceCache      *)
(* implements: the call for a sample takes effect in one step between its  *)
(* being taken and its return, before which it is as good as unread.       *)
(***************************************************************************)
EXTENDS Discovery

CONSTANTS
  Topics,     \* topic names
  TopicOf,    \* [DataWriters -> Topics]
  Handles,    \* instance handles
  Room,       \* instances a topic may hold
  MaxUnread   \* bound: samples of an instance a writer has waiting

ASSUME SpyModelConstants ==
  /\ TopicOf \in [DataWriters -> Topics]
  /\ Room \in Nat
  /\ MaxUnread \in Nat

VARIABLES
  publishers,   \* the instances, as InstanceTracker has them
  unread,       \* per writer and instance: how many samples the readers have
                \* received that have not come to the instances yet
  late          \* for the properties: the writers with a sample unread when
                \* their last departure was processed

Tracker == INSTANCE InstanceTracker WITH
  Writers <- DataWriters, Capacity <- [t \in Topics |-> Room]

modelVars == <<discoveryVars, publishers, unread, late>>

ModelInit ==
  /\ DiscoveryInit
  /\ Tracker!Init
  /\ unread = [w \in DataWriters |-> [h \in Handles |-> 0]]
  /\ late = {}

(* A writer the readers of the spy are matched with: it is there, or the     *)
(* listener is being told that it is not.                                    *)
Matched(w) == network[w].alive \/ (listener # None /\ listener.info.guid = w)

(* The reader of the topic receives a sample.  From here on it is read in    *)
(* whatever order, and whether or not its writer is still there.             *)
Receive(w, h) ==
  /\ Matched(w)
  /\ ParticipantOf(w) # SpyParticipant
  /\ unread[w][h] < MaxUnread
  /\ unread' = [unread EXCEPT ![w][h] = @ + 1]
  /\ UNCHANGED <<discoveryVars, publishers, late>>

(* Mutant: the sample is attributed to whom the topic has, not to its source.*)
DeliverToAll(w, h) ==
  /\ unread[w][h] > 0
  /\ unread' = [unread EXCEPT ![w][h] = @ - 1]
  /\ publishers' = [publishers EXCEPT ![TopicOf[w]][h] =
                      @ \cup {x \in DataWriters : TopicOf[x] = TopicOf[w]}]
  /\ UNCHANGED <<discoveryVars, late>>

(* add_data: a sample is put in the instance cache, or is not (its type has  *)
(* no schema or no key, its topic no room).  Nobody asks for its writer.     *)
Deliver(w, h) ==
  /\ unread[w][h] > 0
  /\ unread' = [unread EXCEPT ![w][h] = @ - 1]
  /\ Tracker!Publish(TopicOf[w], h, w) \/ UNCHANGED publishers
  /\ UNCHANGED <<discoveryVars, late>>

HasUnread(w) == \E h \in Handles : unread[w][h] > 0

(* Mutant: the streamer is told of arrivals instead of departures. *)
ForgetArrived ==
  IF worker.active THEN Tracker!Depart(TopicOf[worker.guid], worker.guid)
                   ELSE UNCHANGED publishers

(* on_writer_changed: only a departure changes the instances. *)
ForgetDeparted ==
  IF worker.active THEN UNCHANGED publishers
                   ELSE Tracker!Depart(TopicOf[worker.guid], worker.guid)

(* The second half of new_endpoint_info_, now with what it does. *)
WriterDiscoveredInModel ==
  /\ WriterDiscovered
  /\ ForgetDeparted
  /\ late' = IF worker.active THEN late
             ELSE IF HasUnread(worker.guid) THEN late \cup {worker.guid}
             ELSE late \ {worker.guid}
  /\ UNCHANGED unread

(* The steps of Discovery that leave the streamer alone. *)
DiscoveryOnly ==
  /\ Network \/ Notify \/ NewParticipantInfo \/ NewEndpointInfo
  /\ UNCHANGED <<publishers, unread, late>>

ModelNext ==
  \/ DiscoveryOnly
  \/ WriterDiscoveredInModel
  \/ \E w \in DataWriters, h \in Handles : Receive(w, h) \/ Deliver(w, h)

(* That of discovery; nothing here needs a sample to be taken.               *)
ModelFairness ==
  /\ WF_modelVars(Notify /\ DiscoveryOnly)
  /\ WF_modelVars(NewParticipantInfo /\ DiscoveryOnly)
  /\ WF_modelVars((NewEndpointInfo /\ DiscoveryOnly) \/ WriterDiscoveredInModel)

ModelSpec == ModelInit /\ [][ModelNext]_modelVars /\ ModelFairness

-----------------------------------------------------------------------------
ModelTypeOK ==
  /\ DiscoveryTypeOK
  /\ publishers \in [Topics -> [Handles -> SUBSET DataWriters]]
  /\ unread \in [DataWriters -> [Handles -> 0..MaxUnread]]
  /\ late \subseteq DataWriters

(* Whom "topic keys" attributes an instance to. *)
Shown(w) == \E h \in Handles : w \in publishers[TopicOf[w]][h]

DepartureOnTheWay(w) ==
  \/ worker # None /\ worker.guid = w /\ ~worker.active
  \/ \E i \in DOMAIN OnTheWay("endpoints") :
       OnTheWay("endpoints")[i].guid = w /\ ~OnTheWay("endpoints")[i].active

(* An instance is attributed to a writer that is there, or whose departure   *)
(* the spy has yet to process; all that can bring a departed writer back is  *)
(* a sample it left behind, unread when its departure was processed.         *)
OnlyLateSamplesLinger ==
  \A w \in DataWriters :
    Shown(w) => network[w].alive \/ DepartureOnTheWay(w) \/ w \in late

(* A writer is not taken out while it is there and has been all along: only  *)
(* a departure the network announced takes instances away from it.           *)
NobodyForgottenAlive ==
  [][\A w \in DataWriters :
       Shown(w) /\ ~Shown(w)' =>
         worker # None /\ worker.guid = w /\ ~worker.active /\ ~database[w].active]_modelVars

(* A departed writer's instances are forgotten in the end, for good, unless  *)
(* it left samples behind unread.                                            *)
DepartedForgotten ==
  \A w \in DataWriters :
    <>[](~network[w].alive /\ w \notin late) => <>[]~Shown(w)

(* "Cleaning up instances when writers disappear" (model/InstanceCache.hpp): *)
(* when everything on the way has been processed, no departed writer has an  *)
(* instance.                                                                 *)
Settled == listener = None /\ worker = None /\ queue["endpoints"] = <<>>
             /\ \A w \in DataWriters : ~HasUnread(w)

DepartedHaveNoInstances ==
  Settled => \A w \in DataWriters : Shown(w) => network[w].alive
=============================================================================
