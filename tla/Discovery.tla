------------------------------ MODULE Discovery ------------------------------
(***************************************************************************)
(* How an announcement of the DDS network becomes an entry of the spy's    *)
(* database: the discovery listener of the participant that sniffs the     *)
(* network (participant/SpyDdsParticipant.cpp, and SpyDdsXmlParticipant.cpp*)
(* with the same steps), the two internal topics of the DDS Pipe it feeds, *)
(* and the writers of SpyParticipant.cpp at the other end, each run by the *)
(* track of its topic.                                                     *)
(*                                                                         *)
(* Threads: the listener (Fast DDS calls it under the lock of its own      *)
(* participant discovery, so one announcement at a time), the track of     *)
(* participant infos and the track of endpoint infos.                      *)
(***************************************************************************)
EXTENDS Naturals, Sequences

CONSTANTS
  Participants,      \* GUIDs of participants
  Endpoints,         \* GUIDs of readers and writers
  DataWriters,       \* those of writers
  Owner,             \* [Endpoints -> Participants], by the GUID's prefix
  SpyParticipant,    \* the GUID of the spy's own participant
  QoS,               \* what a change of QoS changes (the partitions)
  MaxAnnouncements   \* bound: announcements the network makes

ASSUME DiscoveryConstants ==
  /\ Participants \cap Endpoints = {}
  /\ DataWriters \subseteq Endpoints
  /\ Owner \in [Endpoints -> Participants]
  /\ SpyParticipant \in Participants
  /\ QoS # {}
  /\ MaxAnnouncements \in Nat

VARIABLES
  network,     \* per GUID: the state and QoS it has announced last
  announced,   \* how many announcements there were (for the bound)
  listener,    \* the info a listener call has prepared and not yet queued
  queue,       \* per internal topic: the infos on their way
  database,    \* participant_database_ and endpoint_database_: per known GUID
  worker       \* the writer whose entry was stored and whose instances the
               \* endpoint track has not looked at yet

netVars == <<network, announced>>
pathVars == <<listener, queue, database, worker>>
discoveryVars == <<netVars, pathVars>>

Guids == Participants \cup Endpoints
Channels == {"participants", "endpoints"}
ChannelOf(g) == IF g \in Participants THEN "participants" ELSE "endpoints"

ParticipantOf(g) == IF g \in Participants THEN g ELSE Owner[g]
Remote == {g \in Guids : ParticipantOf(g) # SpyParticipant}

Info == [guid : Guids, active : BOOLEAN, qos : QoS]
Entry == [active : BOOLEAN, qos : QoS]

None == [pc |-> "none"]

AnyQoS == CHOOSE q \in QoS : TRUE

(* The reasons Fast DDS gives with an announcement, and what the network has *)
(* become with it: an announced entity is alive until it is removed or       *)
(* ignored.                                                                  *)
Reasons == {"discovered", "changed_qos", "removed", "ignored"}

-----------------------------------------------------------------------------
DiscoveryInit ==
  /\ network = [g \in Guids |-> [alive |-> FALSE, seen |-> FALSE, qos |-> AnyQoS]]
  /\ announced = 0
  /\ listener = None
  /\ queue = [c \in Channels |-> <<>>]
  /\ database = [g \in {} |-> None]
  /\ worker = None

(* The network: an endpoint is announced while its participant is, a removal *)
(* of a participant comes after those of its endpoints, and a removal tells  *)
(* the QoS the entity had.                                                   *)
MayAnnounce(g, reason, qos) ==
  /\ announced < MaxAnnouncements
  /\ network[g].alive <=> reason # "discovered"
  /\ reason \in {"removed", "ignored"} => qos = network[g].qos
  /\ IF reason = "discovered"
       THEN g \in Endpoints => network[Owner[g]].alive
       ELSE g \in Participants /\ reason # "changed_qos" =>
              \A e \in Endpoints : Owner[e] = g => ~network[e].alive

(* Mutant: a change of QoS is not a sign of life. *)
ActiveOnDiscoveryOnly(reason) == reason = "discovered"

(* The status the listener reads into the info's active flag. *)
ActiveAfter(reason) == reason \in {"discovered", "changed_qos"}

(* Mutant: the listener does not recognise the spy's own entities. *)
PrepareAlways(g, info) == listener' = [pc |-> "notify", info |-> info]

(* come_from_same_participant_: the handler returns at once. *)
Prepare(g, info) ==
  IF g \in Remote THEN listener' = [pc |-> "notify", info |-> info]
                  ELSE UNCHANGED listener

(* on_participant_discovery, on_reader_discovery, on_writer_discovery: the   *)
(* info is prepared and the base listener called, which tells the DDS Pipe.  *)
Announce(g, reason, qos) ==
  LET info == [guid |-> g, active |-> ActiveAfter(reason), qos |-> qos] IN
  /\ listener = None
  /\ MayAnnounce(g, reason, qos)
  /\ network' = [network EXCEPT ![g] =
                   [alive |-> reason \in {"discovered", "changed_qos"}, seen |-> TRUE, qos |-> qos]]
  /\ announced' = announced + 1
  /\ Prepare(g, info)
  /\ UNCHANGED <<queue, database, worker>>

(* Mutant: a later info overtakes an earlier one. *)
NotifyInFront ==
  /\ listener # None
  /\ queue' = [queue EXCEPT ![ChannelOf(listener.info.guid)] = <<listener.info>> \o @]
  /\ listener' = None
  /\ UNCHANGED <<netVars, database, worker>>

(* Mutant: the two internal readers are swapped. *)
NotifySwapped ==
  LET c == CHOOSE x \in Channels : x # ChannelOf(listener.info.guid) IN
  /\ listener # None
  /\ queue' = [queue EXCEPT ![c] = Append(@, listener.info)]
  /\ listener' = None
  /\ UNCHANGED <<netVars, database, worker>>

(* internal_notify_..._discovered_: the rest of the handler. *)
Notify ==
  /\ listener # None
  /\ queue' = [queue EXCEPT ![ChannelOf(listener.info.guid)] = Append(@, listener.info)]
  /\ listener' = None
  /\ UNCHANGED <<netVars, database, worker>>

(* SafeDatabase::add_or_modify *)
Stored(db, info) ==
  [g \in DOMAIN db \cup {info.guid} |->
     IF g = info.guid THEN [active |-> info.active, qos |-> info.qos] ELSE db[g]]

(* new_participant_info_ *)
NewParticipantInfo ==
  /\ queue["participants"] # <<>>
  /\ database' = Stored(database, Head(queue["participants"]))
  /\ queue' = [queue EXCEPT !["participants"] = Tail(@)]
  /\ UNCHANGED <<netVars, listener, worker>>

(* new_endpoint_info_, up to the store: a writer's instances come next. *)
NewEndpointInfo ==
  LET info == Head(queue["endpoints"]) IN
  /\ worker = None
  /\ queue["endpoints"] # <<>>
  /\ database' = Stored(database, info)
  /\ queue' = [queue EXCEPT !["endpoints"] = Tail(@)]
  /\ worker' = IF info.guid \in DataWriters
                 THEN [pc |-> "writer", guid |-> info.guid, active |-> info.active]
                 ELSE None
  /\ UNCHANGED <<netVars, listener>>

(* Mutant: the endpoint track does not come back from an inactive writer. *)
WriterDiscoveredActive ==
  /\ worker # None
  /\ worker.active
  /\ worker' = None
  /\ UNCHANGED <<netVars, listener, queue, database>>

(* on_writer_discovered, the end of new_endpoint_info_: the streamer drops   *)
(* the instances of a departed writer (SpyModel composes the two).           *)
WriterDiscovered ==
  /\ worker # None
  /\ worker' = None
  /\ UNCHANGED <<netVars, listener, queue, database>>

Network == \E g \in Guids, reason \in Reasons, qos \in QoS : Announce(g, reason, qos)

DiscoveryNext ==
  \/ Network
  \/ Notify
  \/ NewParticipantInfo
  \/ NewEndpointInfo
  \/ WriterDiscovered

(* A listener call ends, and a track with data waiting is run; the network   *)
(* announces what it likes.                                                  *)
DiscoveryFairness ==
  /\ WF_discoveryVars(Notify)
  /\ WF_discoveryVars(NewParticipantInfo)
  /\ WF_discoveryVars(NewEndpointInfo \/ WriterDiscovered)

DiscoverySpec == DiscoveryInit /\ [][DiscoveryNext]_discoveryVars /\ DiscoveryFairness

-----------------------------------------------------------------------------
DiscoveryTypeOK ==
  /\ network \in [Guids -> [alive : BOOLEAN, seen : BOOLEAN, qos : QoS]]
  /\ announced \in 0..MaxAnnouncements
  /\ listener = None \/ listener \in [pc : {"notify"}, info : Info]
  /\ queue \in [Channels -> Seq(Info)]
  /\ \A c \in Channels : \A i \in DOMAIN queue[c] : ChannelOf(queue[c][i].guid) = c
  /\ DOMAIN database \subseteq Guids
  /\ \A g \in DOMAIN database : database[g] \in Entry
  /\ worker = None
       \/ worker \in [pc : {"writer"}, guid : DataWriters, active : BOOLEAN]

(* The infos of a channel the spy has prepared or queued and not stored, the *)
(* latest last.                                                              *)
OnTheWay(c) ==
  IF listener # None /\ ChannelOf(listener.info.guid) = c
    THEN Append(queue[c], listener.info) ELSE queue[c]

Latest(infos, i) == \A j \in DOMAIN infos : j > i => infos[j].guid # infos[i].guid

Agrees(g) ==
  g \in DOMAIN database /\ database[g] = [active |-> network[g].alive, qos |-> network[g].qos]

(* The latest announcement of a remote entity is never lost and never        *)
(* overtaken by an earlier one: the latest info on its way, or with none on  *)
(* its way the entry, is what the network announced last, through leaving    *)
(* and coming back under the same GUID.                                      *)
LastAnnouncementWins ==
  \A g \in Remote :
    LET infos == OnTheWay(ChannelOf(g)) IN
    /\ \A i \in DOMAIN infos :
         infos[i].guid = g /\ Latest(infos, i) =>
           infos[i].active = network[g].alive /\ infos[i].qos = network[g].qos
    /\ (\A i \in DOMAIN infos : infos[i].guid # g) =>
         IF network[g].seen THEN Agrees(g) ELSE g \notin DOMAIN database

(* The spy never shows itself: neither its participant nor an endpoint of it *)
(* is stored or on its way.                                                  *)
OwnEntitiesNeverShown ==
  /\ DOMAIN database \subseteq Remote
  /\ \A c \in Channels : \A i \in DOMAIN OnTheWay(c) : OnTheWay(c)[i].guid \in Remote

(* When a remote entity stops changing, the database comes to say so and     *)
(* keeps saying so, however much others go on announcing.                    *)
DatabaseCatchesUp ==
  \A g \in Remote : \A alive \in BOOLEAN, qos \in QoS :
    <>[](network[g] = [alive |-> alive, seen |-> TRUE, qos |-> qos]) => <>[]Agrees(g)
=============================================================================
