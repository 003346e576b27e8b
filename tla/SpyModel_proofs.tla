--------------------------- MODULE SpyModel_proofs ----------------------------
(***************************************************************************)
(* What holds of the spy's model for every network, every topic and any    *)
(* number of samples: an instance is attributed to a writer that is there, *)
(* whose departure is still to be processed, or that left samples unread   *)
(* when it was; only a departure takes instances away; and the model       *)
(* implements the abstract InstanceTracker.                                *)
(***************************************************************************)
EXTENDS SpyModel, Discovery_proofs

(* An instance or a sample the spy has is of a writer that is not its own. *)
DataIsRemote == \A w \in DataWriters : Shown(w) \/ HasUnread(w) => w \in Remote

(* OnlyLateSamplesLinger of the samples unread too: they may be delivered    *)
(* whenever their track runs.                                                *)
Accounted(w) == network[w].alive \/ DepartureOnTheWay(w) \/ w \in late

DataIsAccounted == \A w \in DataWriters : Shown(w) \/ HasUnread(w) => Accounted(w)

(* The inductive invariant. *)
ModelInv ==
  /\ DiscoveryInv
  /\ ModelTypeOK
  /\ DataIsRemote
  /\ DataIsAccounted

-----------------------------------------------------------------------------
(* The discovery half. *)

LEMMA ModelStepsDiscovery == [ModelNext]_modelVars => [DiscoveryNext]_discoveryVars
BY DEF ModelNext, modelVars, DiscoveryNext, DiscoveryOnly, WriterDiscoveredInModel, Receive, Deliver

LEMMA ModelTypeInit == ModelInit => ModelTypeOK
<1> SUFFICES ASSUME ModelInit PROVE ModelTypeOK
  OBVIOUS
<1>1. DiscoveryTypeOK
  BY DiscoveryTypeInit DEF ModelInit
<1> QED BY <1>1, SpyModelConstants DEF ModelInit, ModelTypeOK, Tracker!Init

LEMMA WriterTopic == \A w \in DataWriters : TopicOf[w] \in Topics
BY SpyModelConstants

(* What one sample in the instance cache, or one departure, changes. *)
LEMMA Published ==
  ASSUME publishers \in [Topics -> [Handles -> SUBSET DataWriters]],
         NEW t \in Topics, NEW h \in Handles, NEW w \in DataWriters, Tracker!Publish(t, h, w)
  PROVE  /\ publishers' \in [Topics -> [Handles -> SUBSET DataWriters]]
         /\ \A s \in Topics, i \in Handles, v \in DataWriters :
              v \in publishers'[s][i] <=> v \in publishers[s][i] \/ (s = t /\ i = h /\ v = w)
BY DEF Tracker!Publish

LEMMA Departed ==
  ASSUME publishers \in [Topics -> [Handles -> SUBSET DataWriters]],
         NEW t \in Topics, NEW w \in DataWriters, Tracker!Depart(t, w)
  PROVE  /\ publishers' \in [Topics -> [Handles -> SUBSET DataWriters]]
         /\ \A s \in Topics, i \in Handles, v \in DataWriters :
              v \in publishers'[s][i] <=> v \in publishers[s][i] /\ ~(s = t /\ v = w)
BY DEF Tracker!Depart

(* The writer the endpoint track looks at. *)
LEMMA WorkerType ==
  ASSUME DiscoveryTypeOK, worker # None
  PROVE  worker.guid \in DataWriters /\ worker.active \in BOOLEAN /\ worker.guid \in Guids
BY DiscoveryConstants DEF DiscoveryTypeOK, Guids

LEMMA ModelTypeStep == ModelTypeOK /\ [ModelNext]_modelVars => ModelTypeOK'
<1> SUFFICES ASSUME ModelTypeOK, [ModelNext]_modelVars PROVE ModelTypeOK'
  OBVIOUS
<1> USE DEF ModelTypeOK
<1>0. DiscoveryTypeOK'
  BY DiscoveryTypeStep, ModelStepsDiscovery
<1>1. CASE DiscoveryOnly
  BY <1>0, <1>1 DEF DiscoveryOnly
<1>2. CASE WriterDiscoveredInModel
  <2>1. worker # None /\ unread' = unread
    BY <1>2 DEF WriterDiscoveredInModel, WriterDiscovered
  <2>2. worker.guid \in DataWriters
    BY <2>1, WorkerType
  <2>3. late' \subseteq DataWriters
    BY <1>2, <2>2 DEF WriterDiscoveredInModel
  <2>4. publishers' \in [Topics -> [Handles -> SUBSET DataWriters]]
    BY <1>2, <2>2, WriterTopic, Departed DEF WriterDiscoveredInModel, ForgetDeparted
  <2> QED BY <1>0, <2>1, <2>3, <2>4
<1>3. ASSUME NEW w \in DataWriters, NEW h \in Handles, Receive(w, h) PROVE ModelTypeOK'
  <2>1. unread[w][h] \in 0..MaxUnread /\ unread[w][h] < MaxUnread /\ MaxUnread \in Nat
    BY <1>3, SpyModelConstants DEF Receive
  <2>2. unread[w][h] + 1 \in 0..MaxUnread
    BY <2>1
  <2>3. unread' \in [DataWriters -> [Handles -> 0..MaxUnread]]
    BY <1>3, <2>2 DEF Receive
  <2> QED BY <1>0, <1>3, <2>3 DEF Receive
<1>4. ASSUME NEW w \in DataWriters, NEW h \in Handles, Deliver(w, h) PROVE ModelTypeOK'
  <2>1. unread[w][h] \in 0..MaxUnread /\ unread[w][h] > 0 /\ MaxUnread \in Nat
    BY <1>4, SpyModelConstants DEF Deliver
  <2>2. unread[w][h] - 1 \in 0..MaxUnread
    BY <2>1
  <2>3. unread' \in [DataWriters -> [Handles -> 0..MaxUnread]]
    BY <1>4, <2>2 DEF Deliver
  <2>4. publishers' \in [Topics -> [Handles -> SUBSET DataWriters]]
    BY <1>4, WriterTopic, Published DEF Deliver
  <2> QED BY <1>0, <1>4, <2>3, <2>4 DEF Deliver
<1>5. CASE UNCHANGED modelVars
  BY <1>0, <1>5 DEF modelVars
<1> QED BY <1>1, <1>2, <1>3, <1>4, <1>5 DEF ModelNext

-----------------------------------------------------------------------------
(* What is accounted for stays so. *)

(* Only the end of the endpoint track's work ends a departure that is on its *)
(* way, and then of that writer.                                             *)
LEMMA DepartureStays ==
  ASSUME DiscoveryInv, Network \/ Notify \/ NewParticipantInfo \/ NewEndpointInfo,
         NEW w \in DataWriters, DepartureOnTheWay(w)
  PROVE  DepartureOnTheWay(w)'
<1> DEFINE c == "endpoints"
<1>1. DiscoveryTypeOK /\ c \in Channels /\ OnTheWay(c) \in Seq(Info)
  BY OnTheWayType DEF DiscoveryInv, Channels
<1>2. ASSUME NEW g \in Guids, NEW reason \in Reasons, NEW qos \in QoS, Announce(g, reason, qos)
      PROVE  DepartureOnTheWay(w)'
  <2> DEFINE info == InfoOf(g, reason, qos)
  <2>1. OnTheWay(c)' = OnTheWay(c) \/ OnTheWay(c)' = Append(OnTheWay(c), info)
    BY <1>1, <1>2, AnnounceSteps
  <2>2. worker' = worker /\ info \in Info
    BY <1>2, InfoOfType DEF Announce
  <2> HIDE DEF info
  <2>3. \A i \in DOMAIN OnTheWay(c) : i \in DOMAIN OnTheWay(c)' /\ OnTheWay(c)'[i] = OnTheWay(c)[i]
    BY <1>1, <2>1, <2>2, Appended
  <2> QED BY <2>2, <2>3 DEF DepartureOnTheWay
<1>3. CASE Notify
  <2>1. OnTheWay(c)' = OnTheWay(c) /\ worker' = worker
    BY <1>1, <1>3, NotifySteps DEF Notify
  <2> QED BY <2>1 DEF DepartureOnTheWay
<1>4. CASE NewParticipantInfo
  <2>1. OnTheWay(c)' = OnTheWay(c)
    BY <1>1, <1>4, ParticipantTrack, TakeSteps
  <2>2. worker' = worker
    BY <1>4 DEF NewParticipantInfo
  <2> QED BY <2>1, <2>2 DEF DepartureOnTheWay
<1>5. CASE NewEndpointInfo
  <2>1. TakeFirst(c) /\ worker = None
    BY <1>1, <1>5, EndpointTrack DEF NewEndpointInfo
  <2>2. /\ OnTheWay(c) # <<>> /\ OnTheWay(c)' = Tail(OnTheWay(c))
        /\ Head(queue[c]) = OnTheWay(c)[1]
    BY <1>1, <2>1, TakeSteps, Popped
  <2>3. PICK i \in DOMAIN OnTheWay(c) : OnTheWay(c)[i].guid = w /\ ~OnTheWay(c)[i].active
    BY <2>1 DEF DepartureOnTheWay
  <2>4. CASE i = 1
    <3>1. worker' = [pc |-> "writer", guid |-> w, active |-> OnTheWay(c)[1].active]
      BY <1>5, <2>2, <2>3, <2>4 DEF NewEndpointInfo
    <3>2. worker' # None /\ worker'.guid = w /\ worker'.active = OnTheWay(c)[i].active
      BY <3>1, <2>4 DEF None
    <3> QED BY <3>2, <2>3 DEF DepartureOnTheWay
  <2>5. CASE i # 1
    <3>1. i - 1 \in DOMAIN Tail(OnTheWay(c)) /\ Tail(OnTheWay(c))[i - 1] = OnTheWay(c)[i]
      <4>1. /\ DOMAIN OnTheWay(c) = 1..Len(OnTheWay(c)) /\ Len(OnTheWay(c)) \in Nat \ {0}
            /\ DOMAIN Tail(OnTheWay(c)) = 1..Len(OnTheWay(c)) - 1
            /\ \A j \in DOMAIN Tail(OnTheWay(c)) : Tail(OnTheWay(c))[j] = OnTheWay(c)[j + 1]
        BY <1>1, <2>2, Popped
      <4>2. i - 1 \in DOMAIN Tail(OnTheWay(c)) /\ (i - 1) + 1 = i
        BY <4>1, <2>5
      <4> QED BY <4>1, <4>2
    <3> QED BY <3>1, <2>2, <2>3 DEF DepartureOnTheWay
  <2> QED BY <2>4, <2>5
<1> QED BY <1>2, <1>3, <1>4, <1>5 DEF Network

(* A writer that stops being there has its departure announced. *)
LEMMA AccountedStays ==
  ASSUME DiscoveryInv, Network \/ Notify \/ NewParticipantInfo \/ NewEndpointInfo, late' = late,
         NEW w \in DataWriters, w \in Remote, Accounted(w)
  PROVE  Accounted(w)'
<1>1. CASE DepartureOnTheWay(w)
  BY <1>1, DepartureStays DEF Accounted
<1>2. CASE w \in late
  BY <1>2 DEF Accounted
<1>3. CASE network[w].alive
  <2>1. CASE Notify \/ NewParticipantInfo \/ NewEndpointInfo
    BY <1>3, <2>1 DEF Notify, NewParticipantInfo, NewEndpointInfo, netVars, Accounted
  <2>2. ASSUME NEW g \in Guids, NEW reason \in Reasons, NEW qos \in QoS, Announce(g, reason, qos)
        PROVE  Accounted(w)'
    <3>1. w \in Guids /\ w \in Endpoints
      BY DiscoveryConstants DEF Guids
    <3>2. CASE g # w \/ ActiveAfter(reason)
      <4>1. network' = [network EXCEPT ![g] = [alive |-> ActiveAfter(reason), seen |-> TRUE, qos |-> qos]]
        BY <2>2 DEF Announce, ActiveAfter
      <4>2. network'[w].alive
        BY <3>1, <3>2, <4>1, <1>3 DEF DiscoveryInv, DiscoveryTypeOK
      <4> QED BY <4>2 DEF Accounted
    <3>3. CASE g = w /\ ~ActiveAfter(reason)
      <4> DEFINE c == "endpoints"
                 info == InfoOf(g, reason, qos)
      <4>1. ChannelOf(w) = c /\ c \in Channels
        BY <3>1, ChannelsOfGuids
      <4>2. OnTheWay(c)' = Append(OnTheWay(c), info)
        BY <2>2, <3>3, <4>1, AnnounceSteps DEF DiscoveryInv
      <4>3. OnTheWay(c) \in Seq(Info) /\ info \in Info /\ info.guid = w /\ info.active = FALSE
        <5>1. OnTheWay(c) \in Seq(Info)
          BY <4>1, OnTheWayType DEF DiscoveryInv
        <5>2. info \in Info /\ info.guid = w /\ info.active = ActiveAfter(reason)
          BY <3>3, InfoOfType
        <5>3. ActiveAfter(reason) = FALSE
          BY <3>3 DEF ActiveAfter
        <5> QED BY <5>1, <5>2, <5>3
      <4> HIDE DEF info
      <4>4. /\ Len(OnTheWay(c)) + 1 \in DOMAIN OnTheWay(c)'
            /\ OnTheWay(c)'[Len(OnTheWay(c)) + 1] = info
        BY <4>2, <4>3, Appended
      <4>5. DepartureOnTheWay(w)'
        BY <4>3, <4>4 DEF DepartureOnTheWay
      <4> QED BY <4>5 DEF Accounted
    <3> QED BY <3>2, <3>3
  <2> QED BY <2>1, <2>2 DEF Network
<1> QED BY <1>1, <1>2, <1>3 DEF Accounted

-----------------------------------------------------------------------------
(* Who has instances. *)

(* A sample adds its own writer, and nobody is taken out. *)
LEMMA DeliverShows ==
  ASSUME ModelTypeOK, NEW x \in DataWriters, NEW h \in Handles, Deliver(x, h), NEW w \in DataWriters
  PROVE  /\ Shown(w) => Shown(w)'
         /\ Shown(w)' => Shown(w) \/ HasUnread(w)
         /\ HasUnread(w)' => HasUnread(w)
<1>1. TopicOf[w] \in Topics /\ TopicOf[x] \in Topics
  BY WriterTopic
<1>2. HasUnread(x)
  BY DEF Deliver, HasUnread
<1>3. HasUnread(w)' => HasUnread(w)
  <2>1. unread' = [unread EXCEPT ![x][h] = @ - 1]
    BY DEF Deliver
  <2>2. w # x => unread'[w] = unread[w]
    BY <2>1 DEF ModelTypeOK
  <2> QED BY <1>2, <2>2 DEF HasUnread
<1>4. CASE UNCHANGED publishers
  BY <1>3, <1>4 DEF Shown
<1>5. CASE Tracker!Publish(TopicOf[x], h, x)
  <2>1. \A i \in Handles : w \in publishers[TopicOf[w]][i] => w \in publishers'[TopicOf[w]][i]
    BY <1>1, <1>5, Published DEF ModelTypeOK
  <2>2. \A i \in Handles : w \in publishers'[TopicOf[w]][i] =>
          w \in publishers[TopicOf[w]][i] \/ w = x
    BY <1>1, <1>5, Published DEF ModelTypeOK
  <2> QED BY <1>2, <1>3, <2>1, <2>2 DEF Shown
<1> QED BY <1>4, <1>5 DEF Deliver

(* A writer the readers are matched with is there, or its departure is the   *)
(* one the listener is being told of: the latest info on the way is true.    *)
LEMMA MatchedAccounted ==
  ASSUME DiscoveryInv, NEW w \in DataWriters, w \in Remote, Matched(w)
  PROVE  Accounted(w)
<1> DEFINE c == "endpoints"
           infos == OnTheWay(c)
<1>1. CASE network[w].alive
  BY <1>1 DEF Accounted
<1>2. CASE ~network[w].alive
  <2>1. listener # None /\ listener.info.guid = w /\ listener.info \in Info
    BY <1>2, ListenerHasInfo DEF Matched, DiscoveryInv
  <2>2. ChannelOf(w) = c /\ c \in Channels /\ w \in Endpoints
    BY ChannelsOfGuids, DiscoveryConstants DEF Channels, Guids
  <2>3. queue[c] \in Seq(Info)
    BY <2>2 DEF DiscoveryInv, DiscoveryTypeOK
  <2>4. infos = Append(queue[c], listener.info)
    BY <2>1, <2>2 DEF OnTheWay
  <2>5. /\ Len(queue[c]) + 1 \in DOMAIN infos
        /\ infos[Len(queue[c]) + 1] = listener.info
        /\ \A j \in DOMAIN infos : ~(j > Len(queue[c]) + 1)
    BY <2>1, <2>3, <2>4
  <2>6. Latest(infos, Len(queue[c]) + 1)
    BY <2>5 DEF Latest
  <2>7. listener.info.active = network[w].alive
    BY <2>1, <2>2, <2>5, <2>6 DEF DiscoveryInv, LastAnnouncementWins
  <2> QED BY <1>2, <2>1, <2>5, <2>7 DEF DepartureOnTheWay, Accounted
<1> QED BY <1>1, <1>2

(* A departure takes away its own writer and no other. *)
LEMMA ForgetHides ==
  ASSUME ModelTypeOK, WriterDiscoveredInModel, NEW w \in DataWriters
  PROVE  /\ Shown(w)' => Shown(w)
         /\ w = worker.guid /\ ~worker.active => ~Shown(w)'
         /\ w # worker.guid \/ worker.active => Shown(w)' = Shown(w)
         /\ HasUnread(w)' = HasUnread(w)
<1>1. TopicOf[w] \in Topics /\ worker.guid \in DataWriters
  BY WriterTopic, WorkerType DEF WriterDiscoveredInModel, WriterDiscovered, ModelTypeOK
<1>2. HasUnread(w)' = HasUnread(w)
  BY DEF WriterDiscoveredInModel, HasUnread
<1>3. CASE worker.active
  BY <1>2, <1>3 DEF WriterDiscoveredInModel, ForgetDeparted, Shown
<1>4. CASE ~worker.active
  <2>1. TopicOf[worker.guid] \in Topics
    BY <1>1, WriterTopic
  <2>2. Tracker!Depart(TopicOf[worker.guid], worker.guid)
    BY <1>4 DEF WriterDiscoveredInModel, ForgetDeparted
  <2>3. \A i \in Handles :
          w \in publishers'[TopicOf[w]][i] <=> w \in publishers[TopicOf[w]][i] /\ w # worker.guid
    BY <1>1, <2>1, <2>2, Departed DEF ModelTypeOK
  <2> QED BY <1>2, <1>4, <2>3 DEF Shown
<1> QED BY <1>3, <1>4

-----------------------------------------------------------------------------
LEMMA ModelInvInit == ModelInit => ModelInv
<1> SUFFICES ASSUME ModelInit PROVE ModelInv
  OBVIOUS
<1>1. DiscoveryInv /\ ModelTypeOK
  BY DiscoveryInvInit, ModelTypeInit DEF ModelInit
<1>2. \A w \in DataWriters : ~Shown(w) /\ ~HasUnread(w)
  BY WriterTopic DEF ModelInit, Tracker!Init, Shown, HasUnread
<1> QED BY <1>1, <1>2 DEF ModelInv, DataIsRemote, DataIsAccounted

(* The data half of the invariant, one kind of step at a time. *)
LEMMA DataStep ==
  ModelInv /\ [ModelNext]_modelVars => DataIsRemote' /\ DataIsAccounted'
<1> SUFFICES ASSUME ModelInv, [ModelNext]_modelVars, NEW w \in DataWriters, Shown(w)' \/ HasUnread(w)'
             PROVE  w \in Remote /\ Accounted(w)'
  BY DEF DataIsRemote, DataIsAccounted
<1> USE DEF ModelInv
<1>1. Shown(w) \/ HasUnread(w) => w \in Remote /\ Accounted(w)
  BY DEF DataIsRemote, DataIsAccounted
<1>2. CASE DiscoveryOnly
  <2>1. Shown(w)' = Shown(w) /\ HasUnread(w)' = HasUnread(w) /\ late' = late
    BY <1>2 DEF DiscoveryOnly, Shown, HasUnread
  <2>2. Network \/ Notify \/ NewParticipantInfo \/ NewEndpointInfo
    BY <1>2 DEF DiscoveryOnly
  <2> QED BY <1>1, <2>1, <2>2, AccountedStays
<1>3. CASE WriterDiscoveredInModel
  <2>1. Shown(w) \/ HasUnread(w)
    BY <1>3, ForgetHides
  <2>2. /\ network' = network /\ worker # None /\ worker' = None
        /\ listener' = listener /\ queue' = queue
    BY <1>3 DEF WriterDiscoveredInModel, WriterDiscovered, netVars
  <2>3. w \in Remote /\ Accounted(w)
    BY <1>1, <2>1
  <2>4. CASE w = worker.guid /\ ~worker.active
    <3>1. HasUnread(w)
      BY <1>3, <2>4, ForgetHides
    <3>2. w \in late'
      BY <1>3, <2>4, <3>1 DEF WriterDiscoveredInModel
    <3> QED BY <2>3, <3>2 DEF Accounted
  <2>5. CASE w # worker.guid \/ worker.active
    <3>1. w \in late => w \in late'
      BY <1>3, <2>5 DEF WriterDiscoveredInModel
    <3>2. OnTheWay("endpoints")' = OnTheWay("endpoints")
      BY <2>2 DEF OnTheWay
    <3>3. DepartureOnTheWay(w) => DepartureOnTheWay(w)'
      BY <2>5, <3>2 DEF DepartureOnTheWay
    <3> QED BY <2>2, <2>3, <3>1, <3>3 DEF Accounted
  <2> QED BY <2>4, <2>5
<1>4. ASSUME NEW x \in DataWriters, NEW h \in Handles, Receive(x, h)
      PROVE  w \in Remote /\ Accounted(w)'
  <2>1. Shown(w)' = Shown(w)
    BY <1>4 DEF Receive, Shown
  <2>2. network' = network /\ late' = late /\ DepartureOnTheWay(w)' = DepartureOnTheWay(w)
    BY <1>4 DEF Receive, discoveryVars, netVars, pathVars, DepartureOnTheWay, OnTheWay
  <2>3. CASE w = x
    <3>1. w \in Remote /\ Matched(w)
      BY <1>4, <2>3, DiscoveryConstants DEF Receive, Remote, Guids
    <3>2. Accounted(w)
      BY <3>1, MatchedAccounted
    <3> QED BY <2>2, <3>1, <3>2 DEF Accounted
  <2>4. CASE w # x
    <3>1. unread'[w] = unread[w]
      BY <1>4, <2>4 DEF Receive, ModelTypeOK
    <3>2. w \in Remote /\ Accounted(w)
      BY <1>1, <2>1, <3>1 DEF HasUnread
    <3> QED BY <2>2, <3>2 DEF Accounted
  <2> QED BY <2>3, <2>4
<1>5. ASSUME NEW x \in DataWriters, NEW h \in Handles, Deliver(x, h) PROVE w \in Remote /\ Accounted(w)'
  <2>1. w \in Remote /\ Accounted(w)
    BY <1>1, <1>5, DeliverShows
  <2>2. network' = network /\ late' = late /\ DepartureOnTheWay(w)' = DepartureOnTheWay(w)
    BY <1>5 DEF Deliver, discoveryVars, netVars, pathVars, DepartureOnTheWay, OnTheWay
  <2> QED BY <2>1, <2>2 DEF Accounted
<1>6. CASE UNCHANGED modelVars
  <2>1. Shown(w)' = Shown(w) /\ HasUnread(w)' = HasUnread(w) /\ Accounted(w)' = Accounted(w)
    BY <1>6 DEF modelVars, discoveryVars, netVars, pathVars, Shown, HasUnread, Accounted,
                DepartureOnTheWay, OnTheWay
  <2> QED BY <1>1, <2>1
<1> QED BY <1>2, <1>3, <1>4, <1>5, <1>6 DEF ModelNext

LEMMA ModelInvStep == ModelInv /\ [ModelNext]_modelVars => ModelInv'
<1>1. ModelInv /\ [ModelNext]_modelVars => DiscoveryInv'
  BY ModelStepsDiscovery, DiscoveryInvStep DEF ModelInv
<1> QED BY <1>1, ModelTypeStep, DataStep DEF ModelInv

(* The model keeps the invariant of its two halves, and thereby every        *)
(* property of discovery that DiscoveryCorrect states, composed with the     *)
(* data path.                                                                *)
THEOREM ModelCorrect == ModelSpec => []ModelInv
BY ModelInvInit, ModelInvStep, PTL DEF ModelSpec

(* The model keeps its types. *)
THEOREM ModelTypes == ModelSpec => []ModelTypeOK
BY ModelCorrect, PTL DEF ModelInv

(* In the composed model too, what the spy has stored of a remote entity, or *)
(* has on its way, ends with what the network announced of it last.          *)
THEOREM ModelDatabaseFollows == ModelSpec => []LastAnnouncementWins
BY ModelCorrect, PTL DEF ModelInv, DiscoveryInv

(* The spy's own participant and endpoints are never in its database. *)
THEOREM ModelShowsOthersOnly == ModelSpec => []OwnEntitiesNeverShown
BY ModelCorrect, PTL DEF ModelInv, DiscoveryInv

(* An instance of "topics <name> keys" has a writer that is there, one whose *)
(* departure new_endpoint_info_ is still to process, or one of which samples *)
(* had been received, and not gone through add_data, when on_writer_changed  *)
(* ran.                                                                      *)
THEOREM ModelLingers == ModelSpec => []OnlyLateSamplesLinger
<1>1. ModelInv => OnlyLateSamplesLinger
  BY DEF ModelInv, DataIsAccounted, Accounted, OnlyLateSamplesLinger
<1> QED BY <1>1, ModelCorrect, PTL

(* on_writer_changed is the only step that takes instances from a writer, it *)
(* takes them from the writer it was called for, and the database then says  *)
(* that this writer has departed.                                            *)
THEOREM ModelForgetsDeparted == ModelSpec => NobodyForgottenAlive
<1>1. ModelInv /\ [ModelNext]_modelVars =>
        [\A w \in DataWriters :
           Shown(w) /\ ~Shown(w)' =>
             worker # None /\ worker.guid = w /\ ~worker.active /\ ~database[w].active]_modelVars
  <2> SUFFICES ASSUME ModelInv, ModelNext, NEW w \in DataWriters, Shown(w), ~Shown(w)'
               PROVE  worker # None /\ worker.guid = w /\ ~worker.active /\ ~database[w].active
    OBVIOUS
  <2>1. WriterDiscoveredInModel
    <3>1. ~DiscoveryOnly
      BY DEF DiscoveryOnly, Shown
    <3>2. ASSUME NEW x \in DataWriters, NEW h \in Handles, Receive(x, h) PROVE FALSE
      BY <3>2 DEF Receive, Shown
    <3>3. ASSUME NEW x \in DataWriters, NEW h \in Handles, Deliver(x, h) PROVE FALSE
      BY <3>3, DeliverShows DEF ModelInv
    <3> QED BY <3>1, <3>2, <3>3 DEF ModelNext
  <2>2. worker # None /\ w = worker.guid /\ ~worker.active
    BY <2>1, ForgetHides DEF ModelInv, WriterDiscoveredInModel, WriterDiscovered
  <2> QED BY <2>2 DEF ModelInv, DiscoveryInv, WorkerHasEntry
<1> QED BY <1>1, ModelCorrect, PTL DEF ModelSpec, NobodyForgottenAlive

(* Seen from "topics <name> keys" the model is the abstract tracker: each of *)
(* its steps adds one writer to one instance, takes one writer out of its    *)
(* topic, or changes no instance.                                            *)
THEOREM ModelImplementsTracker == ModelSpec => Tracker!Spec
<1>1. ModelInit => Tracker!Init
  BY DEF ModelInit
<1>2. ModelInv /\ [ModelNext]_modelVars => [Tracker!Next]_publishers
  <2> SUFFICES ASSUME ModelInv, [ModelNext]_modelVars, publishers' # publishers PROVE Tracker!Next
    OBVIOUS
  <2>1. CASE DiscoveryOnly \/ UNCHANGED modelVars
    BY <2>1 DEF DiscoveryOnly, modelVars
  <2>2. CASE WriterDiscoveredInModel
    <3>1. worker.guid \in DataWriters /\ TopicOf[worker.guid] \in Topics
      BY <2>2, WorkerType, WriterTopic DEF ModelInv, ModelTypeOK, WriterDiscoveredInModel, WriterDiscovered
    <3>2. Tracker!Depart(TopicOf[worker.guid], worker.guid)
      BY <2>2 DEF WriterDiscoveredInModel, ForgetDeparted
    <3> QED BY <3>1, <3>2 DEF Tracker!Next
  <2>3. ASSUME NEW w \in DataWriters, NEW h \in Handles, Receive(w, h) PROVE FALSE
    BY <2>3 DEF Receive
  <2>4. ASSUME NEW w \in DataWriters, NEW h \in Handles, Deliver(w, h) PROVE Tracker!Next
    <3>1. Tracker!Publish(TopicOf[w], h, w) /\ TopicOf[w] \in Topics
      BY <2>4, WriterTopic DEF Deliver
    <3> QED BY <3>1 DEF Tracker!Next
  <2> QED BY <2>1, <2>2, <2>3, <2>4 DEF ModelNext
<1> QED BY <1>1, <1>2, ModelCorrect, PTL DEF ModelSpec, Tracker!Spec

=============================================================================
