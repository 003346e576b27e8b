--------------------------- MODULE Discovery_proofs ---------------------------
(***************************************************************************)
(* What holds of discovery for every set of entities, every ownership and  *)
(* any number of announcements: the latest announcement of a remote entity *)
(* is neither lost nor overtaken, the spy never shows itself, and a writer *)
(* whose instances are looked at is in the database as the track says.     *)
(***************************************************************************)
EXTENDS Discovery, SequenceTheorems, TLAPS

(* Who is known, or about to be, has been announced. *)
SeenBeforeKnown ==
  \A c \in Channels : \A i \in DOMAIN OnTheWay(c) : network[OnTheWay(c)[i].guid].seen

(* Between the two halves of new_endpoint_info_ the entry stays what the     *)
(* first half stored: no other track writes it.                              *)
WorkerHasEntry ==
  worker # None =>
    worker.guid \in DOMAIN database /\ database[worker.guid].active = worker.active

(* The inductive invariant. *)
DiscoveryInv ==
  /\ DiscoveryTypeOK
  /\ OwnEntitiesNeverShown
  /\ SeenBeforeKnown
  /\ LastAnnouncementWins
  /\ WorkerHasEntry

-----------------------------------------------------------------------------
(* Sequences of infos. *)

LEMMA Appended ==
  ASSUME NEW S, NEW s \in Seq(S), NEW x \in S
  PROVE  /\ Append(s, x) \in Seq(S)
         /\ DOMAIN s = 1..Len(s) /\ Len(s) \in Nat
         /\ DOMAIN Append(s, x) = 1..Len(s) + 1
         /\ \A i \in DOMAIN s : Append(s, x)[i] = s[i]
         /\ Append(s, x)[Len(s) + 1] = x
BY AppendProperties, LenProperties

LEMMA Popped ==
  ASSUME NEW S, NEW s \in Seq(S), s # <<>>
  PROVE  /\ Head(s) = s[1] /\ Head(s) \in S
         /\ Tail(s) \in Seq(S)
         /\ Len(s) \in Nat \ {0}
         /\ DOMAIN s = 1..Len(s)
         /\ DOMAIN Tail(s) = 1..Len(s) - 1
         /\ \A i \in DOMAIN Tail(s) : Tail(s)[i] = s[i + 1]
BY HeadTailProperties, LenProperties, EmptySeq

(* What leaves the front was first, whatever is put at the end. *)
LEMMA PoppedAppended ==
  ASSUME NEW S, NEW s \in Seq(S), NEW x \in S, s # <<>>
  PROVE  Head(Append(s, x)) = Head(s) /\ Tail(Append(s, x)) = Append(Tail(s), x)
BY HeadTailAppend

LEMMA ChannelsOfGuids ==
  ASSUME NEW g \in Guids
  PROVE  /\ ChannelOf(g) \in Channels
         /\ g \in Participants <=> ChannelOf(g) = "participants"
         /\ g \in Endpoints <=> ChannelOf(g) = "endpoints"
BY DiscoveryConstants DEF ChannelOf, Channels, Guids

LEMMA ListenerHasInfo ==
  ASSUME DiscoveryTypeOK, listener # None
  PROVE  listener.info \in Info
BY DEF DiscoveryTypeOK

(* What is on its way through a channel. *)
LEMMA OnTheWayType ==
  ASSUME DiscoveryTypeOK, NEW c \in Channels
  PROVE  /\ OnTheWay(c) \in Seq(Info)
         /\ \A i \in DOMAIN OnTheWay(c) : ChannelOf(OnTheWay(c)[i].guid) = c
<1>1. queue[c] \in Seq(Info) /\ \A i \in DOMAIN queue[c] : ChannelOf(queue[c][i].guid) = c
  BY DEF DiscoveryTypeOK
<1>2. CASE listener # None /\ ChannelOf(listener.info.guid) = c
  <2>1. OnTheWay(c) = Append(queue[c], listener.info)
    BY <1>2 DEF OnTheWay
  <2> QED BY <1>1, <1>2, <2>1, ListenerHasInfo, Appended
<1>3. CASE ~(listener # None /\ ChannelOf(listener.info.guid) = c)
  <2>1. OnTheWay(c) = queue[c]
    BY <1>3 DEF OnTheWay
  <2> QED BY <1>1, <2>1
<1> QED BY <1>2, <1>3

-----------------------------------------------------------------------------
(* What the infos on their way and the entry tell of an entity of which the  *)
(* network's last word is `word`: LastAnnouncementWins of one entity.        *)
Right(g, infos, word, db) ==
  /\ \A i \in DOMAIN infos :
       infos[i].guid = g /\ Latest(infos, i) =>
         infos[i].active = word.alive /\ infos[i].qos = word.qos
  /\ (\A i \in DOMAIN infos : infos[i].guid # g) =>
       IF word.seen
         THEN g \in DOMAIN db /\ db[g] = [active |-> word.alive, qos |-> word.qos]
         ELSE g \notin DOMAIN db

LEMMA RightForEach ==
  LastAnnouncementWins <=>
    \A g \in Remote : Right(g, OnTheWay(ChannelOf(g)), network[g], database)
BY Zenon DEF LastAnnouncementWins, Right, Agrees

(* A new announcement is the latest of its entity. *)
LEMMA RightAnnounced ==
  ASSUME NEW infos \in Seq(Info), NEW info \in Info, NEW word, NEW db,
         info.active = word.alive, info.qos = word.qos
  PROVE  Right(info.guid, Append(infos, info), word, db)
<1> DEFINE more == Append(infos, info)
           n == Len(infos) + 1
<1>1. n \in DOMAIN more /\ more[n] = info /\ \A i \in DOMAIN more : i = n \/ n > i
  BY Appended
<1>2. ASSUME NEW i \in DOMAIN more, more[i].guid = info.guid, Latest(more, i)
      PROVE  more[i] = info
  BY <1>1, <1>2 DEF Latest
<1>3. ~\A i \in DOMAIN more : more[i].guid # info.guid
  BY <1>1
<1> HIDE DEF more
<1> QED BY <1>2, <1>3 DEF Right, more

(* And of no other. *)
LEMMA RightAfterOthers ==
  ASSUME NEW infos \in Seq(Info), NEW info \in Info, NEW word, NEW db,
         NEW g, g # info.guid, Right(g, infos, word, db)
  PROVE  Right(g, Append(infos, info), word, db)
<1> DEFINE more == Append(infos, info)
<1>1. /\ DOMAIN infos \subseteq DOMAIN more
      /\ \A i \in DOMAIN infos : more[i] = infos[i]
      /\ \A i \in DOMAIN more : i \in DOMAIN infos \/ more[i] = info
  BY Appended
<1> HIDE DEF more
<1>2. ASSUME NEW i \in DOMAIN more, more[i].guid = g, Latest(more, i)
      PROVE  i \in DOMAIN infos /\ infos[i] = more[i] /\ Latest(infos, i)
  BY <1>1, <1>2 DEF Latest
<1>3. (\A i \in DOMAIN more : more[i].guid # g) => \A i \in DOMAIN infos : infos[i].guid # g
  BY <1>1
<1>4. Right(g, more, word, db)
  BY <1>2, <1>3 DEF Right
<1> QED BY <1>4 DEF more

(* What is stored leaves what follows it the latest, or has been the latest. *)
LEMMA RightStored ==
  ASSUME NEW infos \in Seq(Info), infos # <<>>, NEW word, NEW db, NEW g,
         Right(g, infos, word, db), Head(infos).guid = g => word.seen
  PROVE  Right(g, Tail(infos), word, Stored(db, Head(infos)))
<1> DEFINE rest == Tail(infos)
           first == Head(infos)
<1>1. /\ DOMAIN infos = 1..Len(infos) /\ Len(infos) \in Nat \ {0}
      /\ DOMAIN rest = 1..Len(infos) - 1
      /\ \A i \in DOMAIN rest : rest[i] = infos[i + 1]
      /\ first = infos[1]
  BY Popped
<1> HIDE DEF rest, first
<1>2. ASSUME NEW i \in DOMAIN rest, rest[i].guid = g, Latest(rest, i)
      PROVE  rest[i].active = word.alive /\ rest[i].qos = word.qos
  <2>1. i + 1 \in DOMAIN infos /\ rest[i] = infos[i + 1]
    BY <1>1
  <2>2. Latest(infos, i + 1)
    <3> SUFFICES ASSUME NEW j \in DOMAIN infos, j > i + 1
                 PROVE  infos[j].guid # infos[i + 1].guid
      BY DEF Latest
    <3>1. j - 1 \in DOMAIN rest /\ j - 1 > i /\ rest[j - 1] = infos[(j - 1) + 1] /\ (j - 1) + 1 = j
      BY <1>1
    <3> QED BY <3>1, <2>1, <1>2 DEF Latest
  <2> QED BY <2>1, <2>2, <1>2 DEF Right
<1>3. ASSUME \A i \in DOMAIN rest : rest[i].guid # g
      PROVE  IF word.seen
               THEN /\ g \in DOMAIN Stored(db, first)
                    /\ Stored(db, first)[g] = [active |-> word.alive, qos |-> word.qos]
               ELSE g \notin DOMAIN Stored(db, first)
  <2>1. CASE first.guid = g
    <3>1. \A j \in DOMAIN infos : j > 1 => infos[j].guid # g
      <4> TAKE j \in DOMAIN infos
      <4> HAVE j > 1
      <4>1. j - 1 \in DOMAIN rest /\ rest[j - 1] = infos[(j - 1) + 1] /\ (j - 1) + 1 = j
        BY <1>1
      <4> QED BY <4>1, <1>3
    <3>2. 1 \in DOMAIN infos /\ infos[1].guid = g /\ Latest(infos, 1)
      BY <3>1, <2>1, <1>1 DEF Latest
    <3>3. first.active = word.alive /\ first.qos = word.qos
      BY <3>2, <1>1 DEF Right
    <3> QED BY <3>3, <2>1 DEF Stored, first
  <2>2. CASE first.guid # g
    <3>1. \A j \in DOMAIN infos : infos[j].guid # g
      <4> TAKE j \in DOMAIN infos
      <4>1. CASE j = 1
        BY <4>1, <2>2, <1>1
      <4>2. CASE j # 1
        <5>1. j - 1 \in DOMAIN rest /\ rest[j - 1] = infos[(j - 1) + 1] /\ (j - 1) + 1 = j
          BY <1>1, <4>2
        <5> QED BY <5>1, <1>3
      <4> QED BY <4>1, <4>2
    <3>2. IF word.seen
            THEN g \in DOMAIN db /\ db[g] = [active |-> word.alive, qos |-> word.qos]
            ELSE g \notin DOMAIN db
      BY <3>1 DEF Right
    <3>3. DOMAIN Stored(db, first) = DOMAIN db \cup {first.guid}
      BY DEF Stored
    <3>4. g \in DOMAIN db => Stored(db, first)[g] = db[g]
      BY <2>2 DEF Stored
    <3> QED BY <3>2, <3>3, <3>4, <2>2
  <2> QED BY <2>1, <2>2
<1>4. Right(g, rest, word, Stored(db, first))
  BY <1>2, <1>3 DEF Right
<1> QED BY <1>4 DEF rest, first

-----------------------------------------------------------------------------
(* How each step moves what is on its way. *)

(* The info an announcement prepares. *)
InfoOf(g, reason, qos) == [guid |-> g, active |-> ActiveAfter(reason), qos |-> qos]

LEMMA InfoOfType ==
  ASSUME NEW g \in Guids, NEW reason, NEW qos \in QoS
  PROVE  /\ InfoOf(g, reason, qos) \in Info
         /\ InfoOf(g, reason, qos).guid = g
         /\ InfoOf(g, reason, qos).active = ActiveAfter(reason)
         /\ InfoOf(g, reason, qos).qos = qos
BY DEF InfoOf, Info, ActiveAfter

LEMMA AnnounceSteps ==
  ASSUME DiscoveryTypeOK, NEW g \in Guids, NEW reason \in Reasons, NEW qos \in QoS,
         Announce(g, reason, qos), NEW c \in Channels
  PROVE  OnTheWay(c)' =
           IF g \in Remote /\ c = ChannelOf(g)
             THEN Append(OnTheWay(c), InfoOf(g, reason, qos)) ELSE OnTheWay(c)
<1> USE DEF Announce
<1>1. OnTheWay(c) = queue[c]
  BY DEF OnTheWay
<1>2. CASE g \in Remote
  <2>1. listener' = [pc |-> "notify", info |-> InfoOf(g, reason, qos)]
    BY <1>2 DEF Prepare, InfoOf
  <2>2. listener' # None /\ listener'.info = InfoOf(g, reason, qos)
    BY <2>1 DEF None
  <2>3. ChannelOf(listener'.info.guid) = ChannelOf(g)
    BY <2>2, InfoOfType
  <2>4. queue' = queue
    OBVIOUS
  <2> QED BY <1>1, <1>2, <2>2, <2>3, <2>4 DEF OnTheWay
<1>3. CASE g \notin Remote
  <2>1. listener' = None /\ queue' = queue
    BY <1>3 DEF Prepare
  <2> QED BY <1>1, <1>3, <2>1 DEF OnTheWay
<1> QED BY <1>2, <1>3

(* A notification moves nothing: the info was the last of its channel. *)
LEMMA NotifySteps ==
  ASSUME DiscoveryTypeOK, Notify, NEW c \in Channels
  PROVE  OnTheWay(c)' = OnTheWay(c)
<1> DEFINE d == ChannelOf(listener.info.guid)
<1>1. d \in Channels
  BY ListenerHasInfo, ChannelsOfGuids DEF Info, Notify
<1>2. queue'[c] = IF c = d THEN Append(queue[c], listener.info) ELSE queue[c]
  BY <1>1 DEF Notify, DiscoveryTypeOK
<1>3. OnTheWay(c)' = queue'[c]
  BY DEF Notify, OnTheWay
<1>4. OnTheWay(c) = IF d = c THEN Append(queue[c], listener.info) ELSE queue[c]
  BY DEF Notify, OnTheWay
<1> QED BY <1>2, <1>3, <1>4

(* A track takes the first of its channel. *)
TakeFirst(c) == queue[c] # <<>> /\ queue' = [queue EXCEPT ![c] = Tail(@)] /\ listener' = listener

LEMMA TakeSteps ==
  ASSUME DiscoveryTypeOK, NEW c \in Channels, TakeFirst(c)
  PROVE  /\ OnTheWay(c) # <<>>
         /\ Head(queue[c]) = Head(OnTheWay(c))
         /\ OnTheWay(c)' = Tail(OnTheWay(c))
         /\ \A d \in Channels : d # c => OnTheWay(d)' = OnTheWay(d)
<1> USE DEF TakeFirst
<1>1. queue[c] \in Seq(Info)
  BY DEF DiscoveryTypeOK
<1>2. queue'[c] = Tail(queue[c]) /\ \A d \in Channels : d # c => queue'[d] = queue[d]
  BY DEF DiscoveryTypeOK
<1>3. \A d \in Channels : d # c => OnTheWay(d)' = OnTheWay(d)
  BY <1>2 DEF OnTheWay
<1>4. CASE listener # None /\ ChannelOf(listener.info.guid) = c
  <2>1. OnTheWay(c) = Append(queue[c], listener.info)
    BY <1>4 DEF OnTheWay
  <2>2. OnTheWay(c)' = Append(Tail(queue[c]), listener.info)
    BY <1>2, <1>4 DEF OnTheWay
  <2>3. listener.info \in Info
    BY <1>4, ListenerHasInfo
  <2>4. OnTheWay(c) # <<>>
    BY <2>1, <2>3, <1>1, AppendProperties
  <2> QED BY <2>1, <2>2, <2>3, <2>4, <1>1, <1>3, PoppedAppended
<1>5. CASE ~(listener # None /\ ChannelOf(listener.info.guid) = c)
  <2>1. OnTheWay(c) = queue[c] /\ OnTheWay(c)' = Tail(queue[c])
    BY <1>2, <1>5 DEF OnTheWay
  <2> QED BY <2>1, <1>3
<1> QED BY <1>4, <1>5

-----------------------------------------------------------------------------
(* Type correctness. *)

LEMMA DiscoveryTypeInit == DiscoveryInit => DiscoveryTypeOK
<1> SUFFICES ASSUME DiscoveryInit PROVE DiscoveryTypeOK
  OBVIOUS
<1>1. AnyQoS \in QoS
  BY DiscoveryConstants DEF AnyQoS
<1>2. queue = [c \in Channels |-> <<>>] /\ <<>> \in Seq(Info)
  BY EmptySeq DEF DiscoveryInit
<1> QED BY <1>1, <1>2, DiscoveryConstants DEF DiscoveryInit, DiscoveryTypeOK

LEMMA StoredType ==
  ASSUME NEW info \in Info, NEW db, DOMAIN db \subseteq Guids, \A g \in DOMAIN db : db[g] \in Entry
  PROVE  /\ DOMAIN Stored(db, info) = DOMAIN db \cup {info.guid}
         /\ DOMAIN Stored(db, info) \subseteq Guids
         /\ \A g \in DOMAIN Stored(db, info) : Stored(db, info)[g] \in Entry
         /\ Stored(db, info)[info.guid] = [active |-> info.active, qos |-> info.qos]
         /\ \A g \in DOMAIN db : g # info.guid => Stored(db, info)[g] = db[g]
BY DEF Stored, Info, Entry

(* The first of a queue is an info of its channel. *)
LEMMA FirstOfQueue ==
  ASSUME DiscoveryTypeOK, NEW c \in Channels, queue[c] # <<>>
  PROVE  /\ Head(queue[c]) \in Info
         /\ ChannelOf(Head(queue[c]).guid) = c
         /\ Tail(queue[c]) \in Seq(Info)
         /\ \A i \in DOMAIN Tail(queue[c]) : ChannelOf(Tail(queue[c])[i].guid) = c
<1>1. queue[c] \in Seq(Info) /\ \A i \in DOMAIN queue[c] : ChannelOf(queue[c][i].guid) = c
  BY DEF DiscoveryTypeOK
<1> QED BY <1>1, Popped

LEMMA DiscoveryTypeStep == DiscoveryTypeOK /\ [DiscoveryNext]_discoveryVars => DiscoveryTypeOK'
<1> SUFFICES ASSUME DiscoveryTypeOK, [DiscoveryNext]_discoveryVars PROVE DiscoveryTypeOK'
  OBVIOUS
<1> USE DEF DiscoveryTypeOK, netVars
<1>1. ASSUME NEW g \in Guids, NEW reason \in Reasons, NEW qos \in QoS, Announce(g, reason, qos)
      PROVE  DiscoveryTypeOK'
  <2> USE DEF Announce
  <2>1. network' \in [Guids -> [alive : BOOLEAN, seen : BOOLEAN, qos : QoS]]
    BY <1>1
  <2>2. announced' \in 0..MaxAnnouncements
    BY <1>1, DiscoveryConstants DEF MayAnnounce
  <2>3. listener' = None \/ listener' \in [pc : {"notify"}, info : Info]
    BY <1>1, InfoOfType DEF Prepare, InfoOf
  <2> QED BY <1>1, <2>1, <2>2, <2>3
<1>2. CASE Notify
  <2> DEFINE d == ChannelOf(listener.info.guid)
  <2>1. d \in Channels /\ listener.info \in Info
    BY <1>2, ListenerHasInfo, ChannelsOfGuids DEF Info, Notify
  <2>2. \A c \in Channels : queue'[c] = IF c = d THEN Append(queue[c], listener.info) ELSE queue[c]
    BY <1>2, <2>1 DEF Notify
  <2>3. Append(queue[d], listener.info) \in Seq(Info)
    BY <2>1, Appended
  <2>4. queue' \in [Channels -> Seq(Info)]
    BY <1>2, <2>1, <2>3 DEF Notify
  <2>5. \A i \in DOMAIN Append(queue[d], listener.info) :
          ChannelOf(Append(queue[d], listener.info)[i].guid) = d
    BY <2>1, Appended
  <2>6. ASSUME NEW c \in Channels, NEW i \in DOMAIN queue'[c] PROVE ChannelOf(queue'[c][i].guid) = c
    BY <2>2, <2>5, <2>6
  <2> QED BY <1>2, <2>4, <2>6 DEF Notify
<1>3. CASE NewParticipantInfo
  <2>1. "participants" \in Channels
    BY DEF Channels
  <2>2. Head(queue["participants"]) \in Info
    BY <1>3, <2>1, FirstOfQueue DEF NewParticipantInfo
  <2>3. queue' \in [Channels -> Seq(Info)]
    BY <1>3, <2>1, FirstOfQueue DEF NewParticipantInfo
  <2>4. \A c \in Channels : \A i \in DOMAIN queue'[c] : ChannelOf(queue'[c][i].guid) = c
    BY <1>3, <2>1, FirstOfQueue DEF NewParticipantInfo
  <2>5. DOMAIN database' \subseteq Guids /\ \A g \in DOMAIN database' : database'[g] \in Entry
    BY <1>3, <2>2, StoredType DEF NewParticipantInfo
  <2> QED BY <1>3, <2>3, <2>4, <2>5 DEF NewParticipantInfo
<1>4. CASE NewEndpointInfo
  <2>1. "endpoints" \in Channels
    BY DEF Channels
  <2>2. Head(queue["endpoints"]) \in Info
    BY <1>4, <2>1, FirstOfQueue DEF NewEndpointInfo
  <2>3. queue' \in [Channels -> Seq(Info)]
    BY <1>4, <2>1, FirstOfQueue DEF NewEndpointInfo
  <2>4. \A c \in Channels : \A i \in DOMAIN queue'[c] : ChannelOf(queue'[c][i].guid) = c
    BY <1>4, <2>1, FirstOfQueue DEF NewEndpointInfo
  <2>5. DOMAIN database' \subseteq Guids /\ \A g \in DOMAIN database' : database'[g] \in Entry
    BY <1>4, <2>2, StoredType DEF NewEndpointInfo
  <2>6. worker' = None \/ worker' \in [pc : {"writer"}, guid : DataWriters, active : BOOLEAN]
    BY <1>4, <2>2 DEF NewEndpointInfo, Info
  <2> QED BY <1>4, <2>3, <2>4, <2>5, <2>6 DEF NewEndpointInfo
<1>5. CASE WriterDiscovered
  BY <1>5 DEF WriterDiscovered
<1>6. CASE UNCHANGED discoveryVars
  BY <1>6 DEF discoveryVars, pathVars
<1> QED BY <1>1, <1>2, <1>3, <1>4, <1>5, <1>6 DEF DiscoveryNext, Network

-----------------------------------------------------------------------------
(* The other conjuncts. *)

(* The two tracks, as they take from their channels. *)
LEMMA ParticipantTrack ==
  ASSUME DiscoveryTypeOK, NewParticipantInfo
  PROVE  /\ "participants" \in Channels /\ TakeFirst("participants")
         /\ database' = Stored(database, Head(OnTheWay("participants")))
         /\ network' = network
BY TakeSteps DEF NewParticipantInfo, TakeFirst, Channels, netVars

LEMMA EndpointTrack ==
  ASSUME DiscoveryTypeOK, NewEndpointInfo
  PROVE  /\ "endpoints" \in Channels /\ TakeFirst("endpoints")
         /\ database' = Stored(database, Head(OnTheWay("endpoints")))
         /\ network' = network
BY TakeSteps DEF NewEndpointInfo, TakeFirst, Channels, netVars

(* Storing the first of a channel keeps what was said of everybody. *)
LEMMA TrackKeeps ==
  ASSUME DiscoveryInv, NEW c \in Channels, TakeFirst(c), network' = network,
         database' = Stored(database, Head(OnTheWay(c)))
  PROVE  OwnEntitiesNeverShown' /\ SeenBeforeKnown' /\ LastAnnouncementWins'
<1> USE DEF DiscoveryInv
<1>1. /\ OnTheWay(c) # <<>> /\ OnTheWay(c)' = Tail(OnTheWay(c))
      /\ \A d \in Channels : d # c => OnTheWay(d)' = OnTheWay(d)
  BY TakeSteps
<1>2. OnTheWay(c) \in Seq(Info)
  BY OnTheWayType
<1>3. /\ Head(OnTheWay(c)) \in Info
      /\ Head(OnTheWay(c)) = OnTheWay(c)[1] /\ 1 \in DOMAIN OnTheWay(c)
      /\ \A i \in DOMAIN Tail(OnTheWay(c)) :
           i + 1 \in DOMAIN OnTheWay(c) /\ Tail(OnTheWay(c))[i] = OnTheWay(c)[i + 1]
  BY <1>1, <1>2, Popped
<1>4. OwnEntitiesNeverShown'
  <2>1. DOMAIN database' \subseteq Remote
    <3>1. Head(OnTheWay(c)).guid \in Remote
      BY <1>3 DEF OwnEntitiesNeverShown
    <3> QED BY <3>1 DEF OwnEntitiesNeverShown, Stored
  <2>2. ASSUME NEW d \in Channels, NEW i \in DOMAIN OnTheWay(d)'
        PROVE  OnTheWay(d)'[i].guid \in Remote
    BY <2>2, <1>1, <1>3 DEF OwnEntitiesNeverShown
  <2> QED BY <2>1, <2>2 DEF OwnEntitiesNeverShown
<1>5. SeenBeforeKnown'
  <2>1. ASSUME NEW d \in Channels, NEW i \in DOMAIN OnTheWay(d)'
        PROVE  network[OnTheWay(d)'[i].guid].seen
    BY <2>1, <1>1, <1>3 DEF SeenBeforeKnown
  <2> QED BY <2>1 DEF SeenBeforeKnown
<1>6. LastAnnouncementWins'
  <2>1. ASSUME NEW g \in Remote
        PROVE  Right(g, OnTheWay(ChannelOf(g))', network[g], database')
    <3>1. ChannelOf(g) \in Channels /\ Right(g, OnTheWay(ChannelOf(g)), network[g], database)
      BY ChannelsOfGuids, RightForEach DEF Remote
    <3>2. CASE ChannelOf(g) = c
      <4>1. Head(OnTheWay(c)).guid = g => network[g].seen
        BY <1>3 DEF SeenBeforeKnown
      <4>2. Right(g, Tail(OnTheWay(c)), network[g], Stored(database, Head(OnTheWay(c))))
        BY <3>1, <3>2, <4>1, <1>1, <1>2, RightStored
      <4> QED BY <4>2, <3>2, <1>1
    <3>3. CASE ChannelOf(g) # c
      <4>1. Head(OnTheWay(c)).guid # g
        BY <3>3, <1>3, OnTheWayType
      <4>2. g \in DOMAIN database' <=> g \in DOMAIN database
        BY <4>1 DEF Stored
      <4>3. g \in DOMAIN database => database'[g] = database[g]
        BY <4>1 DEF Stored
      <4>4. OnTheWay(ChannelOf(g))' = OnTheWay(ChannelOf(g))
        BY <3>1, <3>3, <1>1
      <4> QED BY <3>1, <4>2, <4>3, <4>4 DEF Right
    <3> QED BY <3>2, <3>3
  <2>2. LastAnnouncementWins' <=>
          \A g \in Remote : Right(g, OnTheWay(ChannelOf(g))', network'[g], database')
    BY Zenon DEF LastAnnouncementWins, Right, Agrees
  <2> QED BY <2>1, <2>2
<1> QED BY <1>4, <1>5, <1>6

(* A step that moves nothing keeps it too. *)
LEMMA NothingMoves ==
  ASSUME DiscoveryInv, network' = network, database' = database,
         \A c \in Channels : OnTheWay(c)' = OnTheWay(c)
  PROVE  OwnEntitiesNeverShown' /\ SeenBeforeKnown' /\ LastAnnouncementWins'
<1> USE DEF DiscoveryInv
<1>1. OwnEntitiesNeverShown'
  BY DEF OwnEntitiesNeverShown
<1>2. SeenBeforeKnown'
  BY DEF SeenBeforeKnown
<1>3. \A g \in Remote : OnTheWay(ChannelOf(g))' = OnTheWay(ChannelOf(g))
  BY ChannelsOfGuids DEF Remote
<1>4. LastAnnouncementWins'
  BY <1>3, Zenon DEF LastAnnouncementWins, Agrees
<1> QED BY <1>1, <1>2, <1>4

(* An announcement is the latest of its entity and says nothing of another. *)
LEMMA AnnounceKeeps ==
  ASSUME DiscoveryInv, NEW g \in Guids, NEW reason \in Reasons, NEW qos \in QoS,
         Announce(g, reason, qos)
  PROVE  OwnEntitiesNeverShown' /\ SeenBeforeKnown' /\ LastAnnouncementWins'
<1> USE DEF DiscoveryInv
<1> DEFINE info == InfoOf(g, reason, qos)
           k == ChannelOf(g)
<1>1. k \in Channels /\ info \in Info /\ info.guid = g
  BY ChannelsOfGuids, InfoOfType
<1>2. /\ info.active = (reason \in {"discovered", "changed_qos"}) /\ info.qos = qos
      /\ network'[g] = [alive |-> info.active, seen |-> TRUE, qos |-> qos]
      /\ \A h \in Guids : h # g => network'[h] = network[h]
  <2>1. info.active = (reason \in {"discovered", "changed_qos"}) /\ info.qos = qos
    BY InfoOfType DEF ActiveAfter
  <2>2. network' = [network EXCEPT ![g] = [alive |-> reason \in {"discovered", "changed_qos"},
                                          seen |-> TRUE, qos |-> qos]]
    BY DEF Announce
  <2>3. network'[g] = [alive |-> reason \in {"discovered", "changed_qos"}, seen |-> TRUE, qos |-> qos]
    BY <2>2 DEF DiscoveryTypeOK
  <2>4. \A h \in Guids : h # g => network'[h] = network[h]
    BY <2>2 DEF DiscoveryTypeOK
  <2> HIDE DEF info
  <2> QED BY <2>1, <2>3, <2>4, Zenon
<1>3. database' = database
  BY DEF Announce
<1>4. \A c \in Channels : OnTheWay(c) \in Seq(Info)
  BY OnTheWayType
<1>5. \A c \in Channels :
        OnTheWay(c)' = IF g \in Remote /\ c = k THEN Append(OnTheWay(c), info) ELSE OnTheWay(c)
  BY AnnounceSteps
<1> HIDE DEF info, k
<1>6. ASSUME NEW c \in Channels, NEW i \in DOMAIN OnTheWay(c)'
      PROVE  \/ i \in DOMAIN OnTheWay(c) /\ OnTheWay(c)'[i] = OnTheWay(c)[i]
             \/ g \in Remote /\ OnTheWay(c)'[i] = info
  BY <1>1, <1>4, <1>5, <1>6, Appended
<1>7. OwnEntitiesNeverShown'
  BY <1>1, <1>3, <1>6 DEF OwnEntitiesNeverShown
<1>8. SeenBeforeKnown'
  <2>1. ASSUME NEW c \in Channels, NEW i \in DOMAIN OnTheWay(c)'
        PROVE  network'[OnTheWay(c)'[i].guid].seen
    <3>1. OnTheWay(c)'[i].guid = g \/ OnTheWay(c)'[i].guid # g
      OBVIOUS
    <3>2. CASE g \in Remote /\ OnTheWay(c)'[i] = info
      BY <3>2, <1>1, <1>2
    <3>3. CASE i \in DOMAIN OnTheWay(c) /\ OnTheWay(c)'[i] = OnTheWay(c)[i]
      <4>1. OnTheWay(c)[i].guid \in Guids
        <5>1. OnTheWay(c) \in Seq(Info) /\ i \in DOMAIN OnTheWay(c)
          BY <3>3, <1>4
        <5>2. OnTheWay(c)[i] \in Info
          BY <5>1, ElementOfSeq, LenProperties
        <5> QED BY <5>2 DEF Info
      <4> QED BY <3>3, <4>1, <1>2 DEF SeenBeforeKnown
    <3> QED BY <3>2, <3>3, <1>6
  <2> QED BY <2>1 DEF SeenBeforeKnown
<1>9. LastAnnouncementWins'
  <2>1. ASSUME NEW h \in Remote
        PROVE  Right(h, OnTheWay(ChannelOf(h))', network'[h], database)
    <3>1. /\ h \in Guids /\ ChannelOf(h) \in Channels
          /\ Right(h, OnTheWay(ChannelOf(h)), network[h], database)
      BY ChannelsOfGuids, RightForEach DEF Remote
    <3>2. CASE h = g
      <4>1. OnTheWay(k)' = Append(OnTheWay(k), info)
        BY <3>2, <1>1, <1>5
      <4>2. info.active = network'[g].alive /\ info.qos = network'[g].qos
        BY <1>2
      <4>3. Right(info.guid, Append(OnTheWay(k), info), network'[g], database)
        BY <4>2, <1>1, <1>4, RightAnnounced
      <4> QED BY <4>1, <4>3, <3>2, <1>1 DEF k
    <3>3. CASE h # g
      <4>1. network'[h] = network[h]
        BY <3>1, <3>3, <1>2
      <4>2. CASE OnTheWay(ChannelOf(h))' = OnTheWay(ChannelOf(h))
        BY <4>1, <4>2, <3>1
      <4>3. CASE OnTheWay(ChannelOf(h))' = Append(OnTheWay(ChannelOf(h)), info)
        BY <4>1, <4>3, <3>1, <3>3, <1>1, <1>4, RightAfterOthers
      <4> QED BY <4>2, <4>3, <3>1, <1>5
    <3> QED BY <3>2, <3>3
  <2>2. LastAnnouncementWins' <=>
          \A h \in Remote : Right(h, OnTheWay(ChannelOf(h))', network'[h], database')
    BY Zenon DEF LastAnnouncementWins, Right, Agrees
  <2> QED BY <2>1, <2>2, <1>3
<1> QED BY <1>7, <1>8, <1>9

-----------------------------------------------------------------------------
LEMMA DiscoveryInvInit == DiscoveryInit => DiscoveryInv
<1> SUFFICES ASSUME DiscoveryInit PROVE DiscoveryInv
  OBVIOUS
<1>1. DiscoveryTypeOK
  BY DiscoveryTypeInit
<1>2. \A c \in Channels : OnTheWay(c) = <<>>
  BY DEF DiscoveryInit, OnTheWay
<1>3. DOMAIN database = {} /\ \A g \in Guids : ~network[g].seen
  BY DEF DiscoveryInit
<1>4. OwnEntitiesNeverShown /\ SeenBeforeKnown
  BY <1>2, <1>3 DEF OwnEntitiesNeverShown, SeenBeforeKnown
<1>5. LastAnnouncementWins
  <2>1. \A g \in Remote : g \in Guids /\ OnTheWay(ChannelOf(g)) = <<>>
    BY <1>2, ChannelsOfGuids DEF Remote
  <2>2. \A g \in Remote : Right(g, <<>>, network[g], database)
    BY <2>1, <1>3 DEF Right
  <2> QED BY <2>1, <2>2, RightForEach
<1>6. WorkerHasEntry
  BY DEF WorkerHasEntry, DiscoveryInit
<1> QED BY <1>1, <1>4, <1>5, <1>6 DEF DiscoveryInv

LEMMA WorkerStep == DiscoveryInv /\ [DiscoveryNext]_discoveryVars => WorkerHasEntry'
<1> SUFFICES ASSUME DiscoveryInv, [DiscoveryNext]_discoveryVars PROVE WorkerHasEntry'
  OBVIOUS
<1> USE DEF DiscoveryInv, WorkerHasEntry
<1>1. CASE Network
  BY <1>1 DEF Network, Announce
<1>2. CASE Notify
  BY <1>2 DEF Notify
<1>3. CASE NewParticipantInfo
  <2> DEFINE info == Head(queue["participants"])
  <2>1. info \in Info /\ ChannelOf(info.guid) = "participants" /\ "participants" \in Channels
    BY <1>3, FirstOfQueue DEF NewParticipantInfo, Channels
  <2>2. info.guid \in Participants
    BY <2>1, ChannelsOfGuids DEF Info
  <2>3. worker # None => worker.guid \in Endpoints
    BY DiscoveryConstants DEF DiscoveryTypeOK
  <2>4. worker # None => worker.guid # info.guid
    BY <2>2, <2>3, DiscoveryConstants
  <2>5. database' = Stored(database, info) /\ worker' = worker
    BY <1>3 DEF NewParticipantInfo
  <2> HIDE DEF info
  <2> QED BY <2>4, <2>5 DEF Stored
<1>4. CASE NewEndpointInfo
  <2> DEFINE info == Head(queue["endpoints"])
  <2>1. database' = Stored(database, info)
    BY <1>4 DEF NewEndpointInfo
  <2>2. info.guid \in DOMAIN database' /\ database'[info.guid].active = info.active
    BY <2>1 DEF Stored
  <2>3. worker' # None => worker'.guid = info.guid /\ worker'.active = info.active
    BY <1>4 DEF NewEndpointInfo
  <2> HIDE DEF info
  <2> QED BY <2>2, <2>3
<1>5. CASE WriterDiscovered
  BY <1>5 DEF WriterDiscovered
<1>6. CASE UNCHANGED discoveryVars
  BY <1>6 DEF discoveryVars, pathVars
<1> QED BY <1>1, <1>2, <1>3, <1>4, <1>5, <1>6 DEF DiscoveryNext

LEMMA DiscoveryInvStep == DiscoveryInv /\ [DiscoveryNext]_discoveryVars => DiscoveryInv'
<1> SUFFICES ASSUME DiscoveryInv, [DiscoveryNext]_discoveryVars PROVE DiscoveryInv'
  OBVIOUS
<1>1. DiscoveryTypeOK' /\ WorkerHasEntry'
  BY DiscoveryTypeStep, WorkerStep DEF DiscoveryInv
<1>2. OwnEntitiesNeverShown' /\ SeenBeforeKnown' /\ LastAnnouncementWins'
  <2>1. CASE Network
    BY <2>1, AnnounceKeeps DEF Network
  <2>2. CASE Notify
    <3>1. \A c \in Channels : OnTheWay(c)' = OnTheWay(c)
      BY <2>2, NotifySteps DEF DiscoveryInv
    <3>2. network' = network /\ database' = database
      BY <2>2 DEF Notify, netVars
    <3> QED BY <3>1, <3>2, NothingMoves
  <2>3. CASE NewParticipantInfo
    BY <2>3, ParticipantTrack, TrackKeeps DEF DiscoveryInv
  <2>4. CASE NewEndpointInfo
    BY <2>4, EndpointTrack, TrackKeeps DEF DiscoveryInv
  <2>5. CASE WriterDiscovered \/ UNCHANGED discoveryVars
    <3>1. /\ network' = network /\ database' = database
          /\ listener' = listener /\ queue' = queue
      BY <2>5 DEF WriterDiscovered, discoveryVars, netVars, pathVars
    <3>2. \A c \in Channels : OnTheWay(c)' = OnTheWay(c)
      BY <3>1 DEF OnTheWay
    <3> QED BY <3>1, <3>2, NothingMoves
  <2> QED BY <2>1, <2>2, <2>3, <2>4, <2>5 DEF DiscoveryNext
<1> QED BY <1>1, <1>2 DEF DiscoveryInv

(* Discovery keeps its types, whatever the network announces and in whatever *)
(* order the listener and the two tracks run.                                *)
THEOREM DiscoveryTypes == DiscoverySpec => []DiscoveryTypeOK
<1>1. DiscoveryTypeOK /\ [DiscoveryNext]_discoveryVars => DiscoveryTypeOK'
  BY DiscoveryTypeStep
<1> QED BY DiscoveryTypeInit, <1>1, PTL DEF DiscoverySpec

(* The latest announcement of a remote entity is neither lost nor overtaken  *)
(* on its way from the discovery listener to the database, the spy's own     *)
(* entities never get there, and on_writer_discovered looks at the instances *)
(* of a writer whose entry still is the one just stored.                     *)
THEOREM DiscoveryCorrect ==
  DiscoverySpec => [](LastAnnouncementWins /\ OwnEntitiesNeverShown /\ WorkerHasEntry)
<1>1. DiscoveryInv /\ [DiscoveryNext]_discoveryVars => DiscoveryInv'
  BY DiscoveryInvStep
<1>2. DiscoveryInv => LastAnnouncementWins /\ OwnEntitiesNeverShown /\ WorkerHasEntry
  BY DEF DiscoveryInv
<1> QED BY DiscoveryInvInit, <1>1, <1>2, PTL DEF DiscoverySpec

=============================================================================
