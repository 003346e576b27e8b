---------------------------- MODULE Queries_proofs ----------------------------
(***************************************************************************)
(* What holds of the answers of the console for every set of entities and  *)
(* topics, however discovery goes on between two loops of a query: what    *)
(* was there all the time is in the answer, and what the answer shows was  *)
(* there at some time.                                                     *)
(***************************************************************************)
EXTENDS Queries, Discovery_proofs

(* A query reads and shows what it was asked for. *)
OnScope(x) ==
  /\ x.q \in Query
  /\ x.todo \subseteq InScope(x.q)
  /\ x.found # Nobody =>
       x.found \in InScope(x.q) \cap Endpoints /\ x.q.ask \in {"endpoints", "endpoint"}
  /\ \A row \in x.rows \ {Blank} : row.about \in InScope(x.q)

(* A row the answer may show, by what was there at some moment. *)
WasThere(q, row, there) ==
  /\ q.ask = "participants" => row.about \in there
  /\ q.ask \in {"endpoints", "endpoint"} =>
       row.about \in there /\ row.participant \in there \cup {Nobody}
  /\ q.ask = "topics" =>
       /\ \E e \in there \cap Endpoints : TopicOf[e] = row.about
       /\ row.writers \cup row.readers \subseteq there
  /\ q.ask = "idl" => \E e \in there \cap WithIdl : TopicOf[e] = row.about

(* NothingPastShown, at any moment of a query. *)
ShowsNoPast(x, there) ==
  /\ x.q.ask \in {"participants", "endpoints", "endpoint"} => x.todo \subseteq there
  /\ x.q.ask = "topics" => \A t \in x.todo : \E e \in there \cap Endpoints : TopicOf[e] = t
  /\ x.found # Nobody => x.found \in there
  /\ \A row \in x.rows \ {Blank} : WasThere(x.q, row, there)

(* The rows NothingPresentMissed asks for, by what was there all the time.   *)
FullParticipant(p, row, there) ==
  /\ row # Blank /\ row.about = p
  /\ \A e \in there \cap Endpoints :
       Owner[e] = p => NameOf[TopicOf[e]] \in
         DOMAIN (IF e \in DataWriters THEN row.writers ELSE row.readers)

FullEndpoint(e, row, there) ==
  /\ row # Blank /\ row.about = e
  /\ Owner[e] \in there => row.participant = Owner[e]

FullTopic(t, row, there) ==
  /\ row # Blank /\ row.about = t
  /\ {x \in there \cap Endpoints : NameOf[TopicOf[x]] = NameOf[t]}
       \subseteq row.writers \cup row.readers

(* NothingPresentMissed, at any moment of a query: what is to be shown has   *)
(* its row, or is still to be read.                                          *)
MissesNoParticipant(x, there) ==
  \A p \in InScope(x.q) \cap there :
    p \in x.todo \/ \E row \in x.rows : FullParticipant(p, row, there)

MissesNoEndpoint(x, there) ==
  \A e \in InScope(x.q) \cap there :
    \/ e \in x.todo
    \/ e = x.found /\ x.found # Nobody
    \/ \E row \in x.rows : FullEndpoint(e, row, there)

MissesNoTopic(x, there) ==
  \A e \in there \cap Endpoints :
    TopicOf[e] \in x.q.filter =>
      TopicOf[e] \in x.todo \/ \E row \in x.rows : FullTopic(TopicOf[e], row, there)

MissesNoIdl(x, there) ==
  /\ x.rows # {} => x.todo = {}
  /\ \A e \in there \cap WithIdl :
       TopicOf[e] \in x.q.filter => TopicOf[e] \in x.todo \/ x.rows # {}

MissesNothing(x, there) ==
  /\ x.q.ask \in {"participants", "participant"} => MissesNoParticipant(x, there)
  /\ x.q.ask \in {"endpoints", "endpoint"} => MissesNoEndpoint(x, there)
  /\ x.q.ask = "topics" => MissesNoTopic(x, there)
  /\ x.q.ask = "idl" => MissesNoIdl(x, there)

QueryFits(x, throughout, sometime) ==
  OnScope(x) /\ ShowsNoPast(x, sometime) /\ MissesNothing(x, throughout)

(* The inductive invariant. *)
QueryInv ==
  /\ DiscoveryTypeOK
  /\ always \subseteq ever
  /\ ever \subseteq Guids
  /\ query # NoQuery => always \subseteq Active /\ Active \subseteq ever
  /\ query # NoQuery => QueryFits(query, always, ever)

-----------------------------------------------------------------------------
(* What each kind of query is about, and what its first loop finds. *)
LEMMA Asked ==
  ASSUME NEW q \in Query
  PROVE  /\ q.ask \in {"participants", "participant", "endpoints", "endpoint", "topics", "idl"}
         /\ q.ask = "participants" =>
              InScope(q) = Participants /\ Subjects(q) = Active \cap Participants
         /\ q.ask = "participant" =>
              /\ q.guid \in Participants
              /\ InScope(q) = {q.guid} /\ Subjects(q) = DOMAIN database \cap {q.guid}
         /\ q.ask = "endpoints" =>
              /\ q.kind \subseteq Endpoints
              /\ InScope(q) = q.kind /\ Subjects(q) = Active \cap q.kind
         /\ q.ask = "endpoint" =>
              /\ q.kind \subseteq Endpoints
              /\ InScope(q) = q.kind \cap {q.guid}
              /\ Subjects(q) = Active \cap q.kind \cap {q.guid}
         /\ q.ask \in {"topics", "idl"} =>
              InScope(q) = q.filter /\ Subjects(q) = GetTopics(q.filter)
<1>1. DataReaders \subseteq Endpoints /\ DataWriters \subseteq Endpoints
  BY DiscoveryConstants DEF DataReaders
<1>2. q.ask \in {"participants", "participant", "endpoints", "endpoint", "topics", "idl"}
  BY DEF Query
<1>3. /\ q.ask = "participant" => q.guid \in Participants
      /\ q.ask \in {"endpoints", "endpoint"} => q.kind \in {DataReaders, DataWriters}
  BY DEF Query
<1> QED BY <1>1, <1>2, <1>3 DEF InScope, Subjects

(* What a participant row, a topic row and an endpoint row hold at the       *)
(* moment they are read.                                                     *)
LEMMA ParticipantRowIsFull ==
  ASSUME NEW p, NEW there, there \subseteq Active
  PROVE  FullParticipant(p, ParticipantRow(p), there)
<1> DEFINE es == {e \in DOMAIN database \cap Endpoints : Owner[e] = p}
<1>1. ASSUME NEW e \in there \cap Endpoints, Owner[e] = p
      PROVE  e \in es
  BY <1>1 DEF Active
<1>2. \A S : \A e \in S : NameOf[TopicOf[e]] \in DOMAIN CountByName(S)
  BY DEF CountByName
<1>3. /\ ParticipantRow(p).about = p
      /\ ParticipantRow(p).writers = CountByName(es \cap DataWriters)
      /\ ParticipantRow(p).readers = CountByName(es \cap DataReaders)
      /\ ParticipantRow(p) # Blank
  BY DEF ParticipantRow, Blank
<1> HIDE DEF es
<1>4. ASSUME NEW e \in there \cap Endpoints, Owner[e] = p
      PROVE  NameOf[TopicOf[e]] \in DOMAIN (IF e \in DataWriters
               THEN ParticipantRow(p).writers ELSE ParticipantRow(p).readers)
  <2>1. CASE e \in DataWriters
    <3>1. e \in es \cap DataWriters
      BY <1>1, <1>4, <2>1
    <3> QED BY <1>2, <1>3, <2>1, <3>1
  <2>2. CASE e \notin DataWriters
    <3>1. e \in es \cap DataReaders
      BY <1>1, <1>4, <2>2 DEF DataReaders
    <3> QED BY <1>2, <1>3, <2>2, <3>1
  <2> QED BY <2>1, <2>2
<1> QED BY <1>3, <1>4 DEF FullParticipant

LEMMA TopicRowIsFull ==
  ASSUME NEW t, NEW there, there \subseteq Active
  PROVE  /\ FullTopic(t, TopicRow(t), there)
         /\ TopicRow(t).writers \cup TopicRow(t).readers \subseteq Active
<1>1. /\ TopicRow(t).about = t
      /\ TopicRow(t).writers = OfTopicName(t) \cap DataWriters
      /\ TopicRow(t).readers = OfTopicName(t) \cap DataReaders
      /\ TopicRow(t) # Blank
  BY DEF TopicRow, Blank
<1>2. OfTopicName(t) = {e \in Active \cap Endpoints : NameOf[TopicOf[e]] = NameOf[t]}
  BY DEF OfTopicName, ActiveEndpoints
<1>3. TopicRow(t).writers \cup TopicRow(t).readers = OfTopicName(t)
  BY <1>1, <1>2 DEF DataReaders
<1> QED BY <1>1, <1>2, <1>3 DEF FullTopic

LEMMA EndpointRowIsFull ==
  ASSUME NEW e, NEW there, there \subseteq Active
  PROVE  /\ FullEndpoint(e, EndpointRow(e), there)
         /\ EndpointRow(e).participant \in Active \cup {Nobody}
<1>1. /\ EndpointRow(e).about = e
      /\ EndpointRow(e).participant = ParticipantName(e)
      /\ EndpointRow(e) # Blank
  BY DEF EndpointRow, Blank
<1> QED BY <1>1 DEF FullEndpoint, ParticipantName

-----------------------------------------------------------------------------
(* As time passes there is less that was there all the time, and more that   *)
(* was there at some time: a query goes on fitting.                          *)
LEMMA TimePasses ==
  ASSUME NEW x, NEW less, NEW throughout, NEW sometime, NEW more,
         less \subseteq throughout, sometime \subseteq more,
         QueryFits(x, throughout, sometime)
  PROVE  QueryFits(x, less, more)
<1>1. OnScope(x) /\ ShowsNoPast(x, sometime) /\ MissesNothing(x, throughout)
  BY DEF QueryFits
<1>2. \A row : WasThere(x.q, row, sometime) => WasThere(x.q, row, more)
  BY DEF WasThere
<1>3. ShowsNoPast(x, more)
  BY <1>1, <1>2 DEF ShowsNoPast
<1>4. \A p, row : FullParticipant(p, row, throughout) => FullParticipant(p, row, less)
  BY Zenon DEF FullParticipant
<1>5. \A e, row : FullEndpoint(e, row, throughout) => FullEndpoint(e, row, less)
  BY DEF FullEndpoint
<1>6. \A t, row : FullTopic(t, row, throughout) => FullTopic(t, row, less)
  BY DEF FullTopic
<1>7. MissesNoParticipant(x, throughout) => MissesNoParticipant(x, less)
  BY <1>4 DEF MissesNoParticipant
<1>8. MissesNoEndpoint(x, throughout) => MissesNoEndpoint(x, less)
  BY <1>5 DEF MissesNoEndpoint
<1>9. MissesNoTopic(x, throughout) => MissesNoTopic(x, less)
  BY <1>6 DEF MissesNoTopic
<1>10. MissesNoIdl(x, throughout) => MissesNoIdl(x, less)
  BY DEF MissesNoIdl
<1>11. MissesNothing(x, less)
  BY <1>1, <1>7, <1>8, <1>9, <1>10, Zenon DEF MissesNothing
<1> QED BY <1>1, <1>3, <1>11 DEF QueryFits

(* A subject is read: its row takes its place. *)
Rowed(x, s, row) == [q |-> x.q, todo |-> x.todo \ {s}, found |-> Nobody, rows |-> x.rows \cup {row}]

LEMMA RowedOnScope ==
  ASSUME NEW x, OnScope(x), NEW s \in x.todo, NEW row, row = Blank \/ row.about = s
  PROVE  OnScope(Rowed(x, s, row))
<1> DEFINE y == Rowed(x, s, row)
<1>1. y.q = x.q /\ y.todo = x.todo \ {s} /\ y.found = Nobody /\ y.rows = x.rows \cup {row}
  BY DEF Rowed
<1> HIDE DEF y
<1>2. x.q \in Query /\ x.todo \subseteq InScope(x.q)
  BY DEF OnScope
<1>3. ASSUME NEW r \in y.rows \ {Blank}
      PROVE  r.about \in InScope(y.q)
  <2>1. CASE r \in x.rows
    BY <1>1, <1>3, <2>1, Zenon DEF OnScope
  <2>2. CASE r = row
    BY <1>1, <1>2, <1>3, <2>2
  <2> QED BY <1>1, <1>3, <2>1, <2>2
<1>4. y.todo \subseteq InScope(y.q)
  BY <1>1, <1>2
<1> QED BY <1>1, <1>2, <1>3, <1>4, Zenon DEF OnScope, y

LEMMA RowedShowsNoPast ==
  ASSUME NEW x, NEW there, ShowsNoPast(x, there), NEW s \in x.todo, NEW row,
         row = Blank \/ WasThere(x.q, row, there)
  PROVE  ShowsNoPast(Rowed(x, s, row), there)
<1> DEFINE y == Rowed(x, s, row)
<1>1. y.q = x.q /\ y.todo = x.todo \ {s} /\ y.found = Nobody /\ y.rows = x.rows \cup {row}
  BY DEF Rowed
<1> HIDE DEF y
<1>2. y.todo \subseteq x.todo
  BY <1>1
<1>3. ASSUME NEW r \in y.rows \ {Blank}
      PROVE  WasThere(x.q, r, there)
  <2>1. CASE r \in x.rows
    BY <1>3, <2>1, Zenon DEF ShowsNoPast
  <2>2. CASE r = row
    BY <1>3, <2>2
  <2> QED BY <1>1, <1>3, <2>1, <2>2
<1>4. x.q.ask \in {"participants", "endpoints", "endpoint"} => y.todo \subseteq there
  BY <1>2 DEF ShowsNoPast
<1>5. x.q.ask = "topics" => \A t \in y.todo : \E e \in there \cap Endpoints : TopicOf[e] = t
  BY <1>2 DEF ShowsNoPast
<1> QED BY <1>1, <1>3, <1>4, <1>5, Zenon DEF ShowsNoPast, y

LEMMA ParticipantRead ==
  ASSUME NEW x, NEW throughout, NEW sometime, QueryFits(x, throughout, sometime),
         throughout \subseteq Active, Active \subseteq sometime,
         NEW p \in x.todo, x.q.ask \in {"participants", "participant"}
  PROVE  QueryFits(Rowed(x, p, ParticipantRow(p)), throughout, sometime)
<1> DEFINE row == ParticipantRow(p)
           y == Rowed(x, p, row)
<1>1. OnScope(x) /\ ShowsNoPast(x, sometime) /\ MissesNoParticipant(x, throughout)
  BY DEF QueryFits, MissesNothing
<1>2. FullParticipant(p, row, throughout)
  BY ParticipantRowIsFull
<1>3. row.about = p
  BY <1>2 DEF FullParticipant
<1>4. y.q = x.q /\ y.todo = x.todo \ {p} /\ y.found = Nobody /\ y.rows = x.rows \cup {row}
  BY DEF Rowed
<1>5. OnScope(y)
  BY <1>1, <1>3, RowedOnScope
<1> HIDE DEF row
<1>6. WasThere(x.q, row, sometime)
  BY <1>1, <1>3 DEF WasThere, ShowsNoPast
<1>7. ShowsNoPast(y, sometime)
  BY <1>1, <1>6, RowedShowsNoPast
<1> HIDE DEF y
<1>8. MissesNoParticipant(y, throughout)
  BY <1>1, <1>2, <1>4 DEF MissesNoParticipant
<1>9. MissesNothing(y, throughout)
  BY <1>4, <1>8 DEF MissesNothing
<1> QED BY <1>5, <1>7, <1>9 DEF QueryFits, y, row

LEMMA TopicRead ==
  ASSUME NEW x, NEW throughout, NEW sometime, QueryFits(x, throughout, sometime),
         throughout \subseteq Active, Active \subseteq sometime,
         NEW t \in x.todo, x.q.ask = "topics"
  PROVE  QueryFits(Rowed(x, t, TopicRow(t)), throughout, sometime)
<1> DEFINE row == TopicRow(t)
           y == Rowed(x, t, row)
<1>1. OnScope(x) /\ ShowsNoPast(x, sometime) /\ MissesNoTopic(x, throughout)
  BY DEF QueryFits, MissesNothing
<1>2. FullTopic(t, row, throughout) /\ row.writers \cup row.readers \subseteq Active
  BY TopicRowIsFull
<1>3. row.about = t
  BY <1>2 DEF FullTopic
<1>4. y.q = x.q /\ y.todo = x.todo \ {t} /\ y.found = Nobody /\ y.rows = x.rows \cup {row}
  BY DEF Rowed
<1>5. OnScope(y)
  BY <1>1, <1>3, RowedOnScope
<1> HIDE DEF row
<1>6. WasThere(x.q, row, sometime)
  BY <1>1, <1>2, <1>3 DEF WasThere, ShowsNoPast
<1>7. ShowsNoPast(y, sometime)
  BY <1>1, <1>6, RowedShowsNoPast
<1> HIDE DEF y
<1>8. MissesNoTopic(y, throughout)
  BY <1>1, <1>2, <1>4 DEF MissesNoTopic
<1>9. MissesNothing(y, throughout)
  BY <1>4, <1>8 DEF MissesNothing
<1> QED BY <1>5, <1>7, <1>9 DEF QueryFits, y, row

(* An endpoint that has left before it is looked for again has a blank row;  *)
(* it was not there all the time.                                            *)
LEMMA EndpointGone ==
  ASSUME NEW x, NEW throughout, NEW sometime, QueryFits(x, throughout, sometime),
         throughout \subseteq Active, x.found = Nobody,
         NEW e \in x.todo, e \notin Active, x.q.ask \in {"endpoints", "endpoint"}
  PROVE  QueryFits(Rowed(x, e, Blank), throughout, sometime)
<1> DEFINE y == Rowed(x, e, Blank)
<1>1. OnScope(x) /\ ShowsNoPast(x, sometime) /\ MissesNoEndpoint(x, throughout)
  BY DEF QueryFits, MissesNothing
<1>2. y.q = x.q /\ y.todo = x.todo \ {e} /\ y.found = Nobody /\ y.rows = x.rows \cup {Blank}
  BY DEF Rowed
<1>3. OnScope(y)
  BY <1>1, RowedOnScope
<1>4. ShowsNoPast(y, sometime)
  BY <1>1, RowedShowsNoPast
<1> HIDE DEF y
<1>5. MissesNoEndpoint(y, throughout)
  BY <1>1, <1>2 DEF MissesNoEndpoint
<1>6. MissesNothing(y, throughout)
  BY <1>2, <1>5 DEF MissesNothing
<1> QED BY <1>3, <1>4, <1>6 DEF QueryFits, y


(* One still there waits for the name of its participant. *)
LEMMA EndpointFound ==
  ASSUME NEW x, NEW throughout, NEW sometime, QueryFits(x, throughout, sometime),
         x.found = Nobody, NEW e \in x.todo, x.q.ask \in {"endpoints", "endpoint"}
  PROVE  QueryFits([q |-> x.q, todo |-> x.todo \ {e}, found |-> e, rows |-> x.rows],
                   throughout, sometime)
<1> DEFINE y == [q |-> x.q, todo |-> x.todo \ {e}, found |-> e, rows |-> x.rows]
<1>1. OnScope(x) /\ ShowsNoPast(x, sometime) /\ MissesNoEndpoint(x, throughout)
  BY DEF QueryFits, MissesNothing
<1>2. y.q = x.q /\ y.todo = x.todo \ {e} /\ y.found = e /\ y.rows = x.rows
  OBVIOUS
<1> HIDE DEF y
<1>3. x.q \in Query /\ e \in InScope(x.q) /\ y.todo \subseteq InScope(x.q)
  BY <1>1, <1>2 DEF OnScope
<1>4. e \in Endpoints /\ e # Nobody
  BY <1>3, Asked, QueryConstants DEF Nobody
<1>5. OnScope(y)
  BY <1>1, <1>2, <1>3, <1>4, Zenon DEF OnScope
<1>6. e \in sometime /\ y.todo \subseteq sometime
  BY <1>1, <1>2 DEF ShowsNoPast
<1>7. ShowsNoPast(y, sometime)
  BY <1>1, <1>2, <1>6 DEF ShowsNoPast
<1>8. MissesNoEndpoint(y, throughout)
  BY <1>1, <1>2, <1>4 DEF MissesNoEndpoint
<1>9. MissesNothing(y, throughout)
  BY <1>2, <1>8 DEF MissesNothing
<1> QED BY <1>5, <1>7, <1>9 DEF QueryFits, y

LEMMA EndpointNamed ==
  ASSUME NEW x, NEW throughout, NEW sometime, QueryFits(x, throughout, sometime),
         throughout \subseteq Active, Active \subseteq sometime, x.found # Nobody
  PROVE  QueryFits([q |-> x.q, todo |-> x.todo, found |-> Nobody,
                    rows |-> x.rows \cup {EndpointRow(x.found)}], throughout, sometime)
<1> DEFINE row == EndpointRow(x.found)
           y == [q |-> x.q, todo |-> x.todo, found |-> Nobody, rows |-> x.rows \cup {row}]
<1>1. OnScope(x) /\ ShowsNoPast(x, sometime)
  BY DEF QueryFits
<1>2. x.found \in InScope(x.q) /\ x.q.ask \in {"endpoints", "endpoint"}
  BY <1>1 DEF OnScope
<1>3. MissesNoEndpoint(x, throughout)
  BY <1>2 DEF QueryFits, MissesNothing
<1>4. FullEndpoint(x.found, row, throughout) /\ row.participant \in Active \cup {Nobody}
  BY EndpointRowIsFull
<1>5. row.about = x.found
  BY <1>4 DEF FullEndpoint
<1> HIDE DEF row
<1>6. y.q = x.q /\ y.todo = x.todo /\ y.found = Nobody /\ y.rows = x.rows \cup {row}
  OBVIOUS
<1> HIDE DEF y
<1>7. WasThere(x.q, row, sometime)
  BY <1>1, <1>2, <1>4, <1>5 DEF WasThere, ShowsNoPast
<1>8. ASSUME NEW r \in y.rows \ {Blank}
      PROVE  r.about \in InScope(y.q) /\ WasThere(y.q, r, sometime)
  <2>1. CASE r \in x.rows
    <3>1. r.about \in InScope(x.q)
      BY <1>1, <1>8, <2>1, Zenon DEF OnScope
    <3>2. WasThere(x.q, r, sometime)
      BY <1>1, <1>8, <2>1, Zenon DEF ShowsNoPast
    <3> QED BY <1>6, <3>1, <3>2
  <2>2. CASE r = row
    BY <1>2, <1>5, <1>6, <1>7, <2>2
  <2> QED BY <1>6, <1>8, <2>1, <2>2
<1>9. x.q \in Query /\ x.todo \subseteq InScope(x.q)
  BY <1>1 DEF OnScope
<1>10. OnScope(y)
  BY <1>6, <1>8, <1>9, Zenon DEF OnScope
<1>11. x.todo \subseteq sometime
  BY <1>1, <1>2 DEF ShowsNoPast
<1>12. ShowsNoPast(y, sometime)
  BY <1>2, <1>6, <1>8, <1>11 DEF ShowsNoPast
<1>13. MissesNoEndpoint(y, throughout)
  BY <1>3, <1>4, <1>6 DEF MissesNoEndpoint
<1>14. MissesNothing(y, throughout)
  BY <1>2, <1>6, <1>13 DEF MissesNothing
<1> QED BY <1>10, <1>12, <1>14 DEF QueryFits, y, row

(* The first endpoint with an IDL ends the search. *)
LEMMA IdlFound ==
  ASSUME NEW x, NEW throughout, NEW sometime, QueryFits(x, throughout, sometime),
         NEW t \in x.todo, x.q.ask = "idl",
         NEW e \in sometime \cap WithIdl, TopicOf[e] = t
  PROVE  QueryFits([q |-> x.q, todo |-> {}, found |-> Nobody, rows |-> {[about |-> t]}],
                   throughout, sometime)
<1> DEFINE row == [about |-> t]
           y == [q |-> x.q, todo |-> {}, found |-> Nobody, rows |-> {row}]
<1>1. x.q \in Query /\ t \in InScope(x.q)
  BY DEF QueryFits, OnScope
<1>2. row.about = t
  OBVIOUS
<1> HIDE DEF row
<1>3. y.q = x.q /\ y.todo = {} /\ y.found = Nobody /\ y.rows = {row}
  OBVIOUS
<1> HIDE DEF y
<1>4. OnScope(y)
  BY <1>1, <1>2, <1>3 DEF OnScope
<1>5. WasThere(x.q, row, sometime)
  BY <1>2 DEF WasThere
<1>6. ShowsNoPast(y, sometime)
  BY <1>3, <1>5 DEF ShowsNoPast
<1>7. MissesNothing(y, throughout)
  BY <1>3 DEF MissesNothing, MissesNoIdl
<1> QED BY <1>4, <1>6, <1>7 DEF QueryFits, y, row

LEMMA NoIdlFound ==
  ASSUME NEW x, NEW throughout, NEW sometime, QueryFits(x, throughout, sometime),
         NEW t \in x.todo, x.q.ask = "idl",
         \A e \in throughout \cap WithIdl : TopicOf[e] # t
  PROVE  QueryFits([q |-> x.q, todo |-> x.todo \ {t}, found |-> Nobody, rows |-> {}],
                   throughout, sometime)
<1> DEFINE y == [q |-> x.q, todo |-> x.todo \ {t}, found |-> Nobody, rows |-> {}]
<1>1. OnScope(x) /\ MissesNoIdl(x, throughout)
  BY DEF QueryFits, MissesNothing
<1>2. y.q = x.q /\ y.todo = x.todo \ {t} /\ y.found = Nobody /\ y.rows = {}
  OBVIOUS
<1> HIDE DEF y
<1>3. OnScope(y)
  BY <1>1, <1>2 DEF OnScope
<1>4. ShowsNoPast(y, sometime)
  BY <1>2 DEF ShowsNoPast
<1>5. x.rows = {}
  BY <1>1 DEF MissesNoIdl
<1>6. MissesNoIdl(y, throughout)
  BY <1>1, <1>2, <1>5 DEF MissesNoIdl
<1>7. MissesNothing(y, throughout)
  BY <1>2, <1>6 DEF MissesNothing
<1> QED BY <1>3, <1>4, <1>7 DEF QueryFits, y

(* A query that has just been asked. *)
LEMMA JustAsked ==
  ASSUME NEW q \in Query, NEW active, active = Active
  PROVE  QueryFits([q |-> q, todo |-> Subjects(q), found |-> Nobody, rows |-> {}],
                   active, active)
<1> DEFINE y == [q |-> q, todo |-> Subjects(q), found |-> Nobody, rows |-> {}]
<1>1. y.q = q /\ y.todo = Subjects(q) /\ y.found = Nobody /\ y.rows = {}
  OBVIOUS
<1> HIDE DEF y
<1>2. Active \subseteq DOMAIN database
  BY DEF Active
<1>3. GetTopics(q.filter) = {TopicOf[e] : e \in Active \cap Endpoints} \cap q.filter
  BY DEF GetTopics, ActiveEndpoints
<1>4. WithIdl \subseteq Endpoints
  BY QueryConstants
<1>5. OnScope(y)
  BY <1>1, <1>3, Asked DEF OnScope
<1>6. ShowsNoPast(y, active)
  BY <1>1, <1>3, Asked DEF ShowsNoPast
<1>7. q.ask \in {"participants", "participant"} => MissesNoParticipant(y, active)
  BY <1>1, <1>2, Asked DEF MissesNoParticipant
<1>8. q.ask \in {"endpoints", "endpoint"} => MissesNoEndpoint(y, active)
  BY <1>1, Asked DEF MissesNoEndpoint
<1>9. q.ask = "topics" => MissesNoTopic(y, active)
  BY <1>1, <1>3, Asked DEF MissesNoTopic
<1>10. q.ask = "idl" => MissesNoIdl(y, active)
  BY <1>1, <1>3, <1>4, Asked DEF MissesNoIdl
<1> QED BY <1>1, <1>5, <1>6, <1>7, <1>8, <1>9, <1>10, Zenon DEF QueryFits, MissesNothing, y


-----------------------------------------------------------------------------
(* The inductive invariant: what it says, and each step. *)
LEMMA QueryInvImplies ==
  ASSUME QueryInv
  PROVE  QueryTypeOK /\ NothingPresentMissed /\ NothingPastShown
<1>1. QueryTypeOK
  BY DEF QueryTypeOK, QueryInv, QueryFits, OnScope
<1>2. ASSUME Complete
      PROVE  QueryFits(query, always, ever) /\ query.todo = {} /\ query.found = Nobody
  BY <1>2 DEF QueryInv, Complete
<1>3. ASSUME Complete
      PROVE  /\ query.q \in Query /\ ShowsNoPast(query, ever)
             /\ MissesNothing(query, always)
  BY <1>2, <1>3 DEF QueryFits, OnScope
<1>4. NothingPresentMissed
  <2> SUFFICES ASSUME Complete PROVE NothingPresentMissed
    BY DEF NothingPresentMissed
  <2>1. CASE query.q.ask \in {"participants", "participant"}
    <3>1. MissesNoParticipant(query, always)
      BY <1>3, <2>1 DEF MissesNothing
    <3> QED BY <1>2, <2>1, <3>1
         DEF MissesNoParticipant, FullParticipant, NothingPresentMissed, About
  <2>2. CASE query.q.ask \in {"endpoints", "endpoint"}
    <3>1. MissesNoEndpoint(query, always)
      BY <1>3, <2>2 DEF MissesNothing
    <3> QED BY <1>2, <2>2, <3>1 DEF MissesNoEndpoint, FullEndpoint, NothingPresentMissed, About
  <2>3. CASE query.q.ask = "topics"
    <3>1. MissesNoTopic(query, always)
      BY <1>3, <2>3 DEF MissesNothing
    <3> QED BY <1>2, <2>3, <3>1 DEF MissesNoTopic, FullTopic, NothingPresentMissed, About
  <2>4. CASE query.q.ask = "idl"
    <3>1. MissesNoIdl(query, always)
      BY <1>3, <2>4 DEF MissesNothing
    <3> QED BY <1>2, <2>4, <3>1 DEF MissesNoIdl, NothingPresentMissed
  <2> QED BY <1>3, <2>1, <2>2, <2>3, <2>4, Asked
<1>5. NothingPastShown
  <2> SUFFICES ASSUME Complete, NEW row \in query.rows \ {Blank}
               PROVE  CASE query.q.ask = "participants" -> row.about \in ever
                        [] query.q.ask = "participant" -> TRUE
                        [] query.q.ask \in {"endpoints", "endpoint"} ->
                             row.about \in ever /\ row.participant \in ever \cup {Nobody}
                        [] query.q.ask = "topics" ->
                             /\ \E e \in ever \cap Endpoints : TopicOf[e] = row.about
                             /\ row.writers \cup row.readers \subseteq ever
                        [] OTHER -> \E e \in ever \cap WithIdl : TopicOf[e] = row.about
    BY DEF NothingPastShown
  <2>1. WasThere(query.q, row, ever)
    BY <1>3 DEF ShowsNoPast
  <2>2. query.q.ask \in {"participants", "participant", "endpoints", "endpoint", "topics", "idl"}
    BY <1>3, Asked
  <2> QED BY <2>1, <2>2 DEF WasThere
<1> QED BY <1>1, <1>4, <1>5

LEMMA QueryInvInit == QueryInit => QueryInv
<1> SUFFICES ASSUME QueryInit PROVE QueryInv
  OBVIOUS
<1>1. DiscoveryTypeOK
  BY DiscoveryTypeInit DEF QueryInit
<1> QED BY <1>1 DEF QueryInit, QueryInv

LEMMA AnswerKeeps ==
  ASSUME QueryInv, query # NoQuery, UNCHANGED <<discoveryVars, always, ever>>,
         NEW y, query' = y, QueryFits(y, always, ever)
  PROVE  QueryInv'
<1>1. DiscoveryTypeOK'
  BY DiscoveryTypeStep DEF QueryInv
<1>2. Active' = Active
  BY DEF Active, discoveryVars, pathVars
<1>3. QueryFits(query, always, ever)'
  BY Zenon
<1> QED BY <1>1, <1>2, <1>3 DEF QueryInv

LEMMA AnswerStep ==
  ASSUME QueryInv, Answer
  PROVE  QueryInv'
<1>1. query # NoQuery
  BY DEF Answer, ReadParticipant, ReadTopic, ReadIdl, FindEndpoint, NameEndpoint, Show,
         Reading, Complete
<1>2. /\ QueryFits(query, always, ever)
      /\ always \subseteq Active /\ Active \subseteq ever
      /\ WithIdl \subseteq Endpoints
  BY <1>1, QueryConstants DEF QueryInv
<1>3. CASE \E p \in Participants : ReadParticipant(p)
  <2>1. PICK p \in Participants : ReadParticipant(p)
    BY <1>3
  <2>2. /\ query.q.ask \in {"participants", "participant"} /\ p \in query.todo
        /\ query' = Rowed(query, p, ParticipantRow(p))
        /\ UNCHANGED <<discoveryVars, always, ever>>
    BY <2>1 DEF ReadParticipant, Reading, Pending, Rowed
  <2> QED BY <1>1, <1>2, <2>2, ParticipantRead, AnswerKeeps
<1>4. CASE \E t \in Topics : ReadTopic(t)
  <2>1. PICK t \in Topics : ReadTopic(t)
    BY <1>4
  <2>2. /\ query.q.ask = "topics" /\ t \in query.todo
        /\ query' = Rowed(query, t, TopicRow(t))
        /\ UNCHANGED <<discoveryVars, always, ever>>
    BY <2>1 DEF ReadTopic, Reading, Pending, Rowed
  <2> QED BY <1>1, <1>2, <2>2, TopicRead, AnswerKeeps
<1>5. CASE \E t \in Topics : ReadIdl(t)
  <2>1. PICK t \in Topics : ReadIdl(t)
    BY <1>5
  <2> DEFINE found == {e \in ActiveEndpoints \cap WithIdl : TopicOf[e] = t}
  <2>2. /\ query.q.ask = "idl" /\ t \in query.todo
        /\ query' = IF found # {} THEN Pending({}, Nobody, {[about |-> t]})
                                  ELSE Pending(query.todo \ {t}, Nobody, {})
        /\ UNCHANGED <<discoveryVars, always, ever>>
    BY <2>1 DEF ReadIdl, Reading
  <2>3. CASE found # {}
    <3>1. PICK e \in Active \cap WithIdl : TopicOf[e] = t
      BY <2>3 DEF ActiveEndpoints
    <3>2. query' = [q |-> query.q, todo |-> {}, found |-> Nobody, rows |-> {[about |-> t]}]
      BY <2>2, <2>3 DEF Pending
    <3> QED BY <1>1, <1>2, <2>2, <3>1, <3>2, IdlFound, AnswerKeeps
  <2>4. CASE found = {}
    <3>1. \A e \in always \cap WithIdl : TopicOf[e] # t
      BY <1>2, <2>4 DEF ActiveEndpoints
    <3>2. query' = [q |-> query.q, todo |-> query.todo \ {t}, found |-> Nobody, rows |-> {}]
      BY <2>2, <2>4 DEF Pending
    <3> QED BY <1>1, <1>2, <2>2, <3>1, <3>2, NoIdlFound, AnswerKeeps
  <2> QED BY <2>3, <2>4
<1>6. CASE \E e \in Endpoints : FindEndpoint(e)
  <2>1. PICK e \in Endpoints : FindEndpoint(e)
    BY <1>6
  <2>2. /\ query.q.ask \in {"endpoints", "endpoint"} /\ e \in query.todo
        /\ query.found = Nobody
        /\ \/ e \notin Active /\ query' = Rowed(query, e, Blank)
           \/ query' = [q |-> query.q, todo |-> query.todo \ {e}, found |-> e, rows |-> query.rows]
        /\ UNCHANGED <<discoveryVars, always, ever>>
    BY <2>1 DEF FindEndpoint, Reading, Pending, Rowed
  <2>3. CASE e \notin Active /\ query' = Rowed(query, e, Blank)
    BY <1>1, <1>2, <2>2, <2>3, EndpointGone, AnswerKeeps
  <2>4. CASE query' = [q |-> query.q, todo |-> query.todo \ {e}, found |-> e, rows |-> query.rows]
    BY <1>1, <1>2, <2>2, <2>4, EndpointFound, AnswerKeeps
  <2> QED BY <2>2, <2>3, <2>4
<1>7. CASE NameEndpoint
  <2>1. /\ query.found # Nobody
        /\ query' = [q |-> query.q, todo |-> query.todo, found |-> Nobody,
                     rows |-> query.rows \cup {EndpointRow(query.found)}]
        /\ UNCHANGED <<discoveryVars, always, ever>>
    BY <1>7 DEF NameEndpoint, Pending
  <2> QED BY <1>1, <1>2, <2>1, EndpointNamed, AnswerKeeps
<1>8. CASE Show
  <2>1. DiscoveryTypeOK'
    BY <1>8, DiscoveryTypeStep DEF QueryInv, Show
  <2> QED BY <1>8, <2>1 DEF Show, QueryInv
<1> QED BY <1>3, <1>4, <1>5, <1>6, <1>7, <1>8 DEF Answer

LEMMA AskStep ==
  ASSUME QueryInv, NEW q \in Query, Ask(q)
  PROVE  QueryInv'
<1>1. DiscoveryTypeOK'
  BY DiscoveryTypeStep DEF QueryInv, Ask
<1>2. PICK active : active = Active
  OBVIOUS
<1>3. Active' = active /\ always' = active /\ ever' = active
  BY <1>2 DEF Ask, Active, discoveryVars, pathVars
<1>4. PICK y : y = [q |-> q, todo |-> Subjects(q), found |-> Nobody, rows |-> {}]
  OBVIOUS
<1>5. query' = y /\ QueryFits(y, active, active)
  BY <1>2, <1>4, JustAsked DEF Ask
<1>6. QueryFits(query, always, ever)'
  BY <1>3, <1>5, Zenon
<1>7. active \subseteq Guids
  BY <1>2 DEF Active, QueryInv, DiscoveryTypeOK
<1> QED BY <1>1, <1>3, <1>6, <1>7 DEF QueryInv

(* Discovery forgets no GUID. *)
LEMMA NothingForgotten ==
  ASSUME DiscoveryNext
  PROVE  DOMAIN database \subseteq DOMAIN database'
BY DEF DiscoveryNext, Network, Announce, Notify, NewParticipantInfo, NewEndpointInfo,
       WriterDiscovered, Stored

LEMMA DiscoveryMeanwhileStep ==
  ASSUME QueryInv, DiscoveryMeanwhile
  PROVE  QueryInv'
<1>1. DiscoveryTypeOK'
  BY DiscoveryTypeStep DEF QueryInv, DiscoveryMeanwhile
<1>2. CASE query = NoQuery
  BY <1>1, <1>2 DEF DiscoveryMeanwhile, QueryInv
<1>3. CASE query # NoQuery
  <2>1. /\ always \subseteq Active /\ Active \subseteq ever /\ ever \subseteq Guids
        /\ QueryFits(query, always, ever)
    BY <1>3 DEF QueryInv
  <2>2. PICK less, more : less = always' /\ more = ever'
    OBVIOUS
  <2>3. /\ less = {g \in always : database'[g].active}
        /\ more = ever \cup {g \in DOMAIN database' : database'[g].active}
        /\ query' = query
    BY <1>3, <2>2 DEF DiscoveryMeanwhile
  <2>4. DOMAIN database \subseteq DOMAIN database' /\ DOMAIN database' \subseteq Guids
    BY <1>1, NothingForgotten DEF DiscoveryMeanwhile, DiscoveryTypeOK
  <2>5. Active' = {g \in DOMAIN database' : database'[g].active}
    BY DEF Active
  <2>6. always \subseteq DOMAIN database
    BY <2>1 DEF Active
  <2>7. less \subseteq Active' /\ Active' \subseteq more /\ more \subseteq Guids
    BY <2>1, <2>3, <2>4, <2>5, <2>6
  <2>8. QueryFits(query, less, more)
    BY <2>1, <2>3, TimePasses
  <2>9. QueryFits(query, always, ever)'
    BY <2>2, <2>3, <2>8, Zenon
  <2> QED BY <1>1, <2>2, <2>7, <2>9 DEF QueryInv
<1> QED BY <1>2, <1>3

LEMMA QueryInvStep == QueryInv /\ [QueryNext]_<<discoveryVars, queryVars>> => QueryInv'
<1> SUFFICES ASSUME QueryInv, [QueryNext]_<<discoveryVars, queryVars>>
             PROVE  QueryInv'
  OBVIOUS
<1>1. CASE UNCHANGED <<discoveryVars, queryVars>>
  <2>1. DiscoveryTypeOK' /\ Active' = Active
    BY <1>1, DiscoveryTypeStep DEF QueryInv, Active, discoveryVars, pathVars
  <2>2. query' = query /\ always' = always /\ ever' = ever
    BY <1>1 DEF queryVars
  <2> QED BY <2>1, <2>2 DEF QueryInv
<1> QED BY <1>1, AnswerStep, AskStep, DiscoveryMeanwhileStep DEF QueryNext

LEMMA QueryCorrect == QuerySpec => []QueryInv
<1> QED BY QueryInvInit, QueryInvStep, PTL DEF QuerySpec

-----------------------------------------------------------------------------
(* Participants, readers, writers and topics keep their shapes in a query,   *)
(* which reads and shows only what the command asked for, whatever discovery *)
(* stores between two of its loops.                                          *)
THEOREM QueryTypes == QuerySpec => []QueryTypeOK
<1> QED BY QueryCorrect, QueryInvImplies, PTL

(* The walks of ModelParser over the databases, one lock at a time, miss     *)
(* nothing that was there from the command to its answer: each such entity   *)
(* and topic has its row, with all that was there of what the row tells.     *)
THEOREM QueryMissesNothing == QuerySpec => []NothingPresentMissed
<1> QED BY QueryCorrect, QueryInvImplies, PTL

(* Nor does an answer show an entity or a topic, or the name of a            *)
(* participant, that had left before the command was entered.                *)
THEOREM QueryShowsNoPast == QuerySpec => []NothingPastShown
<1> QED BY QueryCorrect, QueryInvImplies, PTL



(* A query takes nothing from discovery and gives it nothing: while the      *)
(* console answers, the database follows the network as it does without.     *)
THEOREM QueriesOnlyLook ==
  QuerySpec => [](LastAnnouncementWins /\ OwnEntitiesNeverShown /\ WorkerHasEntry)
<1>1. QueryInit => DiscoveryInv
  BY DiscoveryInvInit DEF QueryInit
<1>2. [QueryNext]_<<discoveryVars, queryVars>> => [DiscoveryNext]_discoveryVars
  <2>1. Answer => UNCHANGED discoveryVars
    BY DEF Answer, ReadParticipant, ReadTopic, ReadIdl, FindEndpoint, NameEndpoint, Show
  <2> QED BY <2>1 DEF QueryNext, DiscoveryMeanwhile, Ask
<1>3. DiscoveryInv /\ [QueryNext]_<<discoveryVars, queryVars>> => DiscoveryInv'
  BY <1>2, DiscoveryInvStep
<1>4. DiscoveryInv => LastAnnouncementWins /\ OwnEntitiesNeverShown /\ WorkerHasEntry
  BY DEF DiscoveryInv
<1> QED BY <1>1, <1>3, <1>4, PTL DEF QuerySpec

=============================================================================
