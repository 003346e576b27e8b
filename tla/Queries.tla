------------------------------- MODULE Queries -------------------------------
(***************************************************************************)
(* The commands participant, reader, writer and topic (Controller.cpp) and *)
(* the walks over the databases that answer them (ModelParser.cpp).        *)
(*                                                                         *)
(* Every answer is put together by the console thread in several loops     *)
(* over the databases: a first one finds the subjects of the answer, then  *)
(* one or two more for each subject fill its row.  One loop reads one      *)
(* state of its database; between two loops the tracks of discovery store  *)
(* what they like.  The filter command, which stores flags too, is run by  *)
(* the console itself and never during a query.                            *)
(***************************************************************************)
EXTENDS Discovery, FiniteSets

CONSTANTS
  Topics,      \* DDS topics: a name and a type
  NameOf,      \* topic names: a function of Topics
  TopicOf,     \* [Endpoints -> Topics]
  WithIdl,     \* the endpoints whose discovery brings the IDL of their type
  Filters      \* the sets of topics a user's wildcard may select

ASSUME QueryConstants ==
  /\ DOMAIN NameOf = Topics
  /\ TopicOf \in [Endpoints -> Topics]
  /\ WithIdl \subseteq Endpoints
  /\ Filters \subseteq SUBSET Topics
  /\ [pc |-> "nobody"] \notin Participants \cup Endpoints

VARIABLES
  query,    \* the query being answered
  always,   \* for the properties: the GUIDs active since the query began ...
  ever      \* ... and those active at some moment of it

queryVars == <<query, always, ever>>

DataReaders == Endpoints \ DataWriters

(* The commands that read.  "readers" and "writers" are one query of a kind; *)
(* verbose, each subject is looked up a second time.  The simple list of     *)
(* participants is what the first loop of the verbose one finds.             *)
Query ==
  [ask : {"participants"}]
    \cup [ask : {"participant"}, guid : Participants]
    \cup [ask : {"endpoints"}, kind : {DataReaders, DataWriters}, verbose : BOOLEAN]
    \cup [ask : {"endpoint"}, kind : {DataReaders, DataWriters}, guid : Endpoints]
    \cup [ask : {"topics", "idl"}, filter : Filters]

NoQuery == [pc |-> "none"]
Nobody == [pc |-> "nobody"]   \* no subject pending; a participant without name
Blank == [pc |-> "blank"]     \* the default row, with an invalid GUID

Active == {g \in DOMAIN database : database[g].active}
ActiveEndpoints == Active \cap Endpoints

-----------------------------------------------------------------------------
(* Mutant: the topics are not filtered. *)
UnfilteredTopics(filter) == {TopicOf[e] : e \in ActiveEndpoints}

(* get_topics: the topics of the active endpoints that the filter lets by.   *)
GetTopics(filter) == {TopicOf[e] : e \in ActiveEndpoints} \cap filter

(* The first loop of a query: the subjects of its answer.  A participant is  *)
(* found by its GUID whether or not it is still there.                       *)
Subjects(q) ==
  CASE q.ask = "participants" -> Active \cap Participants
    [] q.ask = "participant"  -> DOMAIN database \cap {q.guid}
    [] q.ask = "endpoints"    -> Active \cap q.kind
    [] q.ask = "endpoint"     -> Active \cap q.kind \cap {q.guid}
    [] OTHER                  -> GetTopics(q.filter)

(* add_endpoint_to_vector: endpoints are counted by the name of their topic. *)
CountByName(es) ==
  [n \in {NameOf[TopicOf[e]] : e \in es} |->
     Cardinality({e \in es : NameOf[TopicOf[e]] = n})]

(* participants(guid): the endpoints with the prefix of the participant, and *)
(* not only the active ones.                                                 *)
ParticipantRow(p) ==
  LET es == {e \in DOMAIN database \cap Endpoints : Owner[e] = p} IN
  [about |-> p, writers |-> CountByName(es \cap DataWriters),
                readers |-> CountByName(es \cap DataReaders)]

(* The endpoints of a topic, by its name alone. *)
OfTopicName(t) == {e \in ActiveEndpoints : NameOf[TopicOf[e]] = NameOf[t]}

(* simple_topic_data shows how many there are, complex_topic_data which.     *)
TopicRow(t) ==
  [about |-> t, writers |-> OfTopicName(t) \cap DataWriters,
                readers |-> OfTopicName(t) \cap DataReaders]

(* Mutant: the name of a participant that has left is still used. *)
AnyParticipantName(e) == IF Owner[e] \in DOMAIN database THEN Owner[e] ELSE Nobody

(* get_participant_name *)
ParticipantName(e) == IF Owner[e] \in Active THEN Owner[e] ELSE Nobody

EndpointRow(e) == [about |-> e, participant |-> ParticipantName(e)]

-----------------------------------------------------------------------------
Pending(todo, found, rows) == [q |-> query.q, todo |-> todo, found |-> found, rows |-> rows]

(* A command is entered; its first loop runs. *)
Ask(q) ==
  /\ query = NoQuery
  /\ query' = [q |-> q, todo |-> Subjects(q), found |-> Nobody, rows |-> {}]
  /\ always' = Active
  /\ ever' = Active
  /\ UNCHANGED discoveryVars

(* The next subject of a query of kind ask. *)
Reading(ask, s) ==
  /\ query # NoQuery
  /\ query.q.ask \in ask
  /\ query.found = Nobody
  /\ s \in query.todo

(* The rows of participants and topics take one loop each. *)
ReadParticipant(p) ==
  /\ Reading({"participants", "participant"}, p)
  /\ query' = Pending(query.todo \ {p}, Nobody, query.rows \cup {ParticipantRow(p)})
  /\ UNCHANGED <<discoveryVars, always, ever>>

ReadTopic(t) ==
  /\ Reading({"topics"}, t)
  /\ query' = Pending(query.todo \ {t}, Nobody, query.rows \cup {TopicRow(t)})
  /\ UNCHANGED <<discoveryVars, always, ever>>

(* topics_type_idl: the first active endpoint of a topic that has an IDL     *)
(* answers for all of them.                                                  *)
ReadIdl(t) ==
  LET found == {e \in ActiveEndpoints \cap WithIdl : TopicOf[e] = t} IN
  /\ Reading({"idl"}, t)
  /\ query' = IF found # {} THEN Pending({}, Nobody, {[about |-> t]})
                            ELSE Pending(query.todo \ {t}, Nobody, {})
  /\ UNCHANGED <<discoveryVars, always, ever>>

(* Mutant: a subject that has left ends the answer. *)
FindOrStop(e) ==
  /\ Reading({"endpoints", "endpoint"}, e)
  /\ query' = IF query.q.ask = "endpoints" /\ query.q.verbose /\ e \notin Active
                THEN Pending({}, Nobody, query.rows)
                ELSE Pending(query.todo \ {e}, e, query.rows)
  /\ UNCHANGED <<discoveryVars, always, ever>>

(* An endpoint found by the first loop; verbose, it is looked for again, and *)
(* one that has left meanwhile gives a blank row.                            *)
FindEndpoint(e) ==
  /\ Reading({"endpoints", "endpoint"}, e)
  /\ query' = IF query.q.ask = "endpoints" /\ query.q.verbose /\ e \notin Active
                THEN Pending(query.todo \ {e}, Nobody, query.rows \cup {Blank})
                ELSE Pending(query.todo \ {e}, e, query.rows)
  /\ UNCHANGED <<discoveryVars, always, ever>>

(* Its row is completed by a walk over the participants. *)
NameEndpoint ==
  /\ query # NoQuery
  /\ query.found # Nobody
  /\ query' = Pending(query.todo, Nobody, query.rows \cup {EndpointRow(query.found)})
  /\ UNCHANGED <<discoveryVars, always, ever>>

Complete == query # NoQuery /\ query.todo = {} /\ query.found = Nobody

(* The answer is shown, or the error when it is empty. *)
Show ==
  /\ Complete
  /\ query' = NoQuery
  /\ always' = {}
  /\ ever' = {}
  /\ UNCHANGED discoveryVars

(* A step of discovery; during a query the two histories take note of it.    *)
DiscoveryMeanwhile ==
  /\ DiscoveryNext
  /\ UNCHANGED query
  /\ IF query = NoQuery THEN UNCHANGED <<always, ever>>
     ELSE /\ always' = {g \in always : database'[g].active}
          /\ ever' = ever \cup {g \in DOMAIN database' : database'[g].active}

Answer ==
  \/ \E p \in Participants : ReadParticipant(p)
  \/ \E t \in Topics : ReadTopic(t) \/ ReadIdl(t)
  \/ \E e \in Endpoints : FindEndpoint(e)
  \/ NameEndpoint
  \/ Show

QueryInit == DiscoveryInit /\ query = NoQuery /\ always = {} /\ ever = {}

QueryNext ==
  \/ DiscoveryMeanwhile
  \/ \E q \in Query : Ask(q)
  \/ Answer

QuerySpec == QueryInit /\ [][QueryNext]_<<discoveryVars, queryVars>>

-----------------------------------------------------------------------------
(* What a query of this kind can be about. *)
InScope(q) ==
  CASE q.ask = "participants" -> Participants
    [] q.ask = "participant"  -> {q.guid}
    [] q.ask = "endpoints"    -> q.kind
    [] q.ask = "endpoint"     -> q.kind \cap {q.guid}
    [] OTHER                  -> q.filter

(* Shapes; and a query reads and shows only what it was asked for.           *)
QueryTypeOK ==
  /\ query # NoQuery =>
       /\ query.q \in Query
       /\ query.todo \subseteq InScope(query.q)
       /\ query.found # Nobody => query.found \in InScope(query.q) \cap Endpoints
       /\ \A row \in query.rows \ {Blank} : row.about \in InScope(query.q)
  /\ always \subseteq ever
  /\ ever \subseteq Guids

About(s) == {row \in query.rows \ {Blank} : row.about = s}

(* What was there from the moment the user pressed enter to the moment the   *)
(* answer is shown is in the answer, whole, whatever came and went around    *)
(* it: participants and endpoints have a row, an endpoint the name of its    *)
(* participant, a topic its row with each of its endpoints, and the IDL of a *)
(* type an endpoint brought is given.                                        *)
NothingPresentMissed ==
  Complete =>
    LET q == query.q IN
    CASE q.ask \in {"participants", "participant"} ->
           \A p \in InScope(q) \cap always :
             \E row \in About(p) : \A e \in always \cap Endpoints :
               Owner[e] = p => NameOf[TopicOf[e]] \in
                 DOMAIN (IF e \in DataWriters THEN row.writers ELSE row.readers)
      [] q.ask \in {"endpoints", "endpoint"} ->
           \A e \in InScope(q) \cap always :
             \E row \in About(e) : Owner[e] \in always => row.participant = Owner[e]
      [] q.ask = "topics" ->
           \A e \in always \cap Endpoints :
             TopicOf[e] \in q.filter =>
               \E row \in About(TopicOf[e]) :
                 {x \in always \cap Endpoints : NameOf[TopicOf[x]] = NameOf[TopicOf[e]]}
                   \subseteq row.writers \cup row.readers
      [] OTHER ->
           (\E e \in always \cap WithIdl : TopicOf[e] \in q.filter) => query.rows # {}

(* What an answer shows as there was there at some moment since the user     *)
(* pressed enter: no row is about, and no number counts, what had left       *)
(* before.  The rows of participants are left out: asked for by its GUID, a  *)
(* participant is found when it has left, as participants(guid) never looks  *)
(* at the active flag, and its endpoints are counted when they have.         *)
NothingPastShown ==
  Complete =>
    \A row \in query.rows \ {Blank} :
      CASE query.q.ask = "participants" -> row.about \in ever
        [] query.q.ask = "participant" -> TRUE
        [] query.q.ask \in {"endpoints", "endpoint"} ->
             row.about \in ever /\ row.participant \in ever \cup {Nobody}
        [] query.q.ask = "topics" ->
             /\ \E e \in ever \cap Endpoints : TopicOf[e] = row.about
             /\ row.writers \cup row.readers \subseteq ever
        [] OTHER -> \E e \in ever \cap WithIdl : TopicOf[e] = row.about
=============================================================================
