------------------------------- MODULE Filters -------------------------------
(***************************************************************************)
(* The filter command (Controller::filter_command_ in tool/Controller.cpp) *)
(* and what it updates: the filters the console keeps, those the sniffing  *)
(* participant gives to the readers it creates (tool/Backend.cpp), those   *)
(* of the readers that exist, and the active flag of every endpoint of the *)
(* database.  The console does all this step by step while discovery goes  *)
(* on storing entries and the DDS Pipe goes on creating readers.           *)
(***************************************************************************)
EXTENDS Discovery

CONSTANTS
  Topics,        \* topic names
  TopicOf,       \* [Endpoints -> Topics]
  Patterns,      \* partition filters the user can type
  Matching,      \* the pairs <<pattern, QoS>> that match
  Expressions,   \* content filters the user can type
  NoExpression,  \* the empty expression, which filters nothing
  MaxFilterCommands   \* bound: filter commands typed

ASSUME FilterConstants ==
  /\ TopicOf \in [Endpoints -> Topics]
  /\ Matching \subseteq Patterns \X QoS
  /\ NoExpression \notin Expressions
  /\ MaxFilterCommands \in Nat

VARIABLES
  partitionFilter,   \* partition_filter_set_
  topicFilter,       \* topic_filter_dict_: a partial function of Topics
  participant,       \* the filters dds_participant_ gives to new readers
  readers,           \* the pipe's readers and their filters, per topic
  todo,              \* what is left of the command the console runs
  typed,             \* how many filter commands there were (for the bound)
  touched,           \* for the properties: the endpoints discovery has stored
                     \* since the console last scanned the database
  unheard            \* for the properties: the topics whose filter may have
                     \* changed with nobody told

filterVars == <<partitionFilter, topicFilter, participant, readers, todo, typed, touched, unheard>>
allVars == <<discoveryVars, filterVars>>

KnownEndpoints == DOMAIN database \cap Endpoints

(* update_endpoints, for one endpoint: without a filter everything passes.   *)
Passes(qos) == partitionFilter = {} \/ \E f \in partitionFilter : <<f, qos>> \in Matching

ExpressionOf(t) == IF t \in DOMAIN topicFilter THEN topicFilter[t] ELSE NoExpression

(* The steps of a command. *)
Do(what) == [do |-> what]
DoOn(what, t) == [do |-> what, topic |-> t]

(* Mutant: the readers that exist are told before the participant is. *)
UpdatePartitionsSwapped ==
  <<Do("readers partitions"), Do("participant partitions"), Do("scan")>>

(* update_partitions, with Backend::update_readers_track_partitions in it:   *)
(* the participant is told first, so that no reader is missed.               *)
UpdatePartitions == <<Do("participant partitions"), Do("readers partitions"), Do("scan")>>

(* update_content_topicfilter, with update_readers_track_content_filter.     *)
UpdateContent(t) == <<DoOn("participant content", t), DoOn("readers content", t)>>

(* update_topics *)
UpdateTopics == <<Do("topics")>>

-----------------------------------------------------------------------------
(* The filters come from the configuration file: the participant gets them   *)
(* in the Backend's constructor, the console from main.                      *)
FilterInit ==
  /\ DiscoveryInit
  /\ partitionFilter \in SUBSET Patterns
  /\ topicFilter \in UNION {[T -> Expressions] : T \in SUBSET Topics}
  /\ participant = [partitions |-> partitionFilter, content |-> [t \in Topics |-> ExpressionOf(t)]]
  /\ readers = [t \in {} |-> participant]
  /\ todo = <<>>
  /\ typed = 0
  /\ touched = {}
  /\ unheard = {}

(* The DDS Pipe creates the reader of a topic once an endpoint of it has     *)
(* been discovered, with the participant's filters of that moment.           *)
CreateReader(t) ==
  /\ t \notin DOMAIN readers
  /\ \E e \in Endpoints \cap Remote : TopicOf[e] = t /\ network[e].seen
  /\ readers' = [x \in DOMAIN readers \cup {t} |->
                   IF x = t THEN [partitions |-> participant.partitions,
                                  content |-> participant.content[t]]
                            ELSE readers[x]]
  /\ UNCHANGED <<discoveryVars, partitionFilter, topicFilter, participant, todo, typed, touched, unheard>>

(* Discovery, noting whose entry it stores.                                  *)
Discover ==
  /\ DiscoveryNext
  /\ touched' = IF NewEndpointInfo THEN touched \cup {Head(queue["endpoints"]).guid} ELSE touched
  /\ UNCHANGED <<partitionFilter, topicFilter, participant, readers, todo, typed, unheard>>

-----------------------------------------------------------------------------
(* filter_command_: what it does to the console's filters, and the updates   *)
(* it makes after it.                                                        *)
Command(updates) ==
  /\ todo = <<>>
  /\ typed < MaxFilterCommands
  /\ typed' = typed + 1
  /\ todo' = updates
  /\ UNCHANGED <<discoveryVars, participant, readers, touched>>

(* filters clear: the topics stay in the dictionary, with no expression. *)
ClearFilters ==
  /\ Command(UpdatePartitions \o UpdateTopics)
  /\ partitionFilter' = {}
  /\ topicFilter' = [t \in DOMAIN topicFilter |-> NoExpression]
  /\ UNCHANGED unheard

(* filter clear partitions *)
ClearPartitions ==
  /\ Command(UpdatePartitions)
  /\ partitionFilter' = {}
  /\ UNCHANGED <<topicFilter, unheard>>

(* filter clear topic *)
ClearTopics ==
  /\ Command(UpdateTopics)
  /\ topicFilter' = [t \in {} |-> NoExpression]
  /\ UNCHANGED <<partitionFilter, unheard>>

(* filter add partitions f *)
AddPartition(f) ==
  /\ f \notin partitionFilter
  /\ Command(UpdatePartitions)
  /\ partitionFilter' = partitionFilter \cup {f}
  /\ UNCHANGED <<topicFilter, unheard>>

(* filter remove partitions f *)
RemovePartition(f) ==
  /\ f \in partitionFilter
  /\ Command(UpdatePartitions)
  /\ partitionFilter' = partitionFilter \ {f}
  /\ UNCHANGED <<topicFilter, unheard>>

(* filter remove topic t: followed, like the two above, by update_partitions.*)
RemoveTopic(t) ==
  /\ t \in DOMAIN topicFilter
  /\ Command(UpdatePartitions)
  /\ topicFilter' = [topicFilter EXCEPT ![t] = NoExpression]
  /\ unheard' = unheard \cup {t}
  /\ UNCHANGED partitionFilter

(* filter set topic t x *)
SetTopic(t, x) ==
  /\ Command(UpdateContent(t))
  /\ topicFilter' = [y \in DOMAIN topicFilter \cup {t} |-> IF y = t THEN x ELSE topicFilter[y]]
  /\ unheard' = unheard \ {t}
  /\ UNCHANGED partitionFilter

FilterCommand ==
  \/ ClearFilters
  \/ ClearPartitions
  \/ ClearTopics
  \/ \E f \in Patterns : AddPartition(f) \/ RemovePartition(f)
  \/ \E t \in Topics : RemoveTopic(t) \/ \E x \in Expressions : SetTopic(t, x)

-----------------------------------------------------------------------------
(* The rest of the command, one call at a time.                              *)
Next1(what) == todo # <<>> /\ Head(todo).do = what

Then(steps) == todo' = steps \o Tail(todo)

TellParticipantPartitions ==
  /\ Next1("participant partitions")
  /\ participant' = [participant EXCEPT !.partitions = partitionFilter]
  /\ Then(<<>>)
  /\ UNCHANGED <<discoveryVars, partitionFilter, topicFilter, readers, typed, touched, unheard>>

TellReadersPartitions ==
  /\ Next1("readers partitions")
  /\ readers' = [t \in DOMAIN readers |-> [readers[t] EXCEPT !.partitions = partitionFilter]]
  /\ Then(<<>>)
  /\ UNCHANGED <<discoveryVars, partitionFilter, topicFilter, participant, typed, touched, unheard>>

TellParticipantContent ==
  /\ Next1("participant content")
  /\ participant' = [participant EXCEPT !.content[Head(todo).topic] = ExpressionOf(Head(todo).topic)]
  /\ Then(<<>>)
  /\ UNCHANGED <<discoveryVars, partitionFilter, topicFilter, readers, typed, touched, unheard>>

TellReadersContent ==
  LET t == Head(todo).topic IN
  /\ Next1("readers content")
  /\ readers' = [x \in DOMAIN readers |->
                   IF x = t THEN [readers[x] EXCEPT !.content = ExpressionOf(t)] ELSE readers[x]]
  /\ Then(<<>>)
  /\ UNCHANGED <<discoveryVars, partitionFilter, topicFilter, participant, typed, touched, unheard>>

TopicsOf(endpoints) == {TopicOf[e] : e \in endpoints}

(* Mutant: only the endpoints that are shown. *)
WalkActiveTopics ==
  /\ Next1("topics")
  /\ Then(<<[do |-> "each topic", left |-> TopicsOf({e \in KnownEndpoints : database[e].active})]>>)
  /\ unheard' = Topics \ TopicsOf(KnownEndpoints)
  /\ UNCHANGED <<discoveryVars, partitionFilter, topicFilter, participant, readers, typed, touched>>

(* update_topics walks the endpoints known when it starts, departed ones     *)
(* included, and updates the topic of each.                                  *)
WalkTopics ==
  /\ Next1("topics")
  /\ Then(<<[do |-> "each topic", left |-> TopicsOf(KnownEndpoints)]>>)
  /\ unheard' = Topics \ TopicsOf(KnownEndpoints)
  /\ UNCHANGED <<discoveryVars, partitionFilter, topicFilter, participant, readers, typed, touched>>

NextTopic ==
  /\ Next1("each topic")
  /\ \/ /\ Head(todo).left = {}
        /\ Then(<<>>)
     \/ \E t \in Head(todo).left :
          Then(UpdateContent(t) \o <<[do |-> "each topic", left |-> Head(todo).left \ {t}]>>)
  /\ UNCHANGED <<discoveryVars, partitionFilter, topicFilter, participant, readers, typed, touched, unheard>>

(* Mutant: without a filter there is nothing to decide. *)
ScanOnlyWithFilter ==
  /\ Next1("scan")
  /\ Then(<<[do |-> "each endpoint",
             decided |-> [e \in IF partitionFilter = {} THEN {} ELSE KnownEndpoints
                            |-> Passes(database[e].qos)]]>>)
  /\ touched' = {}
  /\ UNCHANGED <<discoveryVars, partitionFilter, topicFilter, participant, readers, typed, unheard>>

(* update_endpoints: first it is decided which endpoints are active, for all *)
(* of them, and whether they are there or not does not enter into it.        *)
Scan ==
  /\ Next1("scan")
  /\ Then(<<[do |-> "each endpoint", decided |-> [e \in KnownEndpoints |-> Passes(database[e].qos)]]>>)
  /\ touched' = {}
  /\ UNCHANGED <<discoveryVars, partitionFilter, topicFilter, participant, readers, typed, unheard>>

(* Then, one by one, an entry is copied ...                                  *)
Fetch ==
  /\ Next1("each endpoint")
  /\ LET decided == Head(todo).decided IN
     \/ /\ DOMAIN decided = {}
        /\ Then(<<>>)
     \/ \E e \in DOMAIN decided :
          Then(<<[do |-> "store", guid |-> e, active |-> decided[e], qos |-> database[e].qos],
                 [do |-> "each endpoint", decided |-> [x \in DOMAIN decided \ {e} |-> decided[x]]]>>)
  /\ UNCHANGED <<discoveryVars, partitionFilter, topicFilter, participant, readers, typed, touched, unheard>>

(* Mutant: the copy is a new entry with the flag alone. *)
StoreFlagAlone ==
  /\ Next1("store")
  /\ database' = Stored(database, [guid |-> Head(todo).guid, active |-> Head(todo).active,
                                   qos |-> AnyQoS])
  /\ Then(<<>>)
  /\ UNCHANGED <<netVars, listener, queue, worker, partitionFilter, topicFilter, participant,
                 readers, typed, touched, unheard>>

(* ... and the copy stored, with the flag that was decided.                  *)
Store ==
  /\ Next1("store")
  /\ database' = Stored(database, Head(todo))
  /\ Then(<<>>)
  /\ UNCHANGED <<netVars, listener, queue, worker, partitionFilter, topicFilter, participant,
                 readers, typed, touched, unheard>>

Proceed ==
  \/ TellParticipantPartitions
  \/ TellReadersPartitions
  \/ TellParticipantContent
  \/ TellReadersContent
  \/ WalkTopics
  \/ NextTopic
  \/ Scan
  \/ Fetch
  \/ Store

FilterNext ==
  \/ Discover
  \/ FilterCommand
  \/ Proceed
  \/ \E t \in Topics : CreateReader(t)

FilterSpec == FilterInit /\ [][FilterNext]_allVars

-----------------------------------------------------------------------------
Steps ==
  [do : {"participant partitions", "readers partitions", "scan", "topics"}]
    \cup [do : {"participant content", "readers content"}, topic : Topics]
    \cup [do : {"each topic"}, left : SUBSET Topics]
    \cup [do : {"each endpoint"}, decided : UNION {[E -> BOOLEAN] : E \in SUBSET Endpoints}]
    \cup [do : {"store"}, guid : Endpoints, active : BOOLEAN, qos : QoS]

Contents == Expressions \cup {NoExpression}

FilterTypeOK ==
  /\ DiscoveryTypeOK
  /\ partitionFilter \subseteq Patterns
  /\ DOMAIN topicFilter \subseteq Topics
  /\ \A t \in DOMAIN topicFilter : topicFilter[t] \in Contents
  /\ participant \in [partitions : SUBSET Patterns, content : [Topics -> Contents]]
  /\ DOMAIN readers \subseteq Topics
  /\ \A t \in DOMAIN readers : readers[t] \in [partitions : SUBSET Patterns, content : Contents]
  /\ todo \in Seq(Steps)
  /\ touched \subseteq Endpoints
  /\ unheard \subseteq Topics

(* Between two commands every reader has the partition filter "filters"      *)
(* prints and the content filter the participant would give it now, even a   *)
(* reader the pipe created in the middle of a command.                       *)
ReadersAgree ==
  todo = <<>> =>
    \A t \in DOMAIN readers :
      readers[t] = [partitions |-> partitionFilter, content |-> participant.content[t]]

(* Between two commands the readers to come get the content filters of the   *)
(* dictionary, an empty one where it has none; except for a topic that was   *)
(* removed from it, or that none of the known endpoints had when the filters *)
(* were cleared: there the old filter stays with the participant.            *)
DictionaryInForce ==
  todo = <<>> =>
    \A t \in Topics \ unheard : participant.content[t] = ExpressionOf(t)

(* Between two commands an endpoint whose entry discovery has not stored     *)
(* since is active exactly if it passes the partition filter in force: no    *)
(* earlier filter has left it hidden or shown.                               *)
FilterDecides ==
  todo = <<>> =>
    \A e \in KnownEndpoints \ touched : database[e].active = Passes(database[e].qos)

(* "Change the active variable of the dabase": the console changes nothing   *)
(* else of an entry, unless discovery has stored it since the scan (then the *)
(* console's copy may be older, and discovery's update is lost).             *)
OnlyActiveChanges ==
  [][\A e \in KnownEndpoints :
       Store /\ database'[e].qos # database[e].qos => e \in touched]_allVars

(* "filter remove topic" deletes the filter of the topic (filter.rst): when  *)
(* the dictionary has no expression for a topic, neither has its reader.     *)
RemovedTopicFilterIsGone ==
  todo = <<>> =>
    \A t \in DOMAIN topicFilter \cap DOMAIN readers :
      topicFilter[t] = NoExpression => readers[t].content = NoExpression

(* "Topics with at least one endpoint currently active in the network"       *)
(* (topic.rst): when everything announced has been stored and no command is  *)
(* running, an endpoint shown as active is there.                            *)
Settled == todo = <<>> /\ listener = None /\ queue["endpoints"] = <<>>

ActiveMeansPresent ==
  Settled => \A e \in KnownEndpoints : database[e].active => network[e].alive

(* "Information is printed if it matches any of the strings within the       *)
(* category" (filter.rst): then, too, an endpoint that is there is shown     *)
(* when the partitions it has announced match the filter.                    *)
MatchingIsShown ==
  Settled =>
    \A e \in KnownEndpoints :
      network[e].alive /\ Passes(network[e].qos) => database[e].active
=============================================================================
