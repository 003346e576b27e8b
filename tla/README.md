# A verification of Fast DDS Spy

Fast DDS Spy joins a DDS network, records who is there, and answers a user at a
terminal: which participants, readers, writers and topics there are, at which
rate samples come, which instances a keyed topic has, and what the samples hold.
Its own logic is small and concurrent: four kinds of threads write and read the
same model of the network, with a lock here and none there. The modules in this
directory are that logic in TLA+, the `.cfg` files its model-checking runs, and
the `..._proofs.tla` modules hold machine-checked proofs about them.

Paths below are relative to `src/`. `participants/` stands for
`fastddsspy_participants/src/cpp/`, `tool/` for `fastddsspy_tool/src/cpp/tool/`.

## 1. Inventory

### Threads

| thread | what it runs |
| --- | --- |
| discovery listener of Fast DDS | `on_participant_discovery`, `on_reader_discovery`, `on_writer_discovery`, one call at a time (Fast DDS calls them under its own lock) |
| tracks of the DDS Pipe, one per topic (a name and a type) | `SpyModel::add_data` for a user topic; `new_participant_info_` and `new_endpoint_info_` for the two internal topics; `add_schema` for the type object topic |
| console | the command loop of `Controller::run`, a command at a time |
| file watcher; periodic timer | load the configuration file again, `Controller::reload_configuration`, each in its own thread |

### Components

| component | state | operations | correct if | hard because |
| --- | --- | --- | --- | --- |
| `InstanceCache` | instances and their writers per topic, key field names per topic | `add_or_update_instance`, `on_writer_changed`, `get_active_instances`, `get_key_fields` | every call is one atomic addition or nothing, a departure takes exactly the departed writer, memory is bounded | the mutex is dropped in the middle of `add_or_update_instance` |
| `TopicRateCalculator` | counter, first and last source timestamp per topic | `add_data`, `get_topic_rate` | the rate is that of the samples received | counter of fixed width, clocks of other machines |
| `DataStreamer` | types with a schema, the print in force and its callback | `add_schema`, `add_data`, `activate`, `activate_all`, `deactivate`, `on_writer_discovered` | what is printed is what was asked for, and printing stops | decided under the mutex, carried out without it |
| discovery listeners (`SpyDdsParticipant`, `SpyDdsXmlParticipant`) | two internal queues | three handlers | no announcement is lost or overtaken, the spy does not see itself | order of events, several threads |
| `SpyParticipant` and the databases | participants and endpoints by GUID | `new_participant_info_`, `new_endpoint_info_` | the database catches up with the network | store and clean-up in two steps |
| `Controller`, `Backend`: filters | partition and content filters in the console, the participant and each reader; the `active` flag of each endpoint | `filter_command_`, `update_*` | all copies agree, the flag says what the filter says | many steps, two other threads |
| `Controller`, `ModelParser`: queries | the answer under construction | `participants`, `readers`, `writers`, `topics` | an answer is one the network gave | reads in two phases |
| `main`, `Backend`: life cycle | the pipe and its lists, the event handlers, the default QoS | construction, reload, destruction | the pipe does what the file says, nothing runs on what is destroyed | two threads reload at any moment |
| configuration, arguments | the domain, the lists of topics, the reload time | `parse_arguments`, `Configuration`, `is_valid` | what runs is what was asked for, what is wrong is refused | order of precedence, failures in the middle |
| `Input`, `View`, `YamlWriter`, types | none shared | parsing and printing | | sequential |

### How they interact

```
 Fast DDS listener --> internal queues --> tracks --> SpyParticipant --> databases <-- filter command
                                                          | departed writer              |
 Fast DDS readers  --> tracks --> DataStreamer.add_data   v                              v
                         |    rate --> check --> InstanceCache                queries (ModelParser)
                         +--> callback --> Controller (view_mutex_) --> terminal

 words --> parse_arguments --> Configuration --> Backend --> DDS Pipe (its lists) <-- reload <-- watcher, timer
                     configuration file --^                                            ^-- configuration file
```

The list of hazards, each at its line and with the properties that would catch
it, is in `PROJECT.json`.

## 2. Modules

| module | models | state in the code |
| --- | --- | --- |
| `InstanceTracker` | what the cache promises: atomic publications and departures | abstract |
| `InstanceCache` | `participants/model/InstanceCache.cpp` | `instances` = `instances_by_topic_`, `keyFields` = `key_fields_cache_`, `call` = where each track is in `add_or_update_instance` |
| `InstanceCache_proofs` | its bound, its invariants, and that it implements `InstanceTracker` | |
| `TopicRate` | `participants/model/TopicRateCalculator.cpp` | `rateData` = `data_by_topic_` |
| `DataStreamer` (EXTENDS the two above) | `participants/model/DataStreamer.cpp` and `print_command_`, `data_stream_callback_*` of `tool/Controller.cpp` | `typesDiscovered`, `activation` = the four members that say what to print, `sample` = where each track is in `add_data`, `printer` = the holder of `view_mutex_` |
| `DataStreamer_proofs` (EXTENDS `InstanceCache_proofs`) | what is printed, what is counted, and that the streamer uses the cache as `InstanceCache` says | |
| `Discovery` | the listeners, the internal topics, `participants/participant/SpyParticipant.cpp` | `listener`, `queue`, `database`, `worker` = the endpoint track between its two steps |
| `Discovery_proofs` | that the database follows the network | |
| `SpyModel` (EXTENDS `Discovery`, INSTANCE `InstanceTracker`) | discovery and data together, as class `SpyModel` has them | plus `publishers` = the instances, `unread` = what the histories of the readers and the calls of `add_data` hold; `late` is a history |
| `SpyModel_proofs` (EXTENDS `Discovery_proofs`) | which instances can linger, and that the model implements `InstanceTracker` | |
| `Filters` (EXTENDS `Discovery`) | `filter_command_` and `update_*` of `tool/Controller.cpp`, `tool/Backend.cpp` | `partitionFilter`, `topicFilter` (console), `participant`, `readers`, `todo` = what is left of the command |
| `Filters_proofs` (EXTENDS `Discovery_proofs`) | that all copies of the filters and all flags agree between two commands | |
| `TopicKeys` (EXTENDS `InstanceCache`) | `topic <name> keys`: `topics_keys_by_ddstopic` in `ModelParser.cpp` | `schemas` = `types_discovered_`, `row` = the row of the answer |
| `TopicKeys_proofs` (EXTENDS `InstanceCache_proofs`) | that the fields and the instances of an answer fit together | |
| `Queries` (EXTENDS `Discovery`) | the `participant`, `reader`, `writer` and `topic` commands of `tool/Controller.cpp`, `participants/visualization/ModelParser.cpp` | `query` = the answer under construction; `always`, `ever` are histories for the properties |
| `Queries_proofs` (EXTENDS `Discovery_proofs`) | that an answer misses nothing that stayed and shows nothing that was gone | |
| `Arguments` | `user_interface/arguments_configuration.cpp` and the loop of the vendored option parser | none: `ParseArguments` is a function of the words |
| `Configuration` (EXTENDS `Arguments`) | `fastddsspy_yaml/src/cpp/YamlReaderConfiguration.cpp` | none: `Load`, `OverrideDomain`, `IsValid`, `PipeLists` are functions of a document |
| `Process` (EXTENDS `Configuration`) | `fastddsspy_tool/src/cpp/main.cpp`, construction, reload and destruction in `tool/Backend.cpp`, `Controller::run` | `pc` = the line of `main`, `reload` = where each of the two threads is in its callback, `lists`, `pipe` = the DDS Pipe, `defaultQos` = `TopicQoS::default_topic_qos`, `file` = the user's file; `had`, `missed` are histories |
| `Process_proofs` | what the parser makes of any command line, and the reloads, the lists, the domain and the code | |

Each `MC...` module gives the constants of one instance; it adds no behaviour.
(`MCInstanceCache` instantiates `TopicKeys`, that is the cache with a console that
asks it.)

Actions are cut where the code can be interrupted: at the release of a mutex,
between two acquisitions, and between two calls that each lock for themselves.
`add_or_update_instance` is `BeginCall` (up to its return or `lock.unlock()`)
and `FinishCall`; `add_data` is `Receive`, `Check`, `Cache`, `CacheMore`,
`LoadCallback`, `CallCallback`,
`BeginPrint`, `EndPrint`; `new_endpoint_info_` is
`NewEndpointInfo` and `WriterDiscovered`; a discovery handler is `Announce` and
`Notify`; a filter command is `Command` and one action for each thing it tells
someone; a reload is `BeginReload` (the file is read), `LoadReload` (the default QoS is
set, the rest loaded or refused) and `ApplyReload` (under the lock of the pipe).

### Abstractions

* Key JSON. An instance's representation is a function of its handle and of the
  type it was read through; the handle is the key of the map, so the model keeps
  the type. `DropKey` stands for every way `serialize_key_to_json_` returns the
  empty string. `last_seen` is never read; `clear()` is never called.
* Callbacks. A callback object is the number of the print command that made it.
  The shared pointer is read without the mutex while `deactivate` resets it, a
  data race: a track may get the old object, or null (then it crashes), and a
  call of a released object may crash or run.
* Samples. In `SpyModel` a reader receives samples of the writers it is matched with: those
  that are there, and the one whose departure the listener is being told. A sample received
  is read at any later time, or never, in any order, its writer there or departed, its
  departure processed or not: `add_data` does not ask.
* Rate. Timestamps are in whole seconds; the division of the two numbers of
  `Quotient` is not modelled.
* Discovery is Fast DDS's and external: an endpoint is announced after its
  participant, a participant is removed after its endpoints, a removal carries
  the last QoS, a listener is not called twice at once. `SafeDatabase`, tracks and
  the creation of readers are external too, modelled by how `src/` uses them.
* QoS stands for what a change of QoS changes, in `Filters` the partitions; the
  matching of the wildcards (`update_endpoints`, with its splitting at `|`) is
  the constant relation `Matching`.
* `update_endpoints` reads the database in one scan, `Scan`, and `update_topics` its
  topics in one, `WalkTopics`: an entry stored during the walk is as if stored
  after it. The copy and the store of each entry that follow are steps of their own.
* A query is a first loop that finds its subjects and one or two loops for each of
  them. One `for` over a `SafeDatabase` reads one state of it. Where such a loop is nested
  in another over the same database (`writers_verbose`), the repository does not
  hold the container's source, so the model lets the inner one read a later
  state as well as the same. The counts of `topics` and the lists of `topics vv` are one
  definition (the set, of which the count is the size); demangled ROS 2 names
  and the rate are left out.
* Commands refused for their arguments change nothing and are not actions.
  `filter set topic` is only accepted with DDS enabled; the model has it enabled.
* A word of the command line is what the program asks of it: the option it is where an
  option is expected, the number, the file, the log level it is where a value is. Short
  names, grouped and attached with `=`, are spellings of the same. A product of
  the reload time out of the range of its type is left out; a negative time may start a
  timer or not. Arguments of the log are parsed and have no effect.
* There is one configuration file, given or found under the default name. A filter
  of the allowlist or the blocklist is the set of topic names it matches; with its wildcards it may match
  any, the topics of the spy and those of ROS 2 services included. A document has one
  fault at most, in the part (syntax, specs, dds) where the reader throws; a
  fault in the specs comes before the QoS.
* The file watcher and the timer belong to cpp_utils, which the repository does not
  hold: a change raises the watcher's flag, taken down before it calls back, so changes
  close together give one callback; a destructor stops further callbacks, then waits for the one
  in progress. A callback reads the file in one step. `default_topic_qos` is assigned by two
  threads without a lock; the model takes each assignment as one step.

## 3. Runs

Bounds are constants (`Max...`), used in guards only.

| run | question | instance and bounds |
| --- | --- | --- |
| `instance_cache` | Does the cache keep its invariants, and implement `InstanceTracker`, under every interleaving of calls and departures? Does an answer of topic keys, put together by three questions, fit together? | 2 topics, one fed by 3 tracks (2 keyed types, 1 without key), 3 handles, 2 writers, limit 1. Three handles against limit 1 let two tracks overshoot; symmetric in handles and writers. No bound on steps |
| `data_streamer` | Does the user see what was asked for, and does printing end? Does the rate summarise the samples received? | 2 tracks (a keyed, an unkeyed topic), 2 print commands: enough for a second to meet samples of the first. For the rate, every history of up to 4 samples, stamps 0 to 2, against a counter that wraps at 2: equal and decreasing stamps, before and after the wrap |
| `spy_model` | Does the database follow the network, and when is an instance attributed to a departed writer? | the spy with a reader of its own, a participant with 2 writers of 1 topic, 2 QoS values, 4 announcements: discovered, changed, removed and discovered again. 1 instance with up to 2 samples unread of each writer, so that one is read before a departure is processed and one after; instances touch each other only through the room of a topic, that is by a sample being dropped, which `Deliver` may do at any time. `lingering_instance` has 2 instances and 5 announcements |
| `filters` | Do the copies of the filters agree, and the flags with them? | 1 pattern, 2 partitions, 1 expression, 2 commands (one can undo the other), 3 announcements, all initial filters |
| `queries` | Is an answer put together in several loops one the network gave? | 1 remote participant, 3 endpoints on 2 topic names and 3 types, 5 announcements, any number of queries one after the other, of every kind |
| `process` | Does the process do what its words and its file say, through every interleaving of its two reloading threads, and does it end? | all lines of up to 3 of 13 words (a value that looks like an option, a number at and beyond each limit, two dashes, a repeated option); a file with an allowlist, with lists that both match every topic, with a blocklist and a QoS, a fault after the QoS, a domain out of range, no threads, bad syntax, or none; 2 edits, so that a reload can hold the first while the other thread applies the second |

A counterexample is expected of six more runs, each of one property that a document or
a comment of the repository states and the code does not keep (`PROJECT.json`, findings):

| run | what the counterexample shows |
| --- | --- |
| `print_crash` | Sample checked; enter pressed, callback reset; `(*callback_)(...)` through null |
| `lingering_instance` | Sample received, writer departs, departure processed, sample cached: the instance stays. `OnlyLateSamplesLinger` says that it takes a sample the departed writer left behind |
| `removed_filter` | `filter set topic t x`, `filter remove topic t`: the reader keeps `x` |
| `resurrected_endpoint` | A departed endpoint is active again after any change of the partition filter |
| `reload_time_crash` | `-r` with a number that is no long: `Arg::Numeric` accepts it, as `strtol` saturates, and `std::stol` throws with nobody to catch it, where the same number after `--domain` is refused |
| `lost_update` | The console copies an entry that does not match the filter; discovery stores partitions that do; the console stores its copy: the endpoint stays hidden |

More of what the code does is in the models, differs from what a reader of its documents would expect, and is
excepted by name in the property it belongs to. Each is a behaviour of the model that a stronger
property would be refuted by:

| where | behaviour | excepted in |
| --- | --- | --- |
| `participants/model/DataStreamer.cpp:120` | All topics printed; a sample of `t2` checked; enter; `t1` printed; the sample of `t2` goes to the new callback | `PrintsWhatWasAsked` (samples checked for the latest print) |
| `participants/visualization/ModelParser.cpp:476` | Two keyed types under one name: the second shows the key fields of the first, as the cache knows names only | `FieldsDescribeTheInstances` (two keyed types known) |
| `participants/visualization/ModelParser.cpp:99` | A participant that has left is found when it is asked for by its GUID, as its `active` flag is not looked at | `NothingPastShown` (rows of participants) |
| `participants/visualization/ModelParser.cpp:332` | Two types of one name: two rows, each with the endpoints of both | `NothingPresentMissed` (counts by name) |
| `tool/Controller.cpp:148` | An endpoint discovered after the last change of the partition filter is shown, whether or not it passes; the comment there says otherwise | `FilterDecides` (`touched`) |
| `tool/Controller.cpp:1079` | `filter set topic t x` before anybody announced `t`, then a clear: the participant keeps `x` for the reader of `t` to come | `DictionaryInForce` (`unheard`) |
| `fastddsspy_tool/src/cpp/main.cpp:186` | No reload time; the file modified between its first reading and the start of the watcher: not noticed | `EditsComeIntoForce` (`missed`) |
| `fastddsspy_yaml/src/cpp/YamlReaderConfiguration.cpp:280` | The QoS of a file refused for a later fault stays the default | `EditsComeIntoForce` (a faultless file) |

### Properties

* `InstanceCache`: `NoOrphanInstance` (an instance always has a writer),
  `BoundedByFeeders` (limit plus tracks minus one, counting the keys being
  serialized: two tracks of one topic name can both pass the check before either
  stores, so `MAX_INSTANCES_PER_TOPIC` is the bound of a topic of one type only), `KeyFieldsBeforeInstances`, `ImplementsTracker` (refinement).
* `TopicKeys`: `FieldsDescribeTheInstances`. The fields and the instances come by two
  critical sections, and one cache serves all types of a name. The fields shown stay those of
  the name; an instance shown has the members of these fields, unless it is among the first
  of the name (it shows under no fields) or two keyed types are known under the name.
* `TopicRate`: `RateIsThatOfTheWindow` (a history of samples, whatever was counted
  before it, shows the samples since the counter last was zero).
* `DataStreamer`: `PrintsWhatWasAsked`, `InstancesHaveTypeAndRate`, `QuietAfterEnter`. The first
  speaks of samples checked for the latest print, not of those checked for an earlier one.
* `Discovery`: `LastAnnouncementWins`, `OwnEntitiesNeverShown`, `DatabaseCatchesUp`,
  checked in the composition `SpyModel`, with the data on its way.
* `SpyModel`: `OnlyLateSamplesLinger`, `NobodyForgottenAlive`, `DepartedForgotten`. A writer is
  late if samples of it were unread when its last departure was processed; the first and the last say
  what holds of all others.
* `Filters`: `ReadersAgree`, `FilterDecides`, `OnlyActiveChanges`, and `DictionaryInForce`,
  which names the two cases in which a cleared content filter stays with the participant:
  the topic was removed from the dictionary, or nobody had announced it when filters were cleared.
  Entries that discovery stored while the console had a copy are `lost_update` and `resurrected_endpoint`;
  the removed filter is `removed_filter`.
* `Process`: `ArgumentsAreTakenAsMeant` compares the parser with a definition that has
  none: which words stand where an option is expected, and what the last or the first wrong one of
  them decides. `AllowlistsDoNotBlind` (the spy's own topics are carried whatever is
  allowed: only a blocklist that matches them, in the document in force, takes them from the pipe, as the
  code adds them to the allowlist and the blocklist has precedence; those of ROS 2 services are
  never carried), `ListsOfOneDocument`, `NoReloadWithoutPipe`,
  `DomainAsAsked`, `CodeTellsWhatHappened`; `MainGetsThrough` and `EditsComeIntoForce` are
  liveness. The last has a premise that is the one gap: an edit between
  main's reading of the file and the start of the watcher is not noticed, unless a timer runs.
  It is about the last file being faultless: a QoS that a refused file
  has left behind (`QosAfter`) stays until a file sets another, and no property forbids it, as nothing
  in the repository says what a refused file may leave.
* `Queries`: `NothingPresentMissed` and `NothingPastShown` bound an answer from
  both sides by what was active all through the query and at some moment of it;
  when nothing is stored meanwhile the two are one and the answer is exact, with
  the endpoints of a topic row those of its name. An
  answer need not be one state of the database: a topic may be shown with no
  reader and no writer (they left between the two loops), and a verbose list of
  readers or writers may have a blank row.
* One type invariant per module with state.

### Fairness

Weak, of the spy's own threads only. In `Process`, `main` goes on, except that the end of
the user's command is the user's; a reloading thread goes on with its callback, and the
period of the timer passes (`ProcessFairness`). A track with a sample goes on with it
(`DataFairness`), a listener call returns and a track of an internal topic with data waiting is run
(`DiscoveryFairness`; `ModelFairness` is the same in the composition, where no sample need ever
be read): the pipe's thread pool schedules a track
when its reader has data. Nothing is assumed of users, writers or the network.
`std::mutex` promises no order, so `QuietAfterEnter` assumes none: weak fairness
of each track is enough because after the last stop only finitely many samples
are still to be printed. `InstanceCache`,
`TopicKeys`, `Filters` and `Queries` are checked for safety alone.

Deadlock is checked in `instance_cache`. The other runs stop at a bound, or
after a crash of the process, and say `CHECK_DEADLOCK FALSE`.

## 4. Proofs

Every safety property a run checks, invariant or action property, is also a
theorem: it holds for every value of the constants that satisfies the
assumptions below, so for any number of tracks, topics, entities, commands,
words, documents and steps. Each proof has the same form: an inductive
invariant that is stronger than the properties, one lemma per action or per
conjunct that it is preserved, and the properties as its consequences.

**`InstanceCache_proofs`.** `TypeCorrect`: the type invariant is inductive by itself; its last
conjunct (a call serializes only handles its track can have) is what makes
`StoreKey` preserve that keyed handles alone are stored. `CacheInvariant` is the conjunction
of the type invariant, `NoOrphanInstance`, `BoundedByFeeders` and
`KeyFieldsBeforeInstances`. The bound is inductive because it counts, with the
stored instances, the tracks that are about to store one: a
`BeginSerialize` needs room below the limit and finds at most the other
tracks serializing; a `StoreKey` turns a serializing track into at most one
instance; the other steps lower the sum or keep it. `RefinesTracker`
(`Spec => ImplementsTracker`) is by step simulation: `UpdateCached` and
`StoreKey` are publications, `RemoveWriter` is a departure, the rest stutter. `StoreKey` needs the bound:
a new instance needs room in the abstract tracker, which the code does not check at that point.

**`TopicKeys_proofs`.** `KeysInvariant` adds where the types come from: the key
fields of a name, the key of each instance and the type of each call under way are of a
known type published under the name, as a sample gets to the cache only with its schema
(`Known`); that the fields of a row still are those of the name, or were read empty before there were
instances, which is where `KeyFieldsBeforeInstances` is needed (`FieldsRead`); and that the instances in a row are of types that were known (`InstancesRead`).
From these `RowsFitTogether` follows: an instance with other members than the fields shown is of a
second keyed type known under the name.

**`DataStreamer_proofs`.** `DataInv` says what a sample carries at each step of `add_data`
(`SamplesFit`): once counted it has a rate, once checked its type has a schema, it notes
the command of its check and never one to come, and while that command is the
latest its callback is that command's and its topic one the user named. `CallsFit` says the same of the call of
the cache it is in, `ActivatedAsAsked` that the four members that say what to print are
those of the running command. None of `PrintsWhatWasAsked` and
`InstancesHaveTypeAndRate` is inductive without them: the callback is loaded after the
mutex is released. `StreamerUsesCache` (`DataSpec => Spec`) is the composition: each step of the
streamer is a step of `InstanceCache` or leaves it alone, so the theorems of the cache hold of it
there (`StreamerCacheCorrect`). `RateOfTheWindow` is by induction over a history of samples and arithmetic of the modulus.

**`Discovery_proofs`.** `DiscoveryInv` adds two things to the properties: whatever is in
the listener or in a queue is of a GUID the network has announced, and between
the two halves of `new_endpoint_info_` the entry of the worker stays as the first half
stored it. `LastAnnouncementWins` is about the last info of a GUID on its way (the
listener's, else the last of its queue), else its entry; it is inductive because a
channel is a queue with one reader, and the listener is called once at a time.

**`SpyModel_proofs`.** `ModelInv` adds that samples and instances are of remote writers and
that each of their writers is alive, has its departure on its way, or had samples
unread when its departure was processed (`DataIsAccounted`). `OnlyLateSamplesLinger` is the half of it
about instances; the half about unread samples is what makes it inductive, and a new one is accounted for
because a reader is matched with its writer (`MatchedAccounted`). `ModelForgetsDeparted` is the
action property `NobodyForgottenAlive`, which needs `WorkerHasEntry`: the departure is processed after the lock of
the database is gone. `ModelImplementsTracker` is the refinement of the abstract tracker, here by the whole model.

**`Filters_proofs`.** The properties hold between two commands; `FilterInv` says what holds in the middle of one, in
terms of what is left to do (`todo`): the order of the steps (`Ordered`: whoever tells the participant tells the
readers next, which a reader created in between relies on), what the participant and the
readers have if they are not to be told any more (`PartitionsTold`, `ContentTold`, `DictionaryTold`),
and that an endpoint discovery has left alone is active as decided, unless it is still to be decided or
stored (`EndpointsDecided`); what was decided and not yet stored is right (`DecisionsRight`).
`ConsoleChangesFlags` is the action property `OnlyActiveChanges`.

**`Queries_proofs`.** `QueryInv` states both bounds of an answer at any moment of a query:
what was there all the time has a row that shows all that was there all the time,
or is still to be read, and what has been found or shown was there at some moment.
The two histories enter as sets (`QueryFits(x, always, ever)`), and one grows and the
other shrinks; the proof is that `QueryFits` is monotone in both and kept by each loop.
`QueriesOnlyLook`: queries change nothing of discovery, so what `Discovery_proofs` says holds while they run.

**`Process_proofs`.** `ProcessInv` is `LifeInv` (at each place of `main`, whether the pipe is there, the
timer and the watcher may call, and a callback may be in progress), `HeldInv` (what
main or a thread holds is a document there was, without fault once it is about to be
applied), `ValueInv` (types) and three of the properties, which are inductive given
these; there is one lemma per conjunct, with one step per action. `InternalTopicsCarried` (`AllowlistsDoNotBlind`)
follows from `ListsOfOneDocument` by what `PipeLists` adds to the lists of that document.
`ArgumentsTakenAsMeant` is of another kind: the option parser is a recursive function and the
loop over the options a fold, so the proof is by induction over data. Since no prover at hand
takes an induction theorem with a predicate for parameter, the induction is over
sets (`SetInduction`: a set with zero and with the successor of each of its elements has
every number), from the well-foundedness of the numbers. Its steps:

1. Both the recursive function and the fold are a `CHOOSE` of a function that satisfies their
   equation; such a function exists (`ParseExists`, from the last word backwards;
   `FoldsExist`), so they satisfy it (`ParsedIs`, `FoldTurns`).
2. The set of words in option position, a `CHOOSE` as well, exists (`PositionsExist`); the value of an option is
   in no option position (`ValueIsNoOption`), and none follows the word that ends the options (`NoOptionAfterTheEnd`).
3. From any word in reach the parser finds the options of the positions from there on, in
   order, or fails if one lacks its value (`RestParsed`, backwards; `ParsedAre`).
4. After each turn the loop has what the options so far come to: the code of the first refused, or
   the latest domain and reload time (`OneTurnComesTo`, `LoopComesTo`).
5. Together: `ParsedAsMeant`, for every sequence of words.

### Assumptions

`CacheConstants`, `StreamConstants`, `RateConstants`, `DiscoveryConstants`, `SpyModelConstants`,
`FilterConstants`, `QueryConstants`, `ArgumentConstants`, `ConfigurationConstants` and
`ProcessConstants`, all evaluated by TLC in the runs, and nothing else. They are of four kinds: a
set is finite where it is counted (tracks); kinds of things are disjoint (participants
and endpoints; topics of users, of services and of the spy); each entity has its owner, topic or
type; and a value that says "none" (`NoFlag`, `NoNumber`, `NoTag`, a nobody) is none of the things it is the absence
of. Bounds need only be numbers.

### Only model-checked

* Liveness, out of the prover's reach: `QuietAfterEnter`, `DatabaseCatchesUp`, `DepartedForgotten`,
  `MainGetsThrough` and `EditsComeIntoForce`.
* The counterexamples of the runs that expect one.

`SpyModel` uses `InstanceTracker` in place of `InstanceCache`; theorem `RefinesTracker`
is what justifies it, and `StreamerUsesCache` that it holds of the cache of the streamer.

## 5. Plan

What is left to prove:

1. The link that is an argument of this file: that the cache in
   `SpyModel` is that of `DataStreamer` (a composition of the two, with its simulation).
2. Safety that the liveness properties rest on: that a print command that is stopped leaves only the samples that are under
   way to print, that each step of main but its wait brings it nearer to its end, and
   what the lists are when both threads are done.

## 6. Not modelled

* `thirdparty/nlohmann-json/nlohmann/json.hpp` (24640 lines) and, but for the loop that
  splits the words, `thirdparty/optionparser/optionparser.h` (3291 lines): vendored libraries. The
  first formats and parses JSON text, which no property is about. The two are
  four fifths of the lines of the implementation.
* `YamlWriter`, `View`, `Input`: text in and out. That the console waits and that
  `view_mutex_` keeps prints apart is in `DataStreamer`.
* Tags of the configuration that are read and stored and decide nothing here (log,
  transport, interfaces, xml profiles, easy mode, participant flags).
* What fails in `main` once the spy is built: the construction of the handlers of the watcher and
  the timer, and the commands, succeed in the model.
* `TypeIdlProvider` and the info types: plain data.
* The members of `Controller` are destroyed before `backend_`, the first of them, whose
  destructor disables the pipe: a callback that prints in that moment uses a destroyed mutex.
  It is undefined behaviour that ends nothing the model has a state for.
* Fast DDS, the DDS Pipe and cpp_utils, but for what `src/` relies on.
