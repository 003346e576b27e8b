----------------------------- MODULE DataStreamer -----------------------------
(***************************************************************************)
(* The data path of the spy (model/DataStreamer.cpp) and the print command *)
(* that taps it (Controller::print_command_).  Every sample a track        *)
(* delivers is counted, checked against the print command in force, put in *)
(* the instance cache and, if it was to be printed, handed to the callback.*)
(* The streamer's mutex covers the check only: the callback is read, and   *)
(* called, while the console may be stopping one print or starting another.*)
(*                                                                         *)
(* Threads: the tracks, one sample at a time each; the track of the type   *)
(* object topic (add_schema); the console; the participant that reports    *)
(* departed writers.                                                       *)
(***************************************************************************)
EXTENDS InstanceCache, TopicRate

CONSTANTS
  MaxCommands   \* bound: how many print commands the user types

ASSUME StreamConstants == MaxCommands \in Nat /\ Tracks = RatedTopics

VARIABLES
  typesDiscovered,   \* types_discovered_: the types with a schema
  activation,        \* activated_, activated_all_, activated_topic_, callback_
  command,           \* what the user asked for last: its number, the topics
                     \* it names and whether it is still to be printed
  sample,            \* per track: the sample add_data is working on
  printer,           \* the track that holds the console's view_mutex_
  crashed            \* the process called through a dead callback

streamVars == <<typesDiscovered, activation, command, sample, printer, crashed>>
dataVars == <<cacheVars, rateData, streamVars>>

(* Callback objects are numbered by the print command that made them; 0 is   *)
(* the null pointer.                                                         *)
NullCallback == 0
Nobody == "nobody"

NoSample == [pc |-> "none"]

Step(tr) == sample[tr].pc

Move(tr, record) == sample' = [sample EXCEPT ![tr] = record]

(* The topic names a print command's wildcard can match. *)
Patterns == SUBSET Topics \ {{}}

Matches(tr) == activation.all \/ TopicOf[tr] \in activation.topics

-----------------------------------------------------------------------------
StreamInit ==
  /\ typesDiscovered = {}
  /\ activation = [on |-> FALSE, all |-> FALSE, topics |-> {}, callback |-> NullCallback]
  /\ command = [number |-> 0, topics |-> {}, running |-> FALSE]
  /\ sample = [tr \in Tracks |-> NoSample]
  /\ printer = Nobody
  /\ crashed = FALSE

DataInit == Init /\ RateInit /\ StreamInit

(* add_schema *)
AddSchema(type) ==
  /\ typesDiscovered' = typesDiscovered \cup {type}
  /\ UNCHANGED <<cacheVars, rateData, activation, command, sample, printer, crashed>>

(* on_writer_discovered(w, t, active = false) *)
WriterLeaves(t, w) ==
  /\ RemoveWriter(t, w)
  /\ UNCHANGED <<rateData, streamVars>>

-----------------------------------------------------------------------------
(* The console: print_command_, up to wait_something and after it.           *)

(* Mutant: activated_all_ keeps the value an earlier "print all" gave it. *)
ActivateKeepAll(topics, callback) ==
  activation' = [activation EXCEPT !.on = TRUE, !.topics = topics, !.callback = callback]

(* activate *)
Activate(topics, callback) ==
  activation' = [on |-> TRUE, all |-> FALSE, topics |-> topics, callback |-> callback]

(* activate_all: activated_topic_ keeps its value and is not looked at. *)
ActivateAll(callback) ==
  activation' = [activation EXCEPT !.on = TRUE, !.all = TRUE, !.callback = callback]

(* Mutant: the callback is released and the flag stays up. *)
DeactivateCallbackOnly == activation' = [activation EXCEPT !.callback = NullCallback]

(* deactivate *)
Deactivate ==
  activation' = [activation EXCEPT !.on = FALSE, !.callback = NullCallback]

Request(topics) ==
  /\ ~command.running
  /\ command.number < MaxCommands
  /\ command' = [number |-> command.number + 1, topics |-> topics, running |-> TRUE]

(* With "all", whatever has been discovered. *)
PrintAll ==
  /\ Request(Topics)
  /\ ActivateAll(command.number + 1)
  /\ UNCHANGED <<cacheVars, rateData, typesDiscovered, sample, printer, crashed>>

(* With a topic name, if a topic it matches has a type. *)
PrintTopics(topics) ==
  /\ \E tr \in Tracks : TopicOf[tr] \in topics /\ TypeOf[tr] \in typesDiscovered
  /\ Request(topics)
  /\ Activate(topics, command.number + 1)
  /\ UNCHANGED <<cacheVars, rateData, typesDiscovered, sample, printer, crashed>>

(* The user presses enter. *)
StopPrint ==
  /\ command.running
  /\ Deactivate
  /\ command' = [command EXCEPT !.running = FALSE]
  /\ UNCHANGED <<cacheVars, rateData, typesDiscovered, sample, printer, crashed>>

-----------------------------------------------------------------------------
(* A track: add_data, from its first line to its last.                       *)

(* TopicRateCalculator::add_data counts the sample, typed or not. *)
Receive(tr, h, w, stamp) ==
  /\ Step(tr) = "none"
  /\ CountSample(tr, stamp)
  /\ Move(tr, [pc |-> "counted", handle |-> h, writer |-> w])
  /\ UNCHANGED <<cacheVars, typesDiscovered, activation, command, printer, crashed>>

(* Under the mutex: the type of the topic has no schema, the sample is lost. *)
DropUntyped(tr) ==
  /\ Step(tr) = "counted"
  /\ TypeOf[tr] \notin typesDiscovered
  /\ Move(tr, NoSample)
  /\ UNCHANGED <<cacheVars, rateData, typesDiscovered, activation, command, printer, crashed>>

Checked(tr) ==
  [pc |-> "checked", handle |-> sample[tr].handle, writer |-> sample[tr].writer,
   print |-> activation.on /\ Matches(tr), command |-> command.number]

(* Mutant: samples of a topic without a schema go through. *)
CheckAnyType(tr) ==
  /\ Step(tr) = "counted"
  /\ Move(tr, Checked(tr))
  /\ UNCHANGED <<cacheVars, rateData, typesDiscovered, activation, command, printer, crashed>>

(* Under the mutex: is the sample to be printed?  (The number of the print   *)
(* command is noted for the properties; the code keeps the flag alone.)      *)
Check(tr) ==
  /\ Step(tr) = "counted"
  /\ TypeOf[tr] \in typesDiscovered
  /\ Move(tr, Checked(tr))
  /\ UNCHANGED <<cacheVars, rateData, typesDiscovered, activation, command, printer, crashed>>

(* instance_cache_.add_or_update_instance, in the steps InstanceCache has. *)
Cache(tr) ==
  /\ Step(tr) = "checked"
  /\ BeginCall(tr, sample[tr].handle, sample[tr].writer)
  /\ Move(tr, [pc |-> "cached", print |-> sample[tr].print, command |-> sample[tr].command])
  /\ UNCHANGED <<rateData, typesDiscovered, activation, command, printer, crashed>>

CacheMore(tr) ==
  /\ FinishCall(tr)
  /\ UNCHANGED <<rateData, streamVars>>

CacheDone(tr) == Step(tr) = "cached" /\ call[tr] = Idle

Leave(tr) ==
  /\ CacheDone(tr)
  /\ ~sample[tr].print
  /\ Move(tr, NoSample)
  /\ UNCHANGED <<cacheVars, rateData, typesDiscovered, activation, command, printer, crashed>>

(* callback_ is read, outside the mutex: whatever callback there is now. *)
LoadCallback(tr) ==
  /\ CacheDone(tr)
  /\ sample[tr].print
  /\ activation.callback # NullCallback
  /\ Move(tr, [pc |-> "loaded", callback |-> activation.callback,
               command |-> sample[tr].command])
  /\ UNCHANGED <<cacheVars, rateData, typesDiscovered, activation, command, printer, crashed>>

(* The callback is a null pointer, or the object it points to was released   *)
(* between the read and the call.                                            *)
CallDead(tr) ==
  /\ \/ CacheDone(tr) /\ sample[tr].print /\ activation.callback = NullCallback
     \/ Step(tr) = "loaded" /\ sample[tr].callback # activation.callback
  /\ crashed' = TRUE
  /\ UNCHANGED <<cacheVars, rateData, typesDiscovered, activation, command, sample, printer>>

(* The callback is called.  A released one may still run: its memory keeps   *)
(* the controller's address until it is reused.                              *)
CallCallback(tr) ==
  /\ Step(tr) = "loaded"
  /\ Move(tr, [sample[tr] EXCEPT !.pc = "called"])
  /\ UNCHANGED <<cacheVars, rateData, typesDiscovered, activation, command, printer, crashed>>

(* data_stream_callback_, verbose or not: the view mutex is taken, the data  *)
(* shown, and the mutex released on every return.                            *)
BeginPrint(tr) ==
  /\ Step(tr) = "called"
  /\ printer = Nobody
  /\ printer' = tr
  /\ Move(tr, [pc |-> "printing"])
  /\ UNCHANGED <<cacheVars, rateData, typesDiscovered, activation, command, crashed>>

(* Mutant: the view mutex is not released. *)
EndPrintHolding(tr) ==
  /\ Step(tr) = "printing"
  /\ Move(tr, NoSample)
  /\ UNCHANGED <<cacheVars, rateData, typesDiscovered, activation, command, printer, crashed>>

EndPrint(tr) ==
  /\ Step(tr) = "printing"
  /\ printer' = Nobody
  /\ Move(tr, NoSample)
  /\ UNCHANGED <<cacheVars, rateData, typesDiscovered, activation, command, crashed>>

(* What add_data does once it has been called. *)
Proceed(tr) ==
  \/ DropUntyped(tr)
  \/ Check(tr)
  \/ Cache(tr)
  \/ CacheMore(tr)
  \/ Leave(tr)
  \/ LoadCallback(tr)
  \/ CallDead(tr)
  \/ CallCallback(tr)
  \/ BeginPrint(tr)
  \/ EndPrint(tr)

Console == PrintAll \/ StopPrint \/ \E topics \in Patterns : PrintTopics(topics)

DataNext ==
  /\ ~crashed
  /\ \/ Console
     \/ \E type \in Types : AddSchema(type)
     \/ \E t \in Topics, w \in Writers : WriterLeaves(t, w)
     \/ \E tr \in Tracks : Proceed(tr)
     \/ \E tr \in Tracks, w \in Writers, stamp \in Stamps :
          \E h \in HandlesOf(tr) : Receive(tr, h, w, stamp)

(* The tracks' threads go on with the sample they have; nothing makes users  *)
(* type, writers publish or types come, and no order is promised between two *)
(* tracks that wait for the view mutex.                                      *)
DataFairness == \A tr \in Tracks : WF_dataVars(~crashed /\ Proceed(tr))

DataSpec == DataInit /\ [][DataNext]_dataVars /\ DataFairness

-----------------------------------------------------------------------------
CountedSamples(tr) == [pc : {"counted"}, handle : HandlesOf(tr), writer : Writers]
CheckedSamples(tr) == [pc : {"checked"}, handle : HandlesOf(tr), writer : Writers,
                 print : BOOLEAN, command : 0..MaxCommands]
CachedSamples == [pc : {"cached"}, print : BOOLEAN, command : 0..MaxCommands]
LoadedSamples == [pc : {"loaded", "called"}, callback : 1..MaxCommands, command : 1..MaxCommands]

SampleOK(tr) ==
  sample[tr] \in {NoSample, [pc |-> "printing"]}
                   \cup CountedSamples(tr) \cup CheckedSamples(tr) \cup CachedSamples \cup LoadedSamples

(* Shapes of the streamer's state; and the activation agrees with what the   *)
(* user sees: a callback is set exactly while a print command is running,    *)
(* and it is that command's.                                                 *)
StreamTypeOK ==
  /\ TypeOK
  /\ typesDiscovered \subseteq Types
  /\ command \in [number : 0..MaxCommands, topics : SUBSET Topics, running : BOOLEAN]
  /\ activation \in [on : BOOLEAN, all : BOOLEAN, topics : SUBSET Topics,
                     callback : 0..MaxCommands]
  /\ activation.on = command.running
  /\ activation.callback = IF command.running THEN command.number ELSE NullCallback
  /\ DOMAIN sample = Tracks
  /\ \A tr \in Tracks : SampleOK(tr)
  /\ printer \in Tracks \cup {Nobody}
  /\ crashed \in BOOLEAN

(* While the print command under which a sample was checked is the latest,   *)
(* the sample goes to that command's callback, and its topic is one the user *)
(* named: neither an earlier "print all" nor an earlier filter shows through.*)
PrintsWhatWasAsked ==
  \A tr \in Tracks :
    Step(tr) \in {"loaded", "called"} /\ sample[tr].command = command.number =>
      sample[tr].callback = command.number /\ TopicOf[tr] \in command.topics

(* An instance "topic keys" shows comes with a type "topics" shows as        *)
(* discovered and with a topic that has a rate: it was stored for a sample   *)
(* that was counted and whose type had a schema.                             *)
InstancesHaveTypeAndRate ==
  \A t \in Topics : \A h \in Cached(t) :
    \E tr \in Tracks :
      /\ TopicOf[tr] = t
      /\ TypeOf[tr] = instances[t][h].key
      /\ TypeOf[tr] \in typesDiscovered
      /\ tr \in DOMAIN rateData

(* Once the user has pressed enter for the last time, the samples still on   *)
(* their way to the terminal run out, whoever waits for the view mutex:      *)
(* nothing is printed for ever after (unless the process has crashed).       *)
AboutToPrint(tr) ==
  \/ Step(tr) \in {"loaded", "called", "printing"}
  \/ Step(tr) \in {"checked", "cached"} /\ sample[tr].print

Quiet == \A tr \in Tracks : ~AboutToPrint(tr)

QuietAfterEnter == <>[]~command.running => <>[](Quiet \/ crashed)

(* "Press enter and the CLI will finish showing the data received": what the *)
(* user manual says of the end of a print; the process is still there.       *)
PrintEndsWithoutCrash == ~crashed
=============================================================================
