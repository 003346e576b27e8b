------------------------------- MODULE Process -------------------------------
(***************************************************************************)
(* The process of the spy: main.cpp, with the construction, the reload and *)
(* the destruction of tool/Backend.cpp and Controller::run.  main parses   *)
(* its arguments, loads the configuration, builds the spy, and sets two    *)
(* threads on the configuration file: a watcher called when the file       *)
(* changes and a timer.  Each reads the file, loads it and hands the lists *)
(* of topics to the running DDS Pipe, whatever the other one does.         *)
(*                                                                         *)
(* The watcher and the timer are libraries: a change of the file raises    *)
(* the watcher's flag, which it takes down before it calls back; both wait *)
(* for a callback in progress when they are destroyed.                     *)
(***************************************************************************)
EXTENDS Configuration

CONSTANTS
  CommandLines,   \* the words the spy may be started with
  Files,          \* the contents the configuration file may have
  NoFile,         \* there is no such file
  MaxEdits        \* bound: how often the user writes or deletes the file

ASSUME ProcessConstants ==
  /\ CommandLines \subseteq Seq(Word)
  /\ Files \subseteq Yaml
  /\ NoFile \notin Files
  /\ MaxEdits \in Nat

VARIABLES
  pc,           \* where main is
  argv,         \* the words, until they are parsed
  outcome,      \* what parse_arguments made of them
  source,       \* commandline_args.file_path: a file was found
  loaded,       \* the document main loaded
  code,         \* the code main returned
  file,         \* what the configuration file holds
  edits,        \* how often it was written
  watchable,    \* the watcher notices a change (not through a symbolic link)
  changed,      \* the watcher has a change to call back for
  timer,        \* the periodic handler is there and not stopped
  reload,       \* per thread: the reload it is in
  lists,        \* the lists of the DDS Pipe
  pipe,         \* "none" before it is built, "enabled", "destroyed"
  domain,       \* that of the DDS participant
  defaultQos,   \* TopicQoS::default_topic_qos, a global
  had,          \* for the properties: what there was to load until now
  missed        \* for the properties: the last write came when nothing watched

mainVars == <<pc, argv, outcome, source, loaded, code>>
fileVars == <<file, edits, watchable, had>>
watchVars == <<changed, missed>>
reloadVars == <<timer, reload>>
pipeVars == <<lists, pipe, domain>>
processVars == <<mainVars, fileVars, watchVars, reloadVars, pipeVars, defaultQos>>

Threads == {"watcher", "timer"}

Sleeping == [pc |-> "sleeping"]
Reading(yml) == [pc |-> "reading", yml |-> yml]
Applying(yml) == [pc |-> "applying", yml |-> yml]

At(place) == pc = place
Goto(place) == pc' = place

(* The watcher exists. *)
Watching == pc \in {"timer", "running", "stop timer", "join timer", "stop watcher"}

Return(c) == Goto("ended") /\ code' = c

ProcessInit ==
  /\ pc = "parse"
  /\ argv \in CommandLines
  /\ outcome = Outcome("success")
  /\ source = FALSE
  /\ loaded = EmptyYaml
  /\ code = "none"
  /\ file \in Files \cup {NoFile}
  /\ edits = 0
  /\ watchable \in BOOLEAN
  /\ changed = FALSE
  /\ timer = FALSE
  /\ reload = [t \in Threads |-> Sleeping]
  /\ lists = [allow |-> {}, block |-> {}]
  /\ pipe = "none"
  /\ domain = Unset
  /\ defaultQos = NoTag
  /\ had = {EmptyYaml} \cup ({file} \cap Files)
  /\ missed = FALSE

-----------------------------------------------------------------------------
(* The user writes the file, or deletes it (before main looks at it, that is *)
(* another initial state).                                                   *)
Edit ==
  /\ ~At("parse")
  /\ edits < MaxEdits
  /\ edits' = edits + 1
  /\ file' \in (Files \cup {NoFile}) \ {file}
  /\ had' = had \cup ({file'} \cap Files)
  /\ changed' = (changed \/ (Watching /\ watchable /\ source))
  /\ missed' = ~(Watching /\ watchable)
  /\ UNCHANGED <<mainVars, watchable, reloadVars, pipeVars, defaultQos>>

(* parse_arguments, and the returns that follow it.  The words are not       *)
(* looked at again.                                                          *)
Parse ==
  /\ At("parse")
  /\ outcome' = ParseArguments(argv, file # NoFile)
  /\ argv' = <<>>
  /\ CASE outcome'.code = "success" -> Goto("find") /\ UNCHANGED code
       [] outcome'.code \in {"help", "version"} -> Return("success")
       [] OTHER -> Return(outcome'.code)
  /\ UNCHANGED <<source, loaded, fileVars, watchVars, reloadVars, pipeVars, defaultQos>>

(* The file given, else the default file, if it can be read.                 *)
FindFile ==
  /\ At("find")
  /\ source' = (file # NoFile)
  /\ Goto("load")
  /\ UNCHANGED <<argv, outcome, loaded, code, fileVars, watchVars, reloadVars, pipeVars, defaultQos>>

(* What load_configuration_from_file_ reads, and whether it throws. *)
Document == IF source THEN file ELSE EmptyYaml
Unreadable(yml) == yml = NoFile \/ (yml # NoFile /\ yml.fault = "syntax")

(* The default QoS, which is set unless something before it is at fault. *)
QosAfter(yml) == IF yml.fault \in {"none", "dds"} THEN LoadQos(defaultQos, yml) ELSE defaultQos

(* Mutant: the catch block does not return. *)
LoadOrSucceed ==
  /\ At("load")
  /\ missed' = FALSE
  /\ loaded' = IF Unreadable(Document) THEN loaded ELSE Document
  /\ IF Unreadable(Document) \/ Document.fault # "none" THEN Return("success")
                                                      ELSE Goto("build") /\ UNCHANGED code
  /\ UNCHANGED <<argv, outcome, source, fileVars, changed, reloadVars, pipeVars, defaultQos>>

(* Configuration(file_path, &args); a ConfigurationException ends the process. *)
LoadConfiguration ==
  /\ At("load")
  /\ missed' = FALSE
  /\ IF Unreadable(Document)
       THEN Return("execution_failed") /\ UNCHANGED <<loaded, defaultQos>>
       ELSE /\ loaded' = Document
            /\ defaultQos' = QosAfter(Document)
            /\ IF Document.fault = "none" THEN Goto("build") /\ UNCHANGED code
                                          ELSE Return("execution_failed")
  /\ UNCHANGED <<argv, outcome, source, fileVars, changed, reloadVars, pipeVars>>

Configured == OverrideDomain(Load(loaded), outcome.args)

(* The constructor of Backend, which checks the configuration first; the DDS *)
(* participant may not come up (InitializationException).                    *)
Refuse ==
  /\ At("build")
  /\ Return("execution_failed")
  /\ UNCHANGED <<argv, outcome, source, loaded, fileVars, watchVars, reloadVars, pipeVars, defaultQos>>

Build ==
  /\ At("build")
  /\ IsValid(Configured)
  /\ lists' = PipeLists(Configured)
  /\ pipe' = "enabled"
  /\ domain' = Configured.domain
  /\ Goto("watch")
  /\ UNCHANGED <<argv, outcome, source, loaded, code, fileVars, watchVars, reloadVars, defaultQos>>

StartWatcher ==
  /\ At("watch")
  /\ Goto("timer")
  /\ UNCHANGED <<argv, outcome, source, loaded, code, fileVars, watchVars, reloadVars, pipeVars, defaultQos>>

(* The timer, if the reload time is positive.  A negative time is whatever   *)
(* the type of the milliseconds makes of it.                                 *)
StartTimer ==
  /\ At("timer")
  /\ timer' \in BOOLEAN
  /\ outcome.args.reload >= 0 => (timer' <=> outcome.args.reload > 0)
  /\ Goto("running")
  /\ UNCHANGED <<argv, outcome, source, loaded, code, fileVars, watchVars, reload, pipeVars, defaultQos>>

(* run returns at the user's exit, one_shot_run after its command.           *)
Finish ==
  /\ At("running")
  /\ Goto("stop timer")
  /\ UNCHANGED <<argv, outcome, source, loaded, code, fileVars, watchVars, reloadVars, pipeVars, defaultQos>>

(* Mutant: the callback in progress is waited for, further ones are not kept *)
(* from starting.                                                            *)
StopTimerLater ==
  /\ At("stop timer")
  /\ Goto("join timer")
  /\ UNCHANGED <<argv, outcome, source, loaded, code, fileVars, watchVars, reloadVars, pipeVars, defaultQos>>

(* periodic_handler.reset(): no further callback, and then none in progress. *)
StopTimer ==
  /\ At("stop timer")
  /\ timer' = FALSE
  /\ Goto("join timer")
  /\ UNCHANGED <<argv, outcome, source, loaded, code, fileVars, watchVars, reload, pipeVars, defaultQos>>

JoinTimer ==
  /\ At("join timer")
  /\ reload["timer"] = Sleeping
  /\ Goto("stop watcher")
  /\ UNCHANGED <<argv, outcome, source, loaded, code, fileVars, watchVars, reloadVars, pipeVars, defaultQos>>

(* file_watcher_handler.reset() *)
StopWatcher ==
  /\ At("stop watcher")
  /\ changed' = FALSE
  /\ Goto("join watcher")
  /\ UNCHANGED <<argv, outcome, source, loaded, code, fileVars, missed, reloadVars, pipeVars, defaultQos>>

(* Mutant: the watcher is not waited for. *)
LeaveWatcher ==
  /\ At("join watcher")
  /\ Goto("destroy")
  /\ UNCHANGED <<argv, outcome, source, loaded, code, fileVars, watchVars, reloadVars, pipeVars, defaultQos>>

JoinWatcher ==
  /\ At("join watcher")
  /\ reload["watcher"] = Sleeping
  /\ Goto("destroy")
  /\ UNCHANGED <<argv, outcome, source, loaded, code, fileVars, watchVars, reloadVars, pipeVars, defaultQos>>

(* The end of the block: the spy is destroyed, its backend last. *)
Destroy ==
  /\ At("destroy")
  /\ pipe' = "destroyed"
  /\ Return("success")
  /\ UNCHANGED <<argv, outcome, source, loaded, fileVars, watchVars, reloadVars, lists, domain, defaultQos>>

Main ==
  \/ Parse \/ FindFile \/ LoadConfiguration \/ Refuse \/ Build \/ StartWatcher \/ StartTimer
  \/ StopTimer \/ JoinTimer \/ StopWatcher \/ JoinWatcher \/ Destroy

-----------------------------------------------------------------------------
(* Mutant: the callback takes the document main loaded. *)
BeginWithLoaded(t) ==
  /\ reload[t] = Sleeping
  /\ IF t = "timer" THEN timer /\ UNCHANGED changed ELSE changed /\ changed' = FALSE
  /\ reload' = [reload EXCEPT ![t] = Reading(loaded)]
  /\ UNCHANGED <<mainVars, fileVars, missed, timer, pipeVars, defaultQos>>

(* The callback of the watcher or of the timer, up to the file being read:   *)
(* what cannot be read is a warning.                                         *)
BeginReload(t) ==
  /\ reload[t] = Sleeping
  /\ IF t = "timer" THEN timer /\ UNCHANGED changed ELSE changed /\ changed' = FALSE
  /\ reload' = [reload EXCEPT ![t] = IF Unreadable(Document) THEN Sleeping ELSE Reading(Document)]
  /\ UNCHANGED <<mainVars, fileVars, missed, timer, pipeVars, defaultQos>>

(* Mutant: what was loaded before the exception is applied. *)
LoadAnyway(t) ==
  /\ reload[t].pc = "reading"
  /\ defaultQos' = QosAfter(reload[t].yml)
  /\ reload' = [reload EXCEPT ![t] = Applying(reload[t].yml)]
  /\ UNCHANGED <<mainVars, fileVars, watchVars, timer, pipeVars>>

(* load_configuration_: the specs set the global QoS, then the rest is       *)
(* loaded or throws, which is a warning.                                     *)
LoadReload(t) ==
  LET yml == reload[t].yml IN
  /\ reload[t].pc = "reading"
  /\ defaultQos' = QosAfter(yml)
  /\ reload' = [reload EXCEPT ![t] = IF yml.fault = "none" THEN Applying(yml) ELSE Sleeping]
  /\ UNCHANGED <<mainVars, fileVars, watchVars, timer, pipeVars>>

(* Mutant: the internal topics are not added to the lists of a reload. *)
ApplyAsConfigured(t) ==
  LET configuration == Load(reload[t].yml) IN
  /\ reload[t].pc = "applying"
  /\ lists' = [allow |-> configuration.allow, block |-> configuration.block]
  /\ reload' = [reload EXCEPT ![t] = Sleeping]
  /\ UNCHANGED <<mainVars, fileVars, watchVars, timer, pipe, domain, defaultQos>>

(* Backend::reload_configuration: the lists alone reach the DDS Pipe, which  *)
(* takes them under its lock.                                                *)
ApplyReload(t) ==
  /\ reload[t].pc = "applying"
  /\ lists' = PipeLists(Load(reload[t].yml))
  /\ reload' = [reload EXCEPT ![t] = Sleeping]
  /\ UNCHANGED <<mainVars, fileVars, watchVars, timer, pipe, domain, defaultQos>>

Reload(t) == BeginReload(t) \/ LoadReload(t) \/ ApplyReload(t)

ProcessNext ==
  \/ Main
  \/ Finish
  \/ Edit
  \/ \E t \in Threads : Reload(t)

(* Main and the two threads are scheduled, the period of the timer passes;   *)
(* when the user ends a command or edits the file is the user's business.    *)
ProcessFairness ==
  /\ WF_processVars(Main)
  /\ \A t \in Threads : WF_processVars(Reload(t))

ProcessSpec == ProcessInit /\ [][ProcessNext]_processVars /\ ProcessFairness

-----------------------------------------------------------------------------
Places == {"parse", "find", "load", "build", "watch", "timer", "running", "stop timer",
           "join timer", "stop watcher", "join watcher", "destroy", "ended"}

Codes == {"success", "incorrect_argument", "execution_failed", "terminated"}

Lists == [allow : SUBSET AnyTopic, block : SUBSET AnyTopic]

ProcessTypeOK ==
  /\ pc \in Places
  /\ argv \in CommandLines \cup {<<>>}
  /\ outcome.code \in Codes \cup {"help", "version"}
  /\ outcome.args \in [reload : Int, domain : 0..MaxDomainId \cup {Unset}]
  /\ {source, watchable, changed, timer, missed} \subseteq BOOLEAN
  /\ loaded \in Yaml
  /\ code \in Codes \cup {"none"}
  /\ code = "none" <=> pc # "ended"
  /\ file \in Files \cup {NoFile}
  /\ edits \in 0..MaxEdits
  /\ DOMAIN reload = Threads
  /\ \A t \in Threads : reload[t] = Sleeping \/ reload[t] \in [pc : {"reading", "applying"}, yml : Yaml]
  /\ lists \in Lists
  /\ pipe \in {"none", "enabled", "destroyed"}
  /\ domain \in Nat \cup {Unset}
  /\ defaultQos \in Profiles \cup {NoTag}
  /\ had \subseteq Yaml

(* What a command line means, without a parser: the words in option          *)
(* position are those the words before them leave there.                     *)
OptionPositions(words) ==
  CHOOSE S \in SUBSET DOMAIN words : \A i \in DOMAIN words :
    i \in S <=> /\ words[i].flag \notin {NoFlag, "end"}
                /\ \/ i = 1
                   \/ i - 1 \in S /\ words[i - 1].flag \notin Valued
                   \/ i - 2 \in S /\ words[i - 2].flag \in Valued

Meant(words, exists) ==
  LET S == OptionPositions(words)
      at(flag) == {i \in S : words[i].flag = flag}
      latest(flag) == words[1 + CHOOSE i \in at(flag) : \A j \in at(flag) : j <= i].number
      tooLong == {i \in at("reload-time") : words[i + 1].number \notin -LongMax - 1..LongMax}
      wrong == at("unknown")
                 \cup {i \in at("domain") : words[i + 1].number \notin 0..MaxDomainId}
      firstWrong == CHOOSE i \in tooLong \cup wrong : \A j \in tooLong \cup wrong : i <= j
  IN
  CASE \E i \in S : words[i].flag \in Valued
         /\ (i = Len(words) \/ ~Accepts(words[i].flag, words[i + 1], exists)) -> [code |-> "incorrect_argument"]
    [] OTHER ->
         IF at("help") \cup at("version") # {}
           THEN [code |-> IF at("help") # {} THEN "help" ELSE "version"]
         ELSE IF tooLong \cup wrong # {}
           THEN [code |-> IF firstWrong \in wrong THEN "incorrect_argument" ELSE "terminated"]
         ELSE [code   |-> "success",
               domain |-> IF at("domain") = {} THEN Unset ELSE latest("domain"),
               reload |-> IF at("reload-time") = {} THEN 0 ELSE 1000 * latest("reload-time")]

(* Every command line is taken for what it means: a value that looks like an *)
(* option is no option, the last of several wins, and the first wrong one    *)
(* decides the code.  (Only a reload time that is no long is not refused but *)
(* ends the process with an exception.)                                      *)
ArgumentsAreTakenAsMeant ==
  [][Parse =>
       LET meant == Meant(argv, file # NoFile) IN
       /\ outcome'.code = meant.code
       /\ meant.code = "success" =>
            outcome'.args.domain = meant.domain /\ outcome'.args.reload = meant.reload]_processVars

(* However the allowlists of the files are written, replaced and reloaded,   *)
(* the pipe carries the spy's own topics, without which it sees nothing; the *)
(* one thing that takes such a topic from it is a blocklist that matches it, *)
(* in the document in force.  The topics of ROS 2 services, whose clients    *)
(* would take the spy for a server, it never carries, whatever is allowed.   *)
AllowlistsDoNotBlind ==
  pipe = "enabled" =>
    /\ \A topic \in InternalTopics :
         Carries(lists, topic)
           \/ \E yml \in had : lists = PipeLists(Load(yml)) /\ topic \in yml.block
    /\ \A topic \in RpcTopics : ~Carries(lists, topic)

(* The pipe has the two lists of one document, a whole and faultless one:    *)
(* two reloads at a time do not mix theirs, and a failed one leaves none.    *)
ListsOfOneDocument ==
  pipe # "none" =>
    \E yml \in had : yml.fault = "none" /\ lists = PipeLists(Load(yml))

(* No reload is in progress on a pipe that is not there: not before it is    *)
(* built and not when the spy is destroyed.                                  *)
NoReloadWithoutPipe ==
  (\E t \in Threads : reload[t] # Sleeping) => pipe = "enabled"

(* The participant is in the domain of the command line, else in that of the *)
(* file main read, else in 0, and no edit or reload changes that; a domain   *)
(* out of the range is never joined.                                         *)
DomainAsAsked ==
  pipe # "none" =>
    /\ domain = IF outcome.args.domain # Unset THEN outcome.args.domain ELSE Tagged(loaded.domain, 0)
    /\ domain <= MaxDomainId

(* The code tells what happened: with success the spy was there and was      *)
(* destroyed, or help was asked for; with any other nothing was built.       *)
CodeTellsWhatHappened ==
  pc = "ended" =>
    IF code = "success" THEN pipe = "destroyed" \/ outcome.code \in {"help", "version"}
                        ELSE pipe = "none"

(* Main never hangs, neither in starting nor, while reloads go on, in        *)
(* stopping: it gets to the user's command or to its end.                    *)
MainGetsThrough == []<>(pc \in {"running", "ended"})

(* What the file says is what the pipe does, when both threads are done with *)
(* it.                                                                       *)
InForce ==
  /\ Document # NoFile
  /\ lists = PipeLists(Load(Document))
  /\ Document.qos # NoTag => defaultQos = Document.qos

Readable == At("running") /\ source /\ file # NoFile /\ file.fault = "none"

(* The last write of the file comes into force, though two threads that may  *)
(* have read an older one race to apply it; all that is missed is a write    *)
(* between main's reading and the start of the watcher, without a timer.     *)
EditsComeIntoForce == <>[](Readable /\ (timer \/ ~missed)) => <>[]InForce

(* The process ends with one of its codes, that of an incorrect argument "if *)
(* arguments were incorrect" (arguments_configuration.hpp:125).              *)
AlwaysReturnsACode ==
  pc = "ended" => code \in {"success", "incorrect_argument", "execution_failed"}
=============================================================================
