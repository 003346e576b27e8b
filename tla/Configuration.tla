---------------------------- MODULE Configuration ----------------------------
(***************************************************************************)
(* What a configuration file means (YamlReaderConfiguration.cpp), as far   *)
(* as it decides what the spy runs: the number of threads, the default QoS *)
(* of topics, which topics the DDS Pipe carries, and the domain.           *)
(*                                                                         *)
(* The allowlist or the blocklist of a file is the set of the topics its   *)
(* filters match.  Name and type of a filter accept wildcards, which match *)
(* the topics internal to the spy like any other.  Other tags are read and *)
(* stored in the same way and left out.                                    *)
(***************************************************************************)
EXTENDS Arguments

CONSTANTS
  UserTopics,       \* topics of the network
  RpcTopics,        \* those of ROS 2 services: rq/*, rr/*
  InternalTopics,   \* the three topics internal to the spy
  Profiles,         \* values of the topic QoS
  NoTag,            \* a tag that is absent
  DefaultThreads    \* n_threads

ASSUME ConfigurationConstants ==
  /\ UserTopics \cap InternalTopics = {}
  /\ RpcTopics \cap (UserTopics \cup InternalTopics) = {}
  /\ DefaultThreads \in Nat \ {0}
  /\ NoTag \notin Nat \cup Profiles

AnyTopic == UserTopics \cup RpcTopics \cup InternalTopics

(* A document; fault is the part of it the reader throws an exception at.    *)
Yaml == [fault   : {"none", "syntax", "specs", "dds"},
         threads : Nat \cup {NoTag},
         qos     : Profiles \cup {NoTag},
         allow   : SUBSET AnyTopic,
         block   : SUBSET AnyTopic,
         domain  : Nat \cup {NoTag}]

(* No file: an empty document. *)
EmptyYaml == [fault |-> "none", threads |-> NoTag, qos |-> NoTag,
              allow |-> {}, block |-> {}, domain |-> NoTag]

Tagged(tag, default) == IF tag = NoTag THEN default ELSE tag

(* Configuration::Configuration() *)
DefaultConfiguration ==
  [threads |-> DefaultThreads, allow |-> {}, block |-> {}, domain |-> 0]

(* load_specs_configuration_, but for the default QoS, which is global. *)
LoadSpecs(configuration, yml) ==
  [configuration EXCEPT !.threads = Tagged(yml.threads, @)]

(* TopicQoS::default_topic_qos.set_value, in the middle of it: set when the  *)
(* tag is there, and never unset.                                            *)
LoadQos(current, yml) == Tagged(yml.qos, current)

(* load_dds_configuration_: the lists of the file replace the others. *)
LoadDds(configuration, yml) ==
  [configuration EXCEPT !.allow = IF yml.allow = {} THEN @ ELSE yml.allow,
                        !.block = IF yml.block = {} THEN @ ELSE yml.block,
                        !.domain = Tagged(yml.domain, @)]

BlockRpcTopics(configuration) ==
  [configuration EXCEPT !.block = @ \cup RpcTopics]

(* load_configuration_ of a document without fault and without arguments. *)
Load(yml) == BlockRpcTopics(LoadDds(LoadSpecs(DefaultConfiguration, yml), yml))

(* Mutant: the arguments are dropped. *)
KeepFileDomain(configuration, args) == configuration

(* The end of load_configuration_: the domain given as an argument. *)
OverrideDomain(configuration, args) ==
  [configuration EXCEPT !.domain = IF args.domain = Unset THEN @ ELSE args.domain]

(* Configuration::is_valid *)
IsValid(configuration) ==
  /\ configuration.domain <= MaxDomainId
  /\ configuration.threads >= 1

(* Backend::load_internal_topics_, and the lists the DDS Pipe is given: an   *)
(* allowlist gets the internal topics, a blocklist is left as it is.         *)
PipeLists(configuration) ==
  [allow |-> IF configuration.allow = {} THEN {} ELSE configuration.allow \cup InternalTopics,
   block |-> configuration.block]

(* The DDS Pipe: an empty allowlist allows every topic, the blocklist        *)
(* takes precedence.                                                         *)
Carries(lists, topic) ==
  /\ lists.allow = {} \/ topic \in lists.allow
  /\ topic \notin lists.block
=============================================================================
