------------------------------ MODULE Arguments ------------------------------
(***************************************************************************)
(* The command line of the spy: how the option parser splits the words     *)
(* into options and a one-shot command, which arguments it accepts, and    *)
(* what parse_arguments (user_interface/arguments_configuration.cpp) makes *)
(* of them.                                                                *)
(*                                                                         *)
(* A word is a record of what the program asks of it: the option it is     *)
(* read as where an option is expected, the number and the file it is read *)
(* as where a value is.  Short names and values attached with = are other  *)
(* spellings of the same options.  What goes to the log is left out.       *)
(***************************************************************************)
EXTENDS Integers, SequencesExt

CONSTANTS
  MaxDomainId,   \* DomainId::MAX_DOMAIN_ID
  LongMax,       \* the largest long
  NoFlag,        \* the flag of a word that does not begin with a dash
  NoNumber,      \* the number of a word that is none
  Unset          \* an argument that was not given

Valued == {"config-path", "reload-time", "domain", "log-filter", "log-verbosity"}
Plain == {"help", "version", "debug"}

(* "unknown" is an option no descriptor names, "end" the two dashes. *)
Flags == Valued \cup Plain \cup {"unknown", "end", NoFlag}

ASSUME ArgumentConstants ==
  /\ MaxDomainId \in Nat
  /\ LongMax \in Nat
  /\ NoFlag \notin Valued \cup Plain \cup {"unknown", "end"}
  /\ NoNumber \notin Int

Word == [flag : Flags, number : Int \cup {NoNumber}, file : BOOLEAN, level : BOOLEAN]

(* Arg::Readable_File, Numeric, String and Log_Kind_Correct_Argument.        *)
(* strtol saturates, so a number of any size is numeric.                     *)
Accepts(flag, word, exists) ==
  \/ flag = "config-path" /\ word.file /\ exists
  \/ flag \in {"reload-time", "domain"} /\ word.number # NoNumber
  \/ flag = "log-filter"
  \/ flag = "log-verbosity" /\ word.level

NoOptions == [legal |-> TRUE, options |-> <<>>]
Illegal == [legal |-> FALSE, options |-> <<>>]

Before(option, parsed) ==
  IF parsed.legal THEN [parsed EXCEPT !.options = <<option>> \o @] ELSE parsed

(* Parser::workhorse in POSIX mode: the first word that is no option, or two *)
(* dashes, ends the options (the rest is the one-shot command).  An option   *)
(* with a value takes the next word whatever it looks like.                  *)
Parsed(argv, exists) ==
  LET flag(i) == argv[i].flag
      valueAt(i) == i <= Len(argv) /\ Accepts(flag(i - 1), argv[i], exists)
      from[i \in 1..Len(argv) + 1] ==
        IF i > Len(argv) THEN NoOptions
        ELSE CASE flag(i) \in {NoFlag, "end"} -> NoOptions
               [] flag(i) \in Valued ->
                    IF valueAt(i + 1)
                      THEN Before([flag |-> flag(i), value |-> argv[i + 1].number], from[i + 2])
                      ELSE Illegal
               [] OTHER -> Before([flag |-> flag(i), value |-> NoNumber], from[i + 1])
  IN from[1]

-----------------------------------------------------------------------------
(* CommandlineArgsSpy as far as it decides what runs: the reload time in     *)
(* milliseconds and the domain.  (There is one configuration file: the one   *)
(* given is the default one.)                                                *)
Defaults == [reload |-> 0, domain |-> Unset]

Outcome(code) == [code |-> code, args |-> Defaults]

Given(options, flag) == \E i \in DOMAIN options : options[i].flag = flag

(* Mutant: the largest domain is refused. *)
SetDomainBelow(outcome, number) ==
  IF number \in 0..MaxDomainId - 1 THEN [outcome EXCEPT !.args.domain = number]
                                   ELSE [outcome EXCEPT !.code = "incorrect_argument"]

(* Mutant: the range is not looked at. *)
SetAnyDomain(outcome, number) == [outcome EXCEPT !.args.domain = number]

(* case DOMAIN: a number stol refuses is out of the range too. *)
SetDomain(outcome, number) ==
  IF number \in 0..MaxDomainId THEN [outcome EXCEPT !.args.domain = number]
                               ELSE [outcome EXCEPT !.code = "incorrect_argument"]

(* case RELOAD_TIME: stol throws, here with nobody to catch it, when the     *)
(* number is none of a long.  (A product, or milliseconds, out of the range  *)
(* of their type are left out.)                                              *)
SetReload(outcome, number) ==
  IF number \in -LongMax - 1..LongMax THEN [outcome EXCEPT !.args.reload = number * 1000]
                                      ELSE [outcome EXCEPT !.code = "terminated"]

(* One turn of the loop over the options; a return ends it. *)
TakeOption(outcome, option) ==
  IF outcome.code # "success" THEN outcome
  ELSE CASE option.flag = "reload-time" -> SetReload(outcome, option.value)
         [] option.flag = "domain" -> SetDomain(outcome, option.value)
         [] option.flag = "unknown" -> [outcome EXCEPT !.code = "incorrect_argument"]
         [] OTHER -> outcome

(* parse_arguments *)
ParseArguments(argv, exists) ==
  LET parsed == Parsed(argv, exists) IN
  CASE ~parsed.legal -> Outcome("incorrect_argument")
    [] parsed.legal /\ Given(parsed.options, "help") -> Outcome("help")
    [] parsed.legal /\ ~Given(parsed.options, "help") /\ Given(parsed.options, "version") ->
         Outcome("version")
    [] OTHER -> FoldLeft(TakeOption, Outcome("success"), parsed.options)
=============================================================================
