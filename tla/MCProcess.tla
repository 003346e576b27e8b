------------------------------ MODULE MCProcess ------------------------------
(* Every command line of up to three of these words, and a configuration     *)
(* file with a user's allowlist, with blocklists of its own, one of which    *)
(* matches every topic, with a fault after the QoS, or with a domain out of  *)
(* the range.                                                                *)
EXTENDS Process

CONSTANTS square, rpc, internal, reliable, MaxWords

Flagged(flag) == [flag |-> flag, number |-> NoNumber, file |-> FALSE, level |-> FALSE]
Number(n) == [Flagged(NoFlag) EXCEPT !.number = n]

MCWords ==
  {Flagged(flag) : flag \in {"help", "version", "end", "domain", "reload-time", "config-path", "log-filter"}}
    \cup {Number(n) : n \in {1, MaxDomainId, MaxDomainId + 1, LongMax + 1}}
    \cup {[Flagged("unknown") EXCEPT !.number = -1], [Flagged(NoFlag) EXCEPT !.file = TRUE]}

MCCommandLines == UNION {[1..n -> MCWords] : n \in 0..MaxWords}

Allowing == [EmptyYaml EXCEPT !.allow = {square}]
Everything == {square, rpc, internal}
Blinding == [EmptyYaml EXCEPT !.allow = Everything, !.block = Everything]
Blocking == [EmptyYaml EXCEPT !.block = {square}, !.qos = reliable]
Faulty == [EmptyYaml EXCEPT !.fault = "dds", !.allow = {rpc, square}, !.qos = reliable]
Far == [EmptyYaml EXCEPT !.domain = MaxDomainId + 1]
Idle == [EmptyYaml EXCEPT !.threads = 0]
Garbled == [EmptyYaml EXCEPT !.fault = "syntax", !.block = {rpc}]

MCFiles == {Allowing, Blinding, Blocking, Faulty, Far, Idle, Garbled}
=============================================================================
