------------------------------ MODULE MCFilters ------------------------------
(* A remote participant with a writer, whose partitions the one pattern      *)
(* matches or not.                                                           *)
EXTENDS Filters, TLC

CONSTANTS spy, p, w, topic, f, in, out

MCOwner == w :> p
MCTopicOf == w :> topic
MCMatching == {<<f, in>>}
=============================================================================
