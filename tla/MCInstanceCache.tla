--------------------------- MODULE MCInstanceCache ---------------------------
(* Two topics; the first is published with two keyed types and an unkeyed    *)
(* one, so three tracks call the cache under that name; the second has one   *)
(* keyed type and one track.  The console asks for the keys of both.         *)
EXTENDS TopicKeys, TLC

CONSTANTS t1, t2, k1, k2, u, a, b, c, d

MCTopicOf == [tr \in {a, b, c} |-> t1] @@ d :> t2
MCTypeOf == a :> k1 @@ b :> k2 @@ c :> u @@ d :> k1

Symmetry == Permutations(Handles) \cup Permutations(Writers)
=============================================================================
