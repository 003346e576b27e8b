--------------------------- MODULE MCDataStreamer ---------------------------
(* A keyed topic and an unkeyed one, one track each; and the rate of a topic *)
(* over every history of at most MaxSamples source timestamps.               *)
EXTENDS DataStreamer, TLC

CONSTANTS t1, t2, k1, u, a, b, MaxSamples

MCTopicOf == a :> t1 @@ b :> t2
MCTypeOf == a :> k1 @@ b :> u

MCHistories == UNION {[1..n -> 0..2] : n \in 1..MaxSamples}
=============================================================================
