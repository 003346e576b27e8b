------------------------------ MODULE MCSpyModel ------------------------------
(* The spy's participant with a reader of its own, and a remote participant  *)
(* with two writers of one topic.                                            *)
EXTENDS SpyModel, TLC

CONSTANTS spy, p, own, v, w, t

MCOwner == own :> spy @@ v :> p @@ w :> p
MCTopicOf == v :> t @@ w :> t
=============================================================================
