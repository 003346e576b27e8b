--------------------------- MODULE InstanceTracker ---------------------------
(***************************************************************************)
(* What the instance cache promises to "topics <name> keys", with no lock, *)
(* no thread and no map: for every topic, which writers publish which      *)
(* instance.  A publication is one atomic step, a departure empties the    *)
(* departed writer out of its topic, and a topic tracks at most            *)
(* Capacity[t] instances.  InstanceCache is shown to implement this module.*)
(***************************************************************************)
EXTENDS Naturals, FiniteSets

CONSTANTS
  Topics,       \* topic names
  Handles,      \* instance handles (the key hashes of the samples)
  Writers,      \* GUIDs of the remote data writers
  Capacity      \* [Topics -> Nat], the instances one topic may hold

VARIABLE publishers   \* [Topics -> [Handles -> SUBSET Writers]]

Tracked(t) == {h \in Handles : publishers[t][h] # {}}

Init == publishers = [t \in Topics |-> [h \in Handles |-> {}]]

(***************************************************************************)
(* A sample of instance h by writer w is taken into account.  A new        *)
(* instance needs room; a sample of a tracked one never does.              *)
(***************************************************************************)
Publish(t, h, w) ==
  /\ h \in Tracked(t) \/ Cardinality(Tracked(t)) < Capacity[t]
  /\ publishers' = [publishers EXCEPT ![t][h] = @ \cup {w}]

(***************************************************************************)
(* Writer w leaves topic t: no instance of t is attributed to it, and an   *)
(* instance it alone published is tracked no more.                         *)
(***************************************************************************)
Depart(t, w) ==
  publishers' = [publishers EXCEPT ![t] = [h \in Handles |-> @[h] \ {w}]]

Next ==
  \E t \in Topics, w \in Writers :
    \/ Depart(t, w)
    \/ \E h \in Handles : Publish(t, h, w)

Spec == Init /\ [][Next]_publishers

=============================================================================
