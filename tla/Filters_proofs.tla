---------------------------- MODULE Filters_proofs ----------------------------
(***************************************************************************)
(* What holds of the filter command for every set of endpoints, topics and *)
(* patterns and any number of commands: between two of them the readers    *)
(* agree with the participant and the console, the dictionary is in force  *)
(* and the partition filter has decided who is active; and the console     *)
(* changes nothing but the active flag of an entry.                        *)
(***************************************************************************)
EXTENDS Filters, Discovery_proofs

(* What is left of a command. *)
Pending(what) == \E i \in DOMAIN todo : todo[i].do = what
PendingOn(what, t) == \E i \in DOMAIN todo : todo[i].do = what /\ todo[i].topic = t
ToWalk(t) == \E i \in DOMAIN todo : todo[i].do = "each topic" /\ t \in todo[i].left
ToFetch(e) == \E i \in DOMAIN todo : todo[i].do = "each endpoint" /\ e \in DOMAIN todo[i].decided
ToStore(e) == \E i \in DOMAIN todo : todo[i].do = "store" /\ todo[i].guid = e

(* The order of the steps of a command: whoever tells the participant tells  *)
(* the readers next, nobody tells the readers first, and an endpoint is      *)
(* stored before the next one is fetched.                                    *)
Ordered(steps) ==
  \A i \in DOMAIN steps :
    /\ steps[i].do = "participant partitions" =>
         i + 1 \in DOMAIN steps /\ steps[i + 1].do = "readers partitions"
    /\ steps[i].do = "participant content" =>
         i + 1 \in DOMAIN steps /\ steps[i + 1] = DoOn("readers content", steps[i].topic)
    /\ steps[i].do = "readers content" /\ i # 1 =>
         steps[i - 1] = DoOn("participant content", steps[i].topic)
    /\ steps[i].do = "store" => i = 1
    /\ steps[i].do = "each endpoint" => i = 1 \/ (i = 2 /\ steps[1].do = "store")

(* The participant and then the readers have the partition filter, as far as *)
(* they have been told.                                                      *)
PartitionsTold ==
  /\ Pending("participant partitions") \/ participant.partitions = partitionFilter
  /\ Pending("readers partitions") \/
       \A t \in DOMAIN readers : readers[t].partitions = partitionFilter

(* The participant and then the readers of a topic have its content filter.  *)
ContentTold ==
  /\ \A t \in DOMAIN readers :
       PendingOn("readers content", t) \/ readers[t].content = participant.content[t]
  /\ todo # <<>> /\ todo[1].do = "readers content" =>
       participant.content[todo[1].topic] = ExpressionOf(todo[1].topic)

(* A topic whose filter has changed is still to be told of, or nobody will. *)
DictionaryTold ==
  \A t \in Topics \ unheard :
    \/ Pending("topics")
    \/ ToWalk(t)
    \/ PendingOn("participant content", t)
    \/ participant.content[t] = ExpressionOf(t)

(* What has been decided of an endpoint and not stored is right, unless      *)
(* discovery has stored the endpoint since.                                  *)
DecisionRight(step) ==
  /\ step.do = "each endpoint" =>
       /\ DOMAIN step.decided \subseteq KnownEndpoints
       /\ \A e \in DOMAIN step.decided \ touched : step.decided[e] = Passes(database[e].qos)
  /\ step.do = "store" =>
       /\ step.guid \in KnownEndpoints
       /\ step.guid \notin touched =>
            step.qos = database[step.guid].qos /\ step.active = Passes(database[step.guid].qos)

DecisionsRight == \A i \in DOMAIN todo : DecisionRight(todo[i])

(* An endpoint discovery has left alone is active as decided, or still to be *)
(* decided or stored.                                                        *)
EndpointsDecided ==
  \A e \in KnownEndpoints \ touched :
    \/ Pending("scan")
    \/ ToFetch(e)
    \/ ToStore(e)
    \/ database[e].active = Passes(database[e].qos)

(* The inductive invariant. *)
FilterInv ==
  /\ FilterTypeOK
  /\ Ordered(todo)
  /\ PartitionsTold
  /\ ContentTold
  /\ DictionaryTold
  /\ DecisionsRight
  /\ EndpointsDecided

-----------------------------------------------------------------------------
(* Steps and sequences of steps. *)

LEMMA StepShape ==
  ASSUME NEW x \in Steps
  PROVE  /\ x.do \in {"participant content", "readers content"} =>
              x.topic \in Topics /\ x = DoOn(x.do, x.topic)
         /\ x.do = "each topic" => x.left \subseteq Topics
         /\ x.do = "each endpoint" => DOMAIN x.decided \subseteq Endpoints
         /\ x.do = "each endpoint" => \A e \in DOMAIN x.decided : x.decided[e] \in BOOLEAN
         /\ x.do = "store" => x.guid \in Endpoints /\ x.active \in BOOLEAN /\ x.qos \in QoS
<1>1. CASE x \in [do : {"participant partitions", "readers partitions", "scan", "topics"}]
  BY <1>1
<1>2. CASE x \in [do : {"participant content", "readers content"}, topic : Topics]
  BY <1>2 DEF DoOn
<1>3. CASE x \in [do : {"each topic"}, left : SUBSET Topics]
  BY <1>3
<1>4. CASE x \in [do : {"each endpoint"}, decided : UNION {[E -> BOOLEAN] : E \in SUBSET Endpoints}]
  <2>1. x.do = "each endpoint" /\ x.decided \in UNION {[E -> BOOLEAN] : E \in SUBSET Endpoints}
    BY <1>4
  <2>2. PICK E \in SUBSET Endpoints : x.decided \in [E -> BOOLEAN]
    BY <2>1, Zenon
  <2> QED BY <2>1, <2>2
<1>5. CASE x \in [do : {"store"}, guid : Endpoints, active : BOOLEAN, qos : QoS]
  BY <1>5
<1> QED BY <1>1, <1>2, <1>3, <1>4, <1>5 DEF Steps

LEMMA StepsMade ==
  /\ \A what : Do(what).do = what
  /\ \A what, t : DoOn(what, t).do = what /\ DoOn(what, t).topic = t
  /\ \A what \in {"participant partitions", "readers partitions", "scan", "topics"} : Do(what) \in Steps
  /\ \A what \in {"participant content", "readers content"}, t \in Topics : DoOn(what, t) \in Steps
<1>1. \A what : Do(what).do = what
  BY DEF Do
<1>2. \A what, t : DoOn(what, t).do = what /\ DoOn(what, t).topic = t
  BY DEF DoOn
<1>3. \A what \in {"participant partitions", "readers partitions", "scan", "topics"} : Do(what) \in Steps
  BY DEF Steps, Do
<1>4. \A what \in {"participant content", "readers content"}, t \in Topics : DoOn(what, t) \in Steps
  BY DEF Steps, DoOn
<1> QED BY <1>1, <1>2, <1>3, <1>4

(* What a list of steps put in place of the first one makes of the rest. *)
LEMMA ThenIs ==
  ASSUME NEW old \in Seq(Steps), old # <<>>, NEW steps \in Seq(Steps)
  PROVE  /\ steps \o Tail(old) \in Seq(Steps)
         /\ \A i \in DOMAIN steps :
              i \in DOMAIN (steps \o Tail(old)) /\ (steps \o Tail(old))[i] = steps[i]
         /\ \A i \in DOMAIN old : i # 1 =>
              /\ i - 1 + Len(steps) \in DOMAIN (steps \o Tail(old))
              /\ (steps \o Tail(old))[i - 1 + Len(steps)] = old[i]
         /\ \A i \in DOMAIN (steps \o Tail(old)) :
              \/ i \in DOMAIN steps
              \/ /\ i \notin DOMAIN steps /\ i > Len(steps)
                 /\ i + 1 - Len(steps) \in DOMAIN old \ {1}
                 /\ (steps \o Tail(old))[i] = old[i + 1 - Len(steps)]
<1> DEFINE rest == Tail(old)
           new == steps \o rest
<1>1. /\ rest \in Seq(Steps) /\ Len(rest) = Len(old) - 1 /\ Len(old) \in Nat \ {0}
      /\ \A i \in 1..Len(rest) : rest[i] = old[i + 1]
      /\ DOMAIN old = 1..Len(old)
  BY HeadTailProperties, LenProperties, EmptySeq
<1>2. DOMAIN steps = 1..Len(steps) /\ Len(steps) \in Nat
  BY LenProperties
<1> HIDE DEF rest
<1>3. /\ new \in Seq(Steps) /\ Len(new) = Len(steps) + Len(rest)
      /\ \A i \in 1..Len(steps) + Len(rest) :
           new[i] = IF i <= Len(steps) THEN steps[i] ELSE rest[i - Len(steps)]
  BY <1>1, ConcatProperties
<1> HIDE DEF new
<1>4. DOMAIN new = 1..Len(new)
  BY <1>3, LenProperties
<1>5. \A i \in DOMAIN steps : i \in DOMAIN new /\ new[i] = steps[i]
  BY <1>1, <1>2, <1>3, <1>4
<1>6. ASSUME NEW i \in DOMAIN old, i # 1
      PROVE  i - 1 + Len(steps) \in DOMAIN new /\ new[i - 1 + Len(steps)] = old[i]
  <2> DEFINE j == i - 1 + Len(steps)
  <2>1. /\ j \in 1..Len(steps) + Len(rest) /\ ~(j <= Len(steps))
        /\ j - Len(steps) \in 1..Len(rest) /\ (j - Len(steps)) + 1 = i
    BY <1>1, <1>2, <1>6
  <2> HIDE DEF j
  <2>2. new[j] = rest[j - Len(steps)]
    BY <1>3, <2>1
  <2>3. new[j] = old[i]
    BY <1>1, <2>1, <2>2
  <2> QED BY <1>3, <1>4, <2>1, <2>3 DEF j
<1>7. ASSUME NEW i \in DOMAIN new, i \notin DOMAIN steps
      PROVE  /\ i > Len(steps) /\ i + 1 - Len(steps) \in DOMAIN old \ {1}
             /\ new[i] = old[i + 1 - Len(steps)]
  <2>1. /\ i \in 1..Len(steps) + Len(rest) /\ ~(i <= Len(steps))
        /\ i - Len(steps) \in 1..Len(rest) /\ (i - Len(steps)) + 1 = i + 1 - Len(steps)
    BY <1>1, <1>2, <1>3, <1>4, <1>7
  <2>2. new[i] = rest[i - Len(steps)]
    BY <1>3, <2>1
  <2>3. new[i] = old[i + 1 - Len(steps)]
    BY <1>1, <2>1, <2>2
  <2> QED BY <1>1, <1>2, <2>1, <2>3
<1>8. \A i \in DOMAIN new : i \in DOMAIN steps \/
        (/\ i \notin DOMAIN steps /\ i > Len(steps)
         /\ i + 1 - Len(steps) \in DOMAIN old \ {1}
         /\ new[i] = old[i + 1 - Len(steps)])
  BY <1>7
<1> QED BY <1>3, <1>5, <1>6, <1>8 DEF new, rest

(* A step other steps may follow than the one that was next. *)
Interruptible(step) == step.do # "participant content" /\ step.do # "store"

(* The order survives the steps that take the place of the first one. *)
LEMMA OrderedThen ==
  ASSUME NEW old \in Seq(Steps), old # <<>>, Ordered(old),
         NEW steps \in Seq(Steps), Ordered(steps),
         steps = <<>> \/ Interruptible(old[1])
  PROVE  Ordered(steps \o Tail(old))
<1> DEFINE new == steps \o Tail(old)
           length == Len(steps)
<1>1. /\ DOMAIN steps = 1..length /\ length \in Nat
      /\ steps = <<>> => length = 0
  BY LenProperties
<1>2. DOMAIN old = 1..Len(old) /\ Len(old) \in Nat /\ 1 \in DOMAIN old
  BY Popped
<1>0. new \in Seq(Steps)
  BY ThenIs
<1>3. \A i \in DOMAIN steps : i \in DOMAIN new /\ new[i] = steps[i]
  BY ThenIs
<1>4. \A i \in DOMAIN old : i # 1 => i - 1 + length \in DOMAIN new /\ new[i - 1 + length] = old[i]
  BY ThenIs
<1>5. \A i \in DOMAIN new :
        \/ i \in DOMAIN steps
        \/ /\ i \notin DOMAIN steps /\ i > length
           /\ i + 1 - length \in DOMAIN old \ {1} /\ new[i] = old[i + 1 - length]
  BY ThenIs
<1> HIDE DEF new, length
<1> SUFFICES ASSUME NEW i \in DOMAIN new
             PROVE  /\ new[i].do = "participant partitions" =>
                         i + 1 \in DOMAIN new /\ new[i + 1].do = "readers partitions"
                    /\ new[i].do = "participant content" =>
                         i + 1 \in DOMAIN new /\ new[i + 1] = DoOn("readers content", new[i].topic)
                    /\ new[i].do = "readers content" /\ i # 1 =>
                         new[i - 1] = DoOn("participant content", new[i].topic)
                    /\ new[i].do = "store" => i = 1
                    /\ new[i].do = "each endpoint" => i = 1 \/ (i = 2 /\ new[1].do = "store")
  BY DEF Ordered, new
<1>6. CASE i \in DOMAIN steps
  <2>1. i \in 1..length /\ new[i] = steps[i] /\ new[1] = steps[1] /\ (i # 1 => i - 1 \in DOMAIN steps)
    BY <1>1, <1>3, <1>6
  <2>2. i # 1 => new[i - 1] = steps[i - 1]
    BY <1>3, <2>1
  <2>3. i + 1 \in DOMAIN steps => i + 1 \in DOMAIN new /\ new[i + 1] = steps[i + 1]
    BY <1>3
  <2>4. /\ steps[i].do = "participant partitions" =>
             i + 1 \in DOMAIN steps /\ steps[i + 1].do = "readers partitions"
        /\ steps[i].do = "participant content" =>
             i + 1 \in DOMAIN steps /\ steps[i + 1] = DoOn("readers content", steps[i].topic)
        /\ steps[i].do = "readers content" /\ i # 1 =>
             steps[i - 1] = DoOn("participant content", steps[i].topic)
        /\ steps[i].do = "store" => i = 1
        /\ steps[i].do = "each endpoint" => i = 1 \/ (i = 2 /\ steps[1].do = "store")
    BY <1>6 DEF Ordered
  <2> QED BY <2>1, <2>2, <2>3, <2>4
<1>7. CASE i \notin DOMAIN steps
  <2> DEFINE k == i + 1 - length
  <2>1. k \in DOMAIN old /\ k # 1 /\ new[i] = old[k] /\ i = k - 1 + length /\ i > length
    <3>1. i \in Nat
      BY <1>0, LenProperties
    <3>2. k \in DOMAIN old \ {1} /\ new[i] = old[k] /\ i > length
      BY <1>5, <1>7
    <3> QED BY <1>1, <1>2, <3>1, <3>2
  <2>2. k + 1 \in DOMAIN old => i + 1 \in DOMAIN new /\ new[i + 1] = old[k + 1]
    <3>1. k + 1 # 1 /\ (k + 1) - 1 + length = i + 1
      BY <1>1, <1>2, <2>1
    <3> QED BY <1>4, <3>1
  <2>3. k - 1 \in DOMAIN old /\ (k - 1 # 1 => new[i - 1] = old[k - 1])
    <3>1. k - 1 \in DOMAIN old /\ (k - 1) - 1 + length = i - 1
      BY <1>1, <1>2, <2>1
    <3> QED BY <1>4, <3>1
  <2>4. k - 1 = 1 /\ i # 1 => Interruptible(old[1])
    BY <1>1, <2>1
  <2>5. k = 2 /\ old[1].do = "store" => i = 1
    BY <1>1, <2>1 DEF Interruptible
  <2> HIDE DEF k
  <2>6. /\ old[k].do = "participant partitions" =>
             k + 1 \in DOMAIN old /\ old[k + 1].do = "readers partitions"
        /\ old[k].do = "participant content" =>
             k + 1 \in DOMAIN old /\ old[k + 1] = DoOn("readers content", old[k].topic)
        /\ old[k].do = "readers content" => old[k - 1] = DoOn("participant content", old[k].topic)
        /\ old[k].do # "store"
        /\ old[k].do = "each endpoint" => k = 2 /\ old[1].do = "store"
    BY <2>1 DEF Ordered
  <2>7. new[i].do = "readers content" /\ i # 1 =>
          new[i - 1] = DoOn("participant content", new[i].topic)
    <3> SUFFICES ASSUME new[i].do = "readers content", i # 1
                 PROVE  new[i - 1] = DoOn("participant content", new[i].topic)
      OBVIOUS
    <3>1. old[k - 1] = DoOn("participant content", old[k].topic)
      BY <2>1, <2>6
    <3>2. old[k - 1].do = "participant content"
      BY <3>1, StepsMade
    <3>3. k - 1 # 1
      BY <2>4, <3>2 DEF Interruptible
    <3> QED BY <3>1, <3>3, <2>1, <2>3
  <2> QED BY <2>1, <2>2, <2>5, <2>6, <2>7
<1> QED BY <1>6, <1>7

(* What a step of a command leaves to do. *)
LEMMA ThenKeeps ==
  ASSUME todo \in Seq(Steps), todo # <<>>, NEW steps \in Seq(Steps), Then(steps)
  PROVE  /\ todo' \in Seq(Steps)
         /\ Head(todo) = todo[1] /\ 1 \in DOMAIN todo /\ todo[1] \in Steps
         /\ \A i \in DOMAIN todo : todo[i] \in Steps
         /\ \A i \in DOMAIN todo : i = 1 \/ \E j \in DOMAIN todo' : todo'[j] = todo[i]
         /\ \A i \in DOMAIN steps : \E j \in DOMAIN todo' : todo'[j] = steps[i]
         /\ \A j \in DOMAIN todo' :
              \/ \E i \in DOMAIN steps : todo'[j] = steps[i]
              \/ \E i \in DOMAIN todo : i # 1 /\ todo'[j] = todo[i]
         /\ steps = <<>> /\ todo' # <<>> => 2 \in DOMAIN todo /\ todo'[1] = todo[2]
         /\ steps # <<>> => todo' # <<>> /\ todo'[1] = steps[1]
<1> DEFINE new == steps \o Tail(todo)
<1>1. todo' = new
  BY DEF Then
<1>2. /\ new \in Seq(Steps)
      /\ \A i \in DOMAIN steps : i \in DOMAIN new /\ new[i] = steps[i]
      /\ \A i \in DOMAIN todo : i # 1 =>
           i - 1 + Len(steps) \in DOMAIN new /\ new[i - 1 + Len(steps)] = todo[i]
      /\ \A i \in DOMAIN new :
           \/ i \in DOMAIN steps
           \/ /\ i \notin DOMAIN steps /\ i > Len(steps)
              /\ i + 1 - Len(steps) \in DOMAIN todo \ {1}
              /\ new[i] = todo[i + 1 - Len(steps)]
  BY ThenIs
<1> HIDE DEF new
<1>3. /\ Head(todo) = todo[1] /\ 1 \in DOMAIN todo /\ todo[1] \in Steps
      /\ \A i \in DOMAIN todo : todo[i] \in Steps
  BY Popped, ElementOfSeq, LenProperties
<1>4. \A i \in DOMAIN todo : i = 1 \/ \E j \in DOMAIN todo' : todo'[j] = todo[i]
  BY <1>1, <1>2
<1>5. \A i \in DOMAIN steps : \E j \in DOMAIN todo' : todo'[j] = steps[i]
  BY <1>1, <1>2
<1>6. \A j \in DOMAIN todo' :
        \/ \E i \in DOMAIN steps : todo'[j] = steps[i]
        \/ \E i \in DOMAIN todo : i # 1 /\ todo'[j] = todo[i]
  BY <1>1, <1>2
<1>7. steps = <<>> /\ todo' # <<>> => 2 \in DOMAIN todo /\ todo'[1] = todo[2]
  <2> SUFFICES ASSUME steps = <<>>, todo' # <<>> PROVE 2 \in DOMAIN todo /\ todo'[1] = todo[2]
    OBVIOUS
  <2>1. 1 \in DOMAIN todo' /\ DOMAIN steps = {} /\ Len(steps) = 0
    BY <1>1, <1>2, Popped
  <2> QED BY <1>1, <1>2, <2>1
<1>8. steps # <<>> => todo' # <<>> /\ todo'[1] = steps[1]
  <2> SUFFICES ASSUME steps # <<>> PROVE todo' # <<>> /\ todo'[1] = steps[1]
    OBVIOUS
  <2>1. 1 \in DOMAIN steps
    BY Popped
  <2> QED BY <1>1, <1>2, <2>1
<1> QED BY <1>1, <1>2, <1>3, <1>4, <1>5, <1>6, <1>7, <1>8

-----------------------------------------------------------------------------
(* What a step of a command, or a new command, does to what is pending.      *)

LEMMA PendingStays ==
  ASSUME todo \in Seq(Steps), todo # <<>>, NEW steps \in Seq(Steps), Then(steps)
  PROVE  /\ \A what : Pending(what) => todo[1].do = what \/ Pending(what)'
         /\ \A what, t : PendingOn(what, t) =>
              (todo[1].do = what /\ todo[1].topic = t) \/ PendingOn(what, t)'
         /\ \A t : ToWalk(t) => (todo[1].do = "each topic" /\ t \in todo[1].left) \/ ToWalk(t)'
         /\ \A e : ToFetch(e) =>
              (todo[1].do = "each endpoint" /\ e \in DOMAIN todo[1].decided) \/ ToFetch(e)'
         /\ \A e : ToStore(e) => (todo[1].do = "store" /\ todo[1].guid = e) \/ ToStore(e)'
<1>1. \A i \in DOMAIN todo : i = 1 \/ \E j \in DOMAIN todo' : todo'[j] = todo[i]
  BY ThenKeeps
<1>2. ASSUME NEW what, Pending(what), todo[1].do # what PROVE Pending(what)'
  <2>1. PICK i \in DOMAIN todo : todo[i].do = what
    BY <1>2 DEF Pending
  <2>2. PICK j \in DOMAIN todo' : todo'[j] = todo[i]
    BY <1>1, <1>2, <2>1
  <2> QED BY <2>1, <2>2 DEF Pending
<1>3. ASSUME NEW what, NEW t, PendingOn(what, t), ~(todo[1].do = what /\ todo[1].topic = t)
      PROVE  PendingOn(what, t)'
  <2>1. PICK i \in DOMAIN todo : todo[i].do = what /\ todo[i].topic = t
    BY <1>3 DEF PendingOn
  <2>2. PICK j \in DOMAIN todo' : todo'[j] = todo[i]
    BY <1>1, <1>3, <2>1
  <2> QED BY <2>1, <2>2 DEF PendingOn
<1>4. ASSUME NEW t, ToWalk(t), ~(todo[1].do = "each topic" /\ t \in todo[1].left) PROVE ToWalk(t)'
  <2>1. PICK i \in DOMAIN todo : todo[i].do = "each topic" /\ t \in todo[i].left
    BY <1>4 DEF ToWalk
  <2>2. PICK j \in DOMAIN todo' : todo'[j] = todo[i]
    BY <1>1, <1>4, <2>1
  <2> QED BY <2>1, <2>2 DEF ToWalk
<1>5. ASSUME NEW e, ToFetch(e), ~(todo[1].do = "each endpoint" /\ e \in DOMAIN todo[1].decided)
      PROVE  ToFetch(e)'
  <2>1. PICK i \in DOMAIN todo : todo[i].do = "each endpoint" /\ e \in DOMAIN todo[i].decided
    BY <1>5 DEF ToFetch
  <2>2. PICK j \in DOMAIN todo' : todo'[j] = todo[i]
    BY <1>1, <1>5, <2>1
  <2> QED BY <2>1, <2>2 DEF ToFetch
<1>6. ASSUME NEW e, ToStore(e), ~(todo[1].do = "store" /\ todo[1].guid = e) PROVE ToStore(e)'
  <2>1. PICK i \in DOMAIN todo : todo[i].do = "store" /\ todo[i].guid = e
    BY <1>6 DEF ToStore
  <2>2. PICK j \in DOMAIN todo' : todo'[j] = todo[i]
    BY <1>1, <1>6, <2>1
  <2> QED BY <2>1, <2>2 DEF ToStore
<1> QED BY <1>2, <1>3, <1>4, <1>5, <1>6

LEMMA Second == 2 # 1 /\ 2 - 1 = 1
OBVIOUS

(* Who tells the readers of a topic has just told the participant of it.     *)
LEMMA NextTells ==
  ASSUME todo \in Seq(Steps), todo # <<>>, Ordered(todo), Then(<<>>), todo' # <<>>,
         NEW step, step = todo'[1], step.do = "readers content"
  PROVE  todo[1] = DoOn("participant content", step.topic)
<1>1. <<>> \in Seq(Steps)
  BY EmptySeq
<1>2. 2 \in DOMAIN todo /\ step = todo[2]
  BY <1>1, ThenKeeps
<1>3. \A i \in DOMAIN todo : i # 1 /\ todo[i].do = "readers content" =>
        todo[i - 1] = DoOn("participant content", todo[i].topic)
  BY DEF Ordered
<1>4. \A i \in DOMAIN todo : i # 1 /\ step = todo[i] => todo[i - 1] = DoOn("participant content", step.topic)
  BY <1>3
<1>5. 2 # 1 /\ 2 - 1 = 1
  BY Second, Zenon
<1>6. todo[2 - 1] = DoOn("participant content", step.topic)
  BY <1>2, <1>4, <1>5
<1> QED BY <1>5, <1>6, Zenon

Quiet(steps) == \A i \in DOMAIN steps : steps[i].do # "each endpoint" /\ steps[i].do # "store"

(* Steps that have nothing to do with endpoints leave the decisions alone.   *)
LEMMA DecisionsKept ==
  ASSUME FilterInv, todo # <<>>, NEW steps \in Seq(Steps), Then(steps),
         database' = database, touched' = touched, partitionFilter' = partitionFilter,
         todo[1].do # "scan", todo[1].do # "each endpoint", todo[1].do # "store",
         Quiet(steps)
  PROVE  DecisionsRight' /\ EndpointsDecided'
<1>1. todo \in Seq(Steps)
  BY DEF FilterInv, FilterTypeOK
<1>2. ASSUME NEW x, DecisionRight(x) PROVE DecisionRight(x)'
  BY <1>2 DEF DecisionRight, KnownEndpoints, Passes
<1>3. ASSUME NEW j \in DOMAIN todo', NEW x, x = todo'[j] PROVE DecisionRight(x)'
  <2>1. CASE \E i \in DOMAIN steps : x = steps[i]
    <3>1. x.do # "each endpoint" /\ x.do # "store"
      BY <2>1 DEF Quiet
    <3> QED BY <3>1 DEF DecisionRight
  <2>2. CASE \E i \in DOMAIN todo : x = todo[i]
    BY <1>2, <2>2 DEF FilterInv, DecisionsRight
  <2> QED BY <1>1, <1>3, <2>1, <2>2, ThenKeeps
<1>4. \A e : ToFetch(e) => ToFetch(e)'
  BY <1>1, PendingStays
<1>5. \A e : ToStore(e) => ToStore(e)'
  BY <1>1, PendingStays
<1>6. Pending("scan") => Pending("scan")'
  BY <1>1, PendingStays
<1>7. DecisionsRight'
  BY <1>3 DEF DecisionsRight, DecisionRight
<1>8. EndpointsDecided'
  BY <1>4, <1>5, <1>6 DEF FilterInv, EndpointsDecided, KnownEndpoints, Passes
<1> QED BY <1>7, <1>8

(* The step at the head of a command. *)
LEMMA NextStep ==
  ASSUME FilterInv, NEW what, Next1(what)
  PROVE  /\ todo \in Seq(Steps) /\ todo # <<>> /\ Ordered(todo)
         /\ Head(todo) = todo[1] /\ 1 \in DOMAIN todo /\ todo[1] \in Steps /\ todo[1].do = what
         /\ <<>> \in Seq(Steps) /\ Ordered(<<>>) /\ Quiet(<<>>)
<1>1. todo \in Seq(Steps) /\ todo # <<>> /\ Ordered(todo)
  BY DEF FilterInv, FilterTypeOK, Next1
<1>2. Head(todo) = todo[1] /\ 1 \in DOMAIN todo /\ todo[1] \in Steps
  BY <1>1, Popped
<1>3. <<>> \in Seq(Steps) /\ Ordered(<<>>) /\ Quiet(<<>>)
  BY EmptySeq DEF Ordered, Quiet
<1> QED BY <1>1, <1>2, <1>3 DEF Next1

LEMMA OrderStays ==
  ASSUME FilterInv, NEW what, Next1(what), NEW steps \in Seq(Steps), Ordered(steps), Then(steps),
         steps = <<>> \/ Interruptible(todo[1])
  PROVE  Ordered(todo) /\ Ordered(todo)' /\ todo' \in Seq(Steps)
<1>1. Ordered(steps \o Tail(todo))
  BY NextStep, OrderedThen
<1>2. todo' = steps \o Tail(todo)
  BY DEF Then
<1> QED BY <1>1, <1>2, NextStep, ThenKeeps


(* The part of the invariant that a step which tells somebody of a filter, or *)
(* finds out whom to tell, has to look after.                                *)
LEMMA TellKeeps ==
  ASSUME FilterInv, NEW what, Next1(what),
         what # "scan", what # "each endpoint", what # "store",
         NEW steps \in Seq(Steps), Ordered(steps), Quiet(steps), Then(steps),
         steps = <<>> \/ Interruptible(todo[1]),
         UNCHANGED <<discoveryVars, partitionFilter, topicFilter, touched>>,
         participant' \in [partitions : SUBSET Patterns, content : [Topics -> Contents]],
         DOMAIN readers' \subseteq Topics,
         \A t \in DOMAIN readers' : readers'[t] \in [partitions : SUBSET Patterns, content : Contents],
         unheard' \subseteq Topics,
         PartitionsTold', ContentTold', DictionaryTold'
  PROVE  FilterInv'
<1>1. todo \in Seq(Steps) /\ todo # <<>> /\ todo[1].do = what
  BY NextStep
<1>2. Ordered(todo)' /\ todo' \in Seq(Steps)
  BY OrderStays
<1>3. DiscoveryTypeOK'
  BY DiscoveryTypeStep DEF FilterInv, FilterTypeOK
<1>4. FilterTypeOK'
  BY <1>2, <1>3 DEF FilterInv, FilterTypeOK
<1>5. DecisionsRight' /\ EndpointsDecided'
  <2>1. database' = database
    BY DEF discoveryVars, pathVars
  <2> QED BY <1>1, <2>1, DecisionsKept
<1> QED BY <1>2, <1>4, <1>5 DEF FilterInv

(* Backend::update_readers_track_partitions: the participant first, ...      *)
LEMMA TellParticipantPartitionsKeeps ==
  ASSUME FilterInv, TellParticipantPartitions
  PROVE  FilterInv'
<1>1. Next1("participant partitions") /\ Then(<<>>)
  BY DEF TellParticipantPartitions
<1>2. /\ todo \in Seq(Steps) /\ todo # <<>> /\ todo[1].do = "participant partitions" /\ 1 \in DOMAIN todo
      /\ <<>> \in Seq(Steps) /\ Ordered(<<>>) /\ Quiet(<<>>)
  BY <1>1, NextStep
<1>3. /\ partitionFilter' = partitionFilter /\ topicFilter' = topicFilter /\ readers' = readers
      /\ unheard' = unheard
      /\ participant' = [participant EXCEPT !.partitions = partitionFilter]
      /\ UNCHANGED <<discoveryVars, partitionFilter, topicFilter, touched>>
  BY DEF TellParticipantPartitions
<1>4. /\ participant' \in [partitions : SUBSET Patterns, content : [Topics -> Contents]]
      /\ participant'.partitions = partitionFilter /\ participant'.content = participant.content
  BY <1>3 DEF FilterInv, FilterTypeOK
<1>5. PartitionsTold'
  <2>1. Pending("readers partitions") => Pending("readers partitions")'
    BY <1>1, <1>2, PendingStays
  <2> QED BY <1>3, <1>4, <2>1 DEF FilterInv, PartitionsTold
<1>6. ContentTold'
  <2>1. \A t : PendingOn("readers content", t) => PendingOn("readers content", t)'
    BY <1>1, <1>2, PendingStays
  <2>2. ASSUME todo' # <<>>, NEW step, step = todo'[1], step.do = "readers content" PROVE FALSE
    <3>1. todo[1] = DoOn("participant content", step.topic)
      BY <1>1, <2>2, NextStep, NextTells
    <3>2. todo[1].do = "participant content"
      BY <3>1, StepsMade
    <3> QED BY <1>2, <3>2
  <2> QED BY <1>3, <1>4, <2>1, <2>2 DEF FilterInv, ContentTold
<1>7. DictionaryTold'
  <2>1. /\ Pending("topics") => Pending("topics")'
        /\ \A t : ToWalk(t) => ToWalk(t)'
        /\ \A t : PendingOn("participant content", t) => PendingOn("participant content", t)'
    BY <1>1, <1>2, PendingStays
  <2> QED BY <1>3, <1>4, <2>1 DEF FilterInv, DictionaryTold, ExpressionOf
<1> QED BY <1>1, <1>2, <1>3, <1>4, <1>5, <1>6, <1>7, TellKeeps DEF FilterInv, FilterTypeOK

(* ... then the readers that exist.                                          *)
LEMMA TellReadersPartitionsKeeps ==
  ASSUME FilterInv, TellReadersPartitions
  PROVE  FilterInv'
<1>1. Next1("readers partitions") /\ Then(<<>>)
  BY DEF TellReadersPartitions
<1>2. /\ todo \in Seq(Steps) /\ todo # <<>> /\ todo[1].do = "readers partitions" /\ 1 \in DOMAIN todo
      /\ <<>> \in Seq(Steps) /\ Ordered(<<>>) /\ Quiet(<<>>)
  BY <1>1, NextStep
<1>3. /\ partitionFilter' = partitionFilter /\ topicFilter' = topicFilter
      /\ participant' = participant /\ unheard' = unheard
      /\ readers' = [t \in DOMAIN readers |-> [readers[t] EXCEPT !.partitions = partitionFilter]]
      /\ UNCHANGED <<discoveryVars, partitionFilter, topicFilter, touched>>
  BY DEF TellReadersPartitions
<1>4. /\ DOMAIN readers' = DOMAIN readers
      /\ \A t \in DOMAIN readers :
           /\ readers'[t] \in [partitions : SUBSET Patterns, content : Contents]
           /\ readers'[t].partitions = partitionFilter /\ readers'[t].content = readers[t].content
  BY <1>3 DEF FilterInv, FilterTypeOK
<1>5. PartitionsTold'
  <2>1. Pending("participant partitions") => Pending("participant partitions")'
    BY <1>1, <1>2, PendingStays
  <2> QED BY <1>3, <1>4, <2>1 DEF FilterInv, PartitionsTold
<1>6. ContentTold'
  <2>1. \A t : PendingOn("readers content", t) => PendingOn("readers content", t)'
    BY <1>1, <1>2, PendingStays
  <2>2. ASSUME todo' # <<>>, NEW step, step = todo'[1], step.do = "readers content" PROVE FALSE
    <3>1. todo[1] = DoOn("participant content", step.topic)
      BY <1>1, <2>2, NextStep, NextTells
    <3>2. todo[1].do = "participant content"
      BY <3>1, StepsMade
    <3> QED BY <1>2, <3>2
  <2> QED BY <1>3, <1>4, <2>1, <2>2 DEF FilterInv, ContentTold
<1>7. DictionaryTold'
  <2>1. /\ Pending("topics") => Pending("topics")'
        /\ \A t : ToWalk(t) => ToWalk(t)'
        /\ \A t : PendingOn("participant content", t) => PendingOn("participant content", t)'
    BY <1>1, <1>2, PendingStays
  <2> QED BY <1>3, <2>1 DEF FilterInv, DictionaryTold, ExpressionOf
<1> QED BY <1>1, <1>2, <1>3, <1>4, <1>5, <1>6, <1>7, TellKeeps DEF FilterInv, FilterTypeOK

(* update_readers_track_content_filter: the participant first, ...           *)
LEMMA TellParticipantContentKeeps ==
  ASSUME FilterInv, TellParticipantContent
  PROVE  FilterInv'
<1>1. Next1("participant content") /\ Then(<<>>)
  BY DEF TellParticipantContent
<1>2. /\ todo \in Seq(Steps) /\ todo # <<>> /\ todo[1].do = "participant content" /\ 1 \in DOMAIN todo
      /\ todo[1] \in Steps /\ Head(todo) = todo[1] /\ Ordered(todo)
      /\ <<>> \in Seq(Steps) /\ Ordered(<<>>) /\ Quiet(<<>>)
  BY <1>1, NextStep
<1>T. PICK topic \in Topics : topic = todo[1].topic
  BY <1>2, StepShape
<1>3. /\ partitionFilter' = partitionFilter /\ topicFilter' = topicFilter /\ readers' = readers
      /\ unheard' = unheard
      /\ participant' = [participant EXCEPT !.content[topic] = ExpressionOf(topic)]
      /\ UNCHANGED <<discoveryVars, partitionFilter, topicFilter, touched>>
  BY <1>2, <1>T DEF TellParticipantContent
<1>E. ExpressionOf(topic) \in Contents
  BY DEF ExpressionOf, Contents, FilterInv, FilterTypeOK
<1>Q. PendingOn("readers content", topic)'
  <2>1. 1 + 1 \in DOMAIN todo /\ todo[1 + 1] = DoOn("readers content", topic)
    BY <1>2, <1>T DEF Ordered
  <2>2. 1 + 1 # 1
    OBVIOUS
  <2>3. PICK j \in DOMAIN todo' : todo'[j] = todo[1 + 1]
    BY <1>1, <1>2, <2>1, <2>2, ThenKeeps
  <2>4. todo'[j] = DoOn("readers content", topic)
    BY <2>1, <2>3
  <2>5. todo'[j].do = "readers content"
    BY <2>4, StepsMade
  <2>6. todo'[j].topic = topic
    <3>1. DoOn("readers content", topic).topic = topic
      BY StepsMade, Zenon
    <3> QED BY <2>4, <3>1
  <2> QED BY <2>5, <2>6 DEF PendingOn
<1>O. ASSUME todo' # <<>>, NEW step, step = todo'[1], step.do = "readers content" PROVE step.topic = topic
  <2>1. todo[1] = DoOn("participant content", step.topic)
    BY <1>1, <1>O, NextStep, NextTells
  <2>2. DoOn("participant content", step.topic).topic = step.topic
    BY StepsMade, Zenon
  <2> QED BY <1>T, <2>1, <2>2
<1>8. \A t : PendingOn("participant content", t) => t = topic \/ PendingOn("participant content", t)'
  BY <1>1, <1>2, <1>T, PendingStays
<1>4. /\ participant' \in [partitions : SUBSET Patterns, content : [Topics -> Contents]]
      /\ participant'.partitions = participant.partitions
      /\ participant'.content[topic] = ExpressionOf(topic)
      /\ \A t \in Topics : t # topic => participant'.content[t] = participant.content[t]
  BY <1>3, <1>T, <1>E DEF FilterInv, FilterTypeOK
<1>5. PartitionsTold'
  <2>1. /\ Pending("readers partitions") => Pending("readers partitions")'
        /\ Pending("participant partitions") => Pending("participant partitions")'
    BY <1>1, <1>2, PendingStays
  <2> QED BY <1>3, <1>4, <2>1 DEF FilterInv, PartitionsTold
<1>6. ContentTold'
  <2>1. \A t : PendingOn("readers content", t) => PendingOn("readers content", t)'
    BY <1>1, <1>2, PendingStays
  <2>2. DOMAIN readers \subseteq Topics
    BY DEF FilterInv, FilterTypeOK
  <2>3. ASSUME NEW t \in DOMAIN readers
        PROVE  PendingOn("readers content", t)' \/ readers[t].content = participant'.content[t]
    <3>1. CASE t = topic
      BY <1>Q, <3>1
    <3>2. CASE t # topic
      <4>1. participant'.content[t] = participant.content[t]
        BY <1>4, <2>2, <3>2
      <4>2. PendingOn("readers content", t) \/ readers[t].content = participant.content[t]
        BY DEF FilterInv, ContentTold
      <4> QED BY <2>1, <4>1, <4>2
    <3> QED BY <3>1, <3>2
  <2>4. todo' # <<>> /\ todo'[1].do = "readers content" =>
          participant'.content[todo'[1].topic] = ExpressionOf(todo'[1].topic)
    BY <1>4, <1>O
  <2> QED BY <1>3, <2>3, <2>4 DEF ContentTold, ExpressionOf
<1>7. DictionaryTold'
  <2>1. /\ Pending("topics") => Pending("topics")'
        /\ \A t : ToWalk(t) => ToWalk(t)'
    BY <1>1, <1>2, PendingStays
  <2> QED BY <1>3, <1>4, <1>8, <2>1 DEF FilterInv, DictionaryTold, ExpressionOf
<1> QED BY <1>1, <1>2, <1>3, <1>4, <1>5, <1>6, <1>7, TellKeeps DEF FilterInv, FilterTypeOK

(* ... then the reader of the topic, if there is one.                        *)
LEMMA TellReadersContentKeeps ==
  ASSUME FilterInv, TellReadersContent
  PROVE  FilterInv'
<1> DEFINE topic == todo[1].topic
<1>1. Next1("readers content") /\ Then(<<>>)
  BY DEF TellReadersContent
<1>2. /\ todo \in Seq(Steps) /\ todo # <<>> /\ todo[1].do = "readers content" /\ 1 \in DOMAIN todo
      /\ todo[1] \in Steps /\ Head(todo) = todo[1] /\ Ordered(todo)
      /\ <<>> \in Seq(Steps) /\ Ordered(<<>>) /\ Quiet(<<>>)
  BY <1>1, NextStep
<1>3. /\ partitionFilter' = partitionFilter /\ topicFilter' = topicFilter
      /\ participant' = participant /\ unheard' = unheard
      /\ readers' = [x \in DOMAIN readers |->
                       IF x = topic THEN [readers[x] EXCEPT !.content = ExpressionOf(topic)] ELSE readers[x]]
      /\ UNCHANGED <<discoveryVars, partitionFilter, topicFilter, touched>>
  BY <1>2 DEF TellReadersContent
<1>E. ExpressionOf(topic) \in Contents
  BY DEF ExpressionOf, Contents, FilterInv, FilterTypeOK
<1>C. participant.content[topic] = ExpressionOf(topic)
  BY <1>2 DEF FilterInv, ContentTold
<1>8. \A t : PendingOn("readers content", t) => t = topic \/ PendingOn("readers content", t)'
  BY <1>1, <1>2, PendingStays
<1> HIDE DEF topic
<1>4. /\ DOMAIN readers' = DOMAIN readers
      /\ \A t \in DOMAIN readers :
           /\ readers'[t] \in [partitions : SUBSET Patterns, content : Contents]
           /\ readers'[t].partitions = readers[t].partitions
           /\ t = topic => readers'[t].content = ExpressionOf(topic)
           /\ t # topic => readers'[t].content = readers[t].content
  BY <1>3, <1>E DEF FilterInv, FilterTypeOK
<1>5. PartitionsTold'
  <2>1. /\ Pending("readers partitions") => Pending("readers partitions")'
        /\ Pending("participant partitions") => Pending("participant partitions")'
    BY <1>1, <1>2, PendingStays
  <2> QED BY <1>3, <1>4, <2>1 DEF FilterInv, PartitionsTold
<1>6. ContentTold'
  <2>1. ASSUME todo' # <<>>, NEW step, step = todo'[1], step.do = "readers content" PROVE FALSE
    <3>1. todo[1] = DoOn("participant content", step.topic)
      BY <1>1, <2>1, NextStep, NextTells
    <3>2. todo[1].do = "participant content"
      BY <3>1, StepsMade
    <3> QED BY <1>2, <3>2
  <2>2. \A t \in DOMAIN readers : PendingOn("readers content", t)' \/ readers'[t].content = participant.content[t]
    BY <1>4, <1>8, <1>C DEF FilterInv, ContentTold
  <2> QED BY <1>3, <1>4, <2>1, <2>2 DEF ContentTold
<1>7. DictionaryTold'
  <2>1. /\ Pending("topics") => Pending("topics")'
        /\ \A t : ToWalk(t) => ToWalk(t)'
        /\ \A t : PendingOn("participant content", t) => PendingOn("participant content", t)'
    BY <1>1, <1>2, PendingStays
  <2> QED BY <1>3, <2>1 DEF FilterInv, DictionaryTold, ExpressionOf
<1> QED BY <1>1, <1>2, <1>3, <1>4, <1>5, <1>6, <1>7, TellKeeps DEF FilterInv, FilterTypeOK

(* A step that leaves the filters and the readers alone. *)
TellsReadersFirst(steps) == steps # <<>> /\ steps[1].do = "readers content"

LEMMA NobodyTold ==
  ASSUME FilterInv, NEW what, Next1(what),
         what \in {"topics", "each topic", "scan", "each endpoint", "store"},
         NEW steps \in Seq(Steps), Then(steps), ~TellsReadersFirst(steps),
         UNCHANGED <<partitionFilter, topicFilter, participant, readers>>
  PROVE  /\ PartitionsTold' /\ ContentTold'
         /\ what \notin {"topics", "each topic"} /\ unheard' = unheard => DictionaryTold'
<1>1. /\ todo \in Seq(Steps) /\ todo # <<>> /\ todo[1].do = what /\ Ordered(todo)
  BY NextStep
<1>2. /\ Pending("participant partitions") => Pending("participant partitions")'
      /\ Pending("readers partitions") => Pending("readers partitions")'
      /\ \A t : PendingOn("readers content", t) => PendingOn("readers content", t)'
      /\ \A t : PendingOn("participant content", t) => PendingOn("participant content", t)'
      /\ what # "topics" /\ Pending("topics") => Pending("topics")'
      /\ \A t : what # "each topic" /\ ToWalk(t) => ToWalk(t)'
  BY <1>1, PendingStays
<1>3. PartitionsTold'
  BY <1>2 DEF FilterInv, PartitionsTold
<1>4. ASSUME todo' # <<>>, NEW step, step = todo'[1], step.do = "readers content" PROVE FALSE
  <2>1. CASE steps = <<>>
    <3>1. todo[1] = DoOn("participant content", step.topic)
      BY <1>1, <1>4, <2>1, NextTells
    <3>2. todo[1].do = "participant content"
      BY <3>1, StepsMade
    <3> QED BY <1>1, <3>2
  <2>2. CASE steps # <<>>
    <3>1. step = steps[1]
      BY <1>1, <1>4, <2>2, ThenKeeps
    <3> QED BY <1>4, <2>2, <3>1 DEF TellsReadersFirst
  <2> QED BY <2>1, <2>2
<1>5. ContentTold'
  BY <1>2, <1>4 DEF FilterInv, ContentTold
<1>6. ASSUME what \notin {"topics", "each topic"}, unheard' = unheard PROVE DictionaryTold'
  BY <1>2, <1>6 DEF FilterInv, DictionaryTold, ExpressionOf
<1> QED BY <1>3, <1>5, <1>6

LEMMA Single ==
  ASSUME NEW S, NEW x \in S
  PROVE  <<x>> \in Seq(S) /\ <<x>> # <<>> /\ DOMAIN <<x>> = {1} /\ <<x>>[1] = x
<1> DEFINE s == <<x>>
<1>1. s \in Seq(S) /\ Len(s) = 1 /\ s[1] = x
  OBVIOUS
<1> HIDE DEF s
<1>2. DOMAIN s = 1..1
  BY <1>1, LenProperties
<1>3. 1..1 = {1} /\ 1 # 0
  OBVIOUS
<1>4. s # <<>>
  BY <1>1, <1>3, EmptySeq
<1> QED BY <1>1, <1>2, <1>3, <1>4 DEF s

LEMMA OneStep ==
  ASSUME NEW x \in Steps, Interruptible(x), x.do # "participant partitions"
  PROVE  <<x>> \in Seq(Steps) /\ <<x>> # <<>> /\ DOMAIN <<x>> = {1} /\ <<x>>[1] = x /\ Ordered(<<x>>)
<1> DEFINE s == <<x>>
<1>1. s \in Seq(Steps) /\ s # <<>> /\ DOMAIN s = {1} /\ s[1] = x
  BY Single, Zenon
<1> HIDE DEF s
<1>2. \A i \in DOMAIN s : i = 1 /\ Interruptible(s[i]) /\ s[i].do # "participant partitions"
  BY <1>1
<1>3. Ordered(s)
  BY <1>2 DEF Ordered, Interruptible
<1> QED BY <1>1, <1>3 DEF s

(* update_topics finds out which topics to walk.                             *)
LEMMA WalkTopicsKeeps ==
  ASSUME FilterInv, WalkTopics
  PROVE  FilterInv'
<1> DEFINE left == TopicsOf(KnownEndpoints)
           step == [do |-> "each topic", left |-> left]
<1>1. Next1("topics") /\ Then(<<step>>)
  BY DEF WalkTopics
<1>2. todo \in Seq(Steps) /\ todo # <<>> /\ todo[1].do = "topics"
  BY <1>1, NextStep
<1>3. /\ UNCHANGED <<discoveryVars, partitionFilter, topicFilter, touched>>
      /\ UNCHANGED <<partitionFilter, topicFilter, participant, readers>>
      /\ unheard' = Topics \ left
  BY DEF WalkTopics
<1>4. left \in SUBSET Topics
  BY FilterConstants DEF TopicsOf, KnownEndpoints
<1>5. step \in Steps /\ step.do = "each topic" /\ step.left = left
  BY <1>4 DEF Steps
<1> HIDE DEF step, left
<1>6. /\ <<step>> \in Seq(Steps) /\ DOMAIN <<step>> = {1} /\ <<step>>[1] = step /\ Ordered(<<step>>)
      /\ Quiet(<<step>>) /\ ~TellsReadersFirst(<<step>>)
  <2>1. Interruptible(step)
    BY <1>5 DEF Interruptible
  <2> QED BY <1>5, <2>1, OneStep DEF Quiet, TellsReadersFirst
<1>7. Interruptible(todo[1])
  BY <1>2 DEF Interruptible
<1>8. PartitionsTold' /\ ContentTold'
  BY <1>1, <1>3, <1>6, NobodyTold
<1>9. DictionaryTold'
  <2>1. PICK j \in DOMAIN todo' : todo'[j] = step
    BY <1>1, <1>2, <1>6, ThenKeeps
  <2>2. \A t \in Topics \ unheard' : ToWalk(t)'
    BY <1>3, <1>5, <2>1 DEF ToWalk
  <2> QED BY <2>2 DEF DictionaryTold
<1> QED BY <1>1, <1>3, <1>6, <1>7, <1>8, <1>9, TellKeeps DEF FilterInv, FilterTypeOK


LEMMA NoIndices == DOMAIN <<>> = {}
OBVIOUS

LEMMA Indices ==
  /\ 1..2 = {1, 2} /\ 1..3 = {1, 2, 3} /\ 1..4 = {1, 2, 3, 4}
  /\ 1 + 1 = 2 /\ 2 + 1 = 3 /\ 3 + 1 = 4 /\ 2 - 1 = 1 /\ 3 - 1 = 2 /\ 4 - 1 = 3
  /\ 1 # 2 /\ 1 # 3 /\ 1 # 4
OBVIOUS

(* update_content_topicfilter tells the participant and then the readers. *)
LEMMA ContentOrdered ==
  ASSUME NEW t \in Topics
  PROVE  LET s == UpdateContent(t) IN
         /\ s \in Seq(Steps) /\ s # <<>> /\ Ordered(s) /\ Quiet(s) /\ ~TellsReadersFirst(s)
         /\ DOMAIN s = {1, 2} /\ s[1] = DoOn("participant content", t)
<1> DEFINE s == UpdateContent(t)
           a == DoOn("participant content", t)
           b == DoOn("readers content", t)
<1>1. a \in Steps /\ b \in Steps
  BY StepsMade
<1>2. s = <<a, b>>
  BY DEF UpdateContent
<1>3. a.do = "participant content"
  BY StepsMade
<1>4. a.topic = t
  BY StepsMade, Zenon
<1>5. b.do = "readers content"
  BY StepsMade
<1>6. b.topic = t
  BY StepsMade, Zenon
<1>A. b = DoOn("readers content", a.topic) /\ a = DoOn("participant content", b.topic)
  BY <1>4, <1>6
<1> HIDE DEF a, b
<1>7. s \in Seq(Steps) /\ Len(s) = 2 /\ s[1] = a /\ s[2] = b
  BY <1>1, <1>2
<1> HIDE DEF s
<1>8. DOMAIN s = {1, 2} /\ s # <<>>
  <2>1. DOMAIN s = 1..2
    BY <1>7, LenProperties
  <2>2. Len(s) # Len(<<>>)
    BY <1>7, EmptySeq
  <2> QED BY <2>1, <2>2, Indices, Zenon
<1>9. Ordered(s)
  <2> SUFFICES ASSUME NEW i \in DOMAIN s
               PROVE  /\ s[i].do = "participant partitions" =>
                           i + 1 \in DOMAIN s /\ s[i + 1].do = "readers partitions"
                      /\ s[i].do = "participant content" =>
                           i + 1 \in DOMAIN s /\ s[i + 1] = DoOn("readers content", s[i].topic)
                      /\ s[i].do = "readers content" /\ i # 1 =>
                           s[i - 1] = DoOn("participant content", s[i].topic)
                      /\ s[i].do = "store" => i = 1
                      /\ s[i].do = "each endpoint" => i = 1 \/ (i = 2 /\ s[1].do = "store")
    BY DEF Ordered
  <2>1. CASE i = 1
    BY <1>3, <1>A, <1>7, <1>8, <2>1, Indices
  <2>2. CASE i = 2
    BY <1>5, <1>A, <1>7, <1>8, <2>2, Indices
  <2> QED BY <1>8, <2>1, <2>2
<1>10. Quiet(s)
  BY <1>3, <1>5, <1>7, <1>8 DEF Quiet
<1>11. ~TellsReadersFirst(s)
  BY <1>3, <1>7 DEF TellsReadersFirst
<1> QED BY <1>7, <1>8, <1>9, <1>10, <1>11 DEF s, a


(* One list of steps after another. *)
LEMMA OrderedJoined ==
  ASSUME NEW a \in Seq(Steps), a # <<>>, Ordered(a), Quiet(a), ~TellsReadersFirst(a),
         NEW b \in Seq(Steps), Ordered(b), Quiet(b), ~TellsReadersFirst(b)
  PROVE  LET c == a \o b IN
         /\ c \in Seq(Steps) /\ c # <<>> /\ Ordered(c) /\ Quiet(c) /\ ~TellsReadersFirst(c)
         /\ \A i \in DOMAIN a : \E j \in DOMAIN c : c[j] = a[i]
         /\ \A i \in DOMAIN b : \E j \in DOMAIN c : c[j] = b[i]
<1> DEFINE c == a \o b
           length == Len(a)
<1>1. /\ DOMAIN a = 1..length /\ DOMAIN b = 1..Len(b) /\ length \in Nat \ {0} /\ Len(b) \in Nat
      /\ 1 \in DOMAIN a
  BY Popped, LenProperties
<1>2. /\ c \in Seq(Steps) /\ DOMAIN c = 1..length + Len(b) /\ Len(c) = length + Len(b)
      /\ \A i \in 1..length + Len(b) : c[i] = IF i <= length THEN a[i] ELSE b[i - length]
  BY ConcatProperties, LenProperties
<1> HIDE DEF c, length
<1>3. \A i \in DOMAIN a : i \in DOMAIN c /\ c[i] = a[i]
  BY <1>1, <1>2
<1>4. \A i \in DOMAIN b : i + length \in DOMAIN c /\ c[i + length] = b[i]
  BY <1>1, <1>2
<1>5. \A i \in DOMAIN c : i \in DOMAIN a \/ (i - length \in DOMAIN b /\ c[i] = b[i - length] /\ i > length)
  BY <1>1, <1>2
<1>6. c # <<>>
  BY <1>1, <1>2, EmptySeq
<1>7. c[1] = a[1]
  BY <1>1, <1>3
<1>8. Quiet(c)
  BY <1>3, <1>5 DEF Quiet
<1>9. ~TellsReadersFirst(c)
  BY <1>7 DEF TellsReadersFirst
<1>10. Ordered(c)
  <2> SUFFICES ASSUME NEW i \in DOMAIN c
               PROVE  /\ c[i].do = "participant partitions" =>
                           i + 1 \in DOMAIN c /\ c[i + 1].do = "readers partitions"
                      /\ c[i].do = "participant content" =>
                           i + 1 \in DOMAIN c /\ c[i + 1] = DoOn("readers content", c[i].topic)
                      /\ c[i].do = "readers content" /\ i # 1 =>
                           c[i - 1] = DoOn("participant content", c[i].topic)
                      /\ c[i].do # "store" /\ c[i].do # "each endpoint"
    BY DEF Ordered
  <2>1. CASE i \in DOMAIN a
    <3>1. c[i] = a[i] /\ (i # 1 => i - 1 \in DOMAIN a)
      BY <1>1, <1>3, <2>1
    <3>2. /\ i + 1 \in DOMAIN a => i + 1 \in DOMAIN c /\ c[i + 1] = a[i + 1]
          /\ i # 1 => c[i - 1] = a[i - 1]
      BY <1>3, <3>1
    <3>3. /\ a[i].do = "participant partitions" =>
               i + 1 \in DOMAIN a /\ a[i + 1].do = "readers partitions"
          /\ a[i].do = "participant content" =>
               i + 1 \in DOMAIN a /\ a[i + 1] = DoOn("readers content", a[i].topic)
          /\ a[i].do = "readers content" /\ i # 1 =>
               a[i - 1] = DoOn("participant content", a[i].topic)
      BY <2>1 DEF Ordered
    <3> QED BY <1>8, <3>1, <3>2, <3>3 DEF Quiet
  <2>2. CASE i \notin DOMAIN a
    <3> DEFINE k == i - length
    <3>1. k \in DOMAIN b /\ c[i] = b[k] /\ i > length
      BY <1>5, <2>2
    <3>2. /\ k + 1 \in DOMAIN b => i + 1 \in DOMAIN c /\ c[i + 1] = b[k + 1]
          /\ k # 1 => c[i - 1] = b[k - 1]
      <4>1. i \in 1..length + Len(b)
        BY <1>2
      <4>2. k \in 1..Len(b)
        BY <1>1, <3>1
      <4>3. (k + 1) + length = i + 1 /\ (k - 1) + length = i - 1 /\ (k # 1 => k - 1 \in 1..Len(b))
        BY <1>1, <4>1, <4>2
      <4> QED BY <1>1, <1>4, <4>3
    <3> HIDE DEF k
    <3>3. k = 1 => b[k].do # "readers content"
      <4>1. b # <<>>
        BY <3>1, EmptySeq, <1>1
      <4> QED BY <4>1 DEF TellsReadersFirst
    <3>4. /\ b[k].do = "participant partitions" =>
               k + 1 \in DOMAIN b /\ b[k + 1].do = "readers partitions"
          /\ b[k].do = "participant content" =>
               k + 1 \in DOMAIN b /\ b[k + 1] = DoOn("readers content", b[k].topic)
          /\ b[k].do = "readers content" /\ k # 1 =>
               b[k - 1] = DoOn("participant content", b[k].topic)
      BY <3>1 DEF Ordered
    <3> QED BY <1>8, <3>1, <3>2, <3>3, <3>4 DEF Quiet
  <2> QED BY <2>1, <2>2
<1> QED BY <1>2, <1>3, <1>4, <1>6, <1>8, <1>9, <1>10 DEF c


(* A topic of the walk is taken and told of, until none is left.             *)
LEMMA NextTopicKeeps ==
  ASSUME FilterInv, NextTopic
  PROVE  FilterInv'
<1>1. Next1("each topic")
  BY DEF NextTopic
<1>2. /\ todo \in Seq(Steps) /\ todo # <<>> /\ todo[1].do = "each topic" /\ todo[1] \in Steps
      /\ Head(todo) = todo[1] /\ <<>> \in Seq(Steps) /\ Ordered(<<>>) /\ Quiet(<<>>)
  BY <1>1, NextStep
<1>3. /\ UNCHANGED <<discoveryVars, partitionFilter, topicFilter, touched>>
      /\ UNCHANGED <<partitionFilter, topicFilter, participant, readers>>
      /\ unheard' = unheard
  BY DEF NextTopic
<1>4. PICK left \in SUBSET Topics : left = todo[1].left
  BY <1>2, StepShape
<1>5. Interruptible(todo[1])
  BY <1>2 DEF Interruptible
<1>6. CASE left = {} /\ Then(<<>>)
  <2>1. ~TellsReadersFirst(<<>>)
    BY DEF TellsReadersFirst
  <2>2. PartitionsTold' /\ ContentTold'
    BY <1>1, <1>2, <1>3, <1>6, <2>1, NobodyTold
  <2>3. /\ Pending("topics") => Pending("topics")'
        /\ \A t : ToWalk(t) => ToWalk(t)'
        /\ \A t : PendingOn("participant content", t) => PendingOn("participant content", t)'
    BY <1>2, <1>4, <1>6, PendingStays
  <2>4. DictionaryTold'
    BY <1>3, <2>3 DEF FilterInv, DictionaryTold, ExpressionOf
  <2> QED BY <1>1, <1>2, <1>3, <1>6, <2>2, <2>4, TellKeeps DEF FilterInv, FilterTypeOK
<1>7. ASSUME NEW t \in left,
             Then(UpdateContent(t) \o <<[do |-> "each topic", left |-> left \ {t}]>>)
      PROVE  FilterInv'
  <2> DEFINE each == [do |-> "each topic", left |-> left \ {t}]
             steps == UpdateContent(t) \o <<each>>
  <2>1. each \in Steps /\ each.do = "each topic" /\ each.left = left \ {t}
    BY <1>4 DEF Steps
  <2> HIDE DEF each
  <2>2. /\ <<each>> \in Seq(Steps) /\ Ordered(<<each>>) /\ Quiet(<<each>>) /\ ~TellsReadersFirst(<<each>>)
        /\ 1 \in DOMAIN <<each>> /\ <<each>>[1] = each
    <3>1. Interruptible(each) /\ each.do # "participant partitions"
      BY <2>1 DEF Interruptible
    <3>2. <<each>> \in Seq(Steps) /\ DOMAIN <<each>> = {1} /\ <<each>>[1] = each /\ Ordered(<<each>>)
      BY <2>1, <3>1, OneStep
    <3> QED BY <2>1, <3>2 DEF Quiet, TellsReadersFirst
  <2>3. /\ UpdateContent(t) \in Seq(Steps) /\ UpdateContent(t) # <<>> /\ Ordered(UpdateContent(t))
        /\ Quiet(UpdateContent(t)) /\ ~TellsReadersFirst(UpdateContent(t))
        /\ 1 \in DOMAIN UpdateContent(t) /\ UpdateContent(t)[1] = DoOn("participant content", t)
    BY <1>4, ContentOrdered
  <2>4. /\ steps \in Seq(Steps) /\ Ordered(steps) /\ Quiet(steps) /\ ~TellsReadersFirst(steps)
        /\ \E j \in DOMAIN steps : steps[j] = DoOn("participant content", t)
        /\ \E j \in DOMAIN steps : steps[j] = each
    <3>1. /\ steps \in Seq(Steps) /\ Ordered(steps) /\ Quiet(steps) /\ ~TellsReadersFirst(steps)
          /\ \A i \in DOMAIN UpdateContent(t) : \E j \in DOMAIN steps : steps[j] = UpdateContent(t)[i]
          /\ \A i \in DOMAIN <<each>> : \E j \in DOMAIN steps : steps[j] = <<each>>[i]
      BY <2>2, <2>3, OrderedJoined
    <3>2. \E j \in DOMAIN steps : steps[j] = each
      BY <2>2, <3>1, Zenon
    <3>3. \E j \in DOMAIN steps : steps[j] = DoOn("participant content", t)
      BY <2>3, <3>1
    <3> QED BY <3>1, <3>2, <3>3
  <2>5. Then(steps)
    BY <1>7 DEF each
  <2> HIDE DEF steps
  <2>6. /\ \E j \in DOMAIN todo' : todo'[j] = DoOn("participant content", t)
        /\ \E j \in DOMAIN todo' : todo'[j] = each
    <3>1. \A i \in DOMAIN steps : \E j \in DOMAIN todo' : todo'[j] = steps[i]
      BY <1>2, <2>4, <2>5, ThenKeeps
    <3> QED BY <2>4, <3>1
  <2>7. PendingOn("participant content", t)'
    <3>1. DoOn("participant content", t).do = "participant content"
      BY StepsMade
    <3>2. DoOn("participant content", t).topic = t
      BY StepsMade, Zenon
    <3> QED BY <2>6, <3>1, <3>2 DEF PendingOn
  <2>8. \A x \in left \ {t} : ToWalk(x)'
    BY <2>1, <2>6 DEF ToWalk
  <2>9. PartitionsTold' /\ ContentTold'
    BY <1>1, <1>3, <2>4, <2>5, NobodyTold
  <2>10. /\ Pending("topics") => Pending("topics")'
         /\ \A x : ToWalk(x) => x \in left \/ ToWalk(x)'
         /\ \A x : PendingOn("participant content", x) => PendingOn("participant content", x)'
    BY <1>2, <1>4, <2>4, <2>5, PendingStays
  <2>11. \A x : ToWalk(x) => PendingOn("participant content", x)' \/ ToWalk(x)'
    BY <2>7, <2>8, <2>10
  <2>12. DictionaryTold'
    BY <1>3, <2>10, <2>11 DEF FilterInv, DictionaryTold, ExpressionOf
  <2> QED BY <1>1, <1>3, <1>5, <2>4, <2>5, <2>9, <2>12, TellKeeps DEF FilterInv, FilterTypeOK
<1> QED BY <1>2, <1>4, <1>6, <1>7 DEF NextTopic


(* The part of the invariant that update_endpoints has to look after. *)
LEMMA UpdateEndpointsKeeps ==
  ASSUME FilterInv, NEW what, Next1(what), what \in {"scan", "each endpoint", "store"},
         NEW steps \in Seq(Steps), Ordered(steps), ~TellsReadersFirst(steps), Then(steps),
         steps = <<>> \/ Interruptible(todo[1]),
         UNCHANGED <<partitionFilter, topicFilter, participant, readers, unheard>>,
         DiscoveryTypeOK', touched' \subseteq Endpoints,
         DecisionsRight', EndpointsDecided'
  PROVE  FilterInv'
<1>1. Ordered(todo)' /\ todo' \in Seq(Steps)
  BY OrderStays
<1>2. PartitionsTold' /\ ContentTold' /\ DictionaryTold'
  BY NobodyTold
<1>3. FilterTypeOK'
  BY <1>1 DEF FilterInv, FilterTypeOK
<1> QED BY <1>1, <1>2, <1>3 DEF FilterInv

(* Only the first steps of a command are about endpoints. *)
LEMMA EndpointStepsFirst ==
  ASSUME FilterInv, NEW i \in DOMAIN todo, i # 1, NEW x, x = todo[i]
  PROVE  x.do # "store" /\ (todo[1].do # "store" => x.do # "each endpoint")
BY DEF FilterInv, Ordered

(* update_endpoints decides who is active, for everybody known.              *)
LEMMA ScanKeeps ==
  ASSUME FilterInv, Scan
  PROVE  FilterInv'
<1> DEFINE decided == [e \in KnownEndpoints |-> Passes(database[e].qos)]
           each == [do |-> "each endpoint", decided |-> decided]
<1>1. Next1("scan") /\ Then(<<each>>)
  BY DEF Scan
<1>2. todo \in Seq(Steps) /\ todo # <<>> /\ todo[1].do = "scan"
  BY <1>1, NextStep
<1>3. /\ UNCHANGED <<discoveryVars, partitionFilter, topicFilter, participant, readers, unheard>>
      /\ database' = database /\ KnownEndpoints' = KnownEndpoints
      /\ touched' = {}
  BY DEF Scan, discoveryVars, pathVars, KnownEndpoints
<1>4. PICK d : d = decided
  OBVIOUS
<1>5. /\ DOMAIN d = KnownEndpoints /\ d \in UNION {[E -> BOOLEAN] : E \in SUBSET Endpoints}
      /\ \A e \in KnownEndpoints : d[e] = Passes(database[e].qos)
  <2>1. decided \in [KnownEndpoints -> BOOLEAN]
    BY DEF Passes
  <2>2. KnownEndpoints \in SUBSET Endpoints
    BY DEF KnownEndpoints
  <2> QED BY <1>4, <2>1, <2>2
<1>6. PICK x : x = [do |-> "each endpoint", decided |-> d]
  OBVIOUS
<1>7. x \in Steps /\ x.do = "each endpoint" /\ x.decided = d
  BY <1>5, <1>6 DEF Steps
<1>8. Then(<<x>>)
  BY <1>1, <1>4, <1>6
<1> HIDE DEF each, decided
<1>9. /\ <<x>> \in Seq(Steps) /\ DOMAIN <<x>> = {1} /\ <<x>>[1] = x /\ Ordered(<<x>>)
      /\ ~TellsReadersFirst(<<x>>)
  <2>1. Interruptible(x)
    BY <1>7 DEF Interruptible
  <2> QED BY <1>7, <2>1, OneStep DEF TellsReadersFirst
<1>10. Interruptible(todo[1])
  BY <1>2 DEF Interruptible
<1>11. DecisionsRight'
  <2>1. ASSUME NEW j \in DOMAIN todo', NEW y, y = todo'[j] PROVE DecisionRight(y)'
    <3>1. CASE y = x
      BY <1>3, <1>5, <1>7, <3>1 DEF DecisionRight, Passes
    <3>2. CASE \E i \in DOMAIN todo : i # 1 /\ y = todo[i]
      <4>1. y.do # "store" /\ y.do # "each endpoint"
        BY <1>2, <3>2, EndpointStepsFirst
      <4> QED BY <4>1 DEF DecisionRight
    <3> QED BY <1>2, <1>8, <1>9, <2>1, <3>1, <3>2, ThenKeeps
  <2> QED BY <2>1 DEF DecisionsRight, DecisionRight
<1>12. EndpointsDecided'
  <2>1. \E j \in DOMAIN todo' : todo'[j] = x
    BY <1>2, <1>8, <1>9, ThenKeeps
  <2>2. \A e \in KnownEndpoints : ToFetch(e)'
    BY <1>5, <1>7, <2>1 DEF ToFetch
  <2> QED BY <1>3, <2>2 DEF EndpointsDecided
<1>13. DiscoveryTypeOK'
  BY <1>3, DiscoveryTypeStep DEF FilterInv, FilterTypeOK
<1> QED BY <1>1, <1>3, <1>8, <1>9, <1>10, <1>11, <1>12, <1>13, UpdateEndpointsKeeps


LEMMA Double ==
  ASSUME NEW S, NEW a \in S, NEW b \in S, NEW s, s = <<a, b>>
  PROVE  s \in Seq(S) /\ s # <<>> /\ DOMAIN s = {1, 2} /\ s[1] = a /\ s[2] = b
<1>1. <<a, b>> \in Seq(S) /\ Len(<<a, b>>) = 2 /\ <<a, b>>[1] = a /\ <<a, b>>[2] = b
  OBVIOUS
<1>2. s \in Seq(S) /\ Len(s) = 2 /\ s[1] = a /\ s[2] = b
  BY <1>1
<1>3. DOMAIN s = 1..2
  BY <1>2, LenProperties
<1>4. 2 # 0
  OBVIOUS
<1>5. s # <<>>
  BY <1>2, <1>4, EmptySeq
<1> QED BY <1>2, <1>3, <1>5, Indices

LEMMA StoreAndRest ==
  ASSUME NEW s, DOMAIN s = {1, 2}, s[1].do = "store", s[2].do = "each endpoint"
  PROVE  Ordered(s)
BY DEF Ordered

(* The entry of the next endpoint is copied, with what was decided of it.    *)
LEMMA FetchKeeps ==
  ASSUME FilterInv, Fetch
  PROVE  FilterInv'
<1>1. Next1("each endpoint")
  BY DEF Fetch
<1>2. /\ todo \in Seq(Steps) /\ todo # <<>> /\ todo[1].do = "each endpoint" /\ todo[1] \in Steps
      /\ Head(todo) = todo[1] /\ 1 \in DOMAIN todo /\ <<>> \in Seq(Steps) /\ Ordered(<<>>)
  BY <1>1, NextStep
<1>3. /\ UNCHANGED <<discoveryVars, partitionFilter, topicFilter, participant, readers, unheard>>
      /\ database' = database /\ KnownEndpoints' = KnownEndpoints
      /\ touched' = touched /\ partitionFilter' = partitionFilter
  BY DEF Fetch, discoveryVars, pathVars, KnownEndpoints
<1>4. PICK decided : decided = todo[1].decided
  OBVIOUS
<1>5. /\ DOMAIN decided \subseteq Endpoints /\ \A e \in DOMAIN decided : decided[e] \in BOOLEAN
      /\ DOMAIN decided \subseteq KnownEndpoints
      /\ \A e \in DOMAIN decided \ touched : decided[e] = Passes(database[e].qos)
  <2>1. DecisionRight(todo[1])
    BY <1>2 DEF FilterInv, DecisionsRight
  <2> QED BY <1>2, <1>4, <2>1, StepShape DEF DecisionRight
<1>6. Interruptible(todo[1])
  BY <1>2 DEF Interruptible
<1>7. DiscoveryTypeOK' /\ touched' \subseteq Endpoints
  BY <1>3, DiscoveryTypeStep DEF FilterInv, FilterTypeOK
<1>8. ASSUME NEW i \in DOMAIN todo, i # 1, NEW x, x = todo[i] PROVE DecisionRight(x)'
  <2>1. todo[1].do # "store"
    BY <1>2
  <2>2. x.do # "store" /\ x.do # "each endpoint"
    BY <1>8, <2>1, EndpointStepsFirst
  <2> QED BY <2>2 DEF DecisionRight
<1>9. CASE DOMAIN decided = {} /\ Then(<<>>)
  <2>1. ~TellsReadersFirst(<<>>)
    BY DEF TellsReadersFirst
  <2>2. ASSUME NEW j \in DOMAIN todo', NEW x, x = todo'[j] PROVE DecisionRight(x)'
    <3>1. \E i \in DOMAIN todo : i # 1 /\ x = todo[i]
      <4>1. \A k \in DOMAIN todo' :
              \/ \E i \in DOMAIN <<>> : todo'[k] = <<>>[i]
              \/ \E i \in DOMAIN todo : i # 1 /\ todo'[k] = todo[i]
        BY <1>2, <1>9, ThenKeeps
      <4>2. DOMAIN <<>> = {}
        OBVIOUS
      <4> QED BY <2>2, <4>1, <4>2
    <3> QED BY <1>8, <3>1
  <2>3. DecisionsRight'
    BY <2>2 DEF DecisionsRight, DecisionRight
  <2>4. /\ Pending("scan") => Pending("scan")'
        /\ \A e : ToFetch(e) => ToFetch(e)'
        /\ \A e : ToStore(e) => ToStore(e)'
    BY <1>2, <1>4, <1>9, PendingStays
  <2>5. EndpointsDecided'
    BY <1>3, <2>4 DEF FilterInv, EndpointsDecided, Passes
  <2> QED BY <1>1, <1>2, <1>3, <1>7, <1>9, <2>1, <2>3, <2>5, UpdateEndpointsKeeps
<1>10. ASSUME NEW e \in DOMAIN decided,
              Then(<<[do |-> "store", guid |-> e, active |-> decided[e], qos |-> database[e].qos],
                     [do |-> "each endpoint", decided |-> [x \in DOMAIN decided \ {e} |-> decided[x]]]>>)
       PROVE  FilterInv'
  <2>1. PICK rest : rest = [x \in DOMAIN decided \ {e} |-> decided[x]]
    OBVIOUS
  <2>2. /\ DOMAIN rest = DOMAIN decided \ {e}
        /\ \A x \in DOMAIN rest : rest[x] = decided[x]
        /\ rest \in UNION {[E -> BOOLEAN] : E \in SUBSET Endpoints}
    <3>1. rest \in [DOMAIN decided \ {e} -> BOOLEAN] /\ DOMAIN decided \ {e} \in SUBSET Endpoints
      BY <1>5, <2>1
    <3> QED BY <2>1, <3>1
  <2>3. PICK qos : qos = database[e].qos
    OBVIOUS
  <2>4. e \in Endpoints /\ e \in KnownEndpoints /\ decided[e] \in BOOLEAN /\ qos \in QoS
    <3>1. e \in DOMAIN database /\ database[e] \in Entry
      BY <1>5 DEF KnownEndpoints, FilterInv, FilterTypeOK, DiscoveryTypeOK
    <3> QED BY <1>5, <2>3, <3>1 DEF Entry
  <2>5. PICK store : store = [do |-> "store", guid |-> e, active |-> decided[e], qos |-> qos]
    OBVIOUS
  <2>6. PICK each : each = [do |-> "each endpoint", decided |-> rest]
    OBVIOUS
  <2>7. /\ store \in Steps /\ store.do = "store" /\ store.guid = e
        /\ store.active = decided[e] /\ store.qos = qos
    BY <2>4, <2>5 DEF Steps
  <2>8. each \in Steps /\ each.do = "each endpoint" /\ each.decided = rest
    BY <2>2, <2>6 DEF Steps
  <2>9. PICK steps : steps = <<store, each>>
    OBVIOUS
  <2>10. Then(steps)
    BY <1>10, <2>1, <2>3, <2>5, <2>6, <2>9
  <2>11. /\ steps \in Seq(Steps) /\ steps # <<>> /\ DOMAIN steps = {1, 2}
         /\ steps[1] = store /\ steps[2] = each /\ Ordered(steps)
    <3>1. store \in Steps /\ each \in Steps
      BY <2>7, <2>8
    <3>2. /\ steps \in Seq(Steps) /\ steps # <<>> /\ DOMAIN steps = {1, 2}
          /\ steps[1] = store /\ steps[2] = each
      BY <2>9, <3>1, Double
    <3>3. Ordered(steps)
      BY <2>7, <2>8, <3>2, StoreAndRest
    <3> QED BY <3>2, <3>3
  <2>12. ~TellsReadersFirst(steps)
    BY <2>7, <2>11 DEF TellsReadersFirst
  <2>13. DecisionRight(store)'
    BY <1>3, <1>5, <2>3, <2>4, <2>7 DEF DecisionRight, Passes
  <2>14. DecisionRight(each)'
    BY <1>3, <1>5, <2>2, <2>8 DEF DecisionRight, Passes
  <2>15. ASSUME NEW j \in DOMAIN todo', NEW x, x = todo'[j] PROVE DecisionRight(x)'
    <3>1. (\E i \in DOMAIN steps : x = steps[i]) \/ \E i \in DOMAIN todo : i # 1 /\ x = todo[i]
      <4>1. \A k \in DOMAIN todo' :
              \/ \E i \in DOMAIN steps : todo'[k] = steps[i]
              \/ \E i \in DOMAIN todo : i # 1 /\ todo'[k] = todo[i]
        BY <1>2, <2>10, <2>11, ThenKeeps
      <4> QED BY <2>15, <4>1
    <3>2. CASE x = store
      BY <2>13, <3>2
    <3>3. CASE x = each
      BY <2>14, <3>3
    <3> QED BY <1>8, <2>11, <3>1, <3>2, <3>3
  <2>16. DecisionsRight'
    BY <2>15 DEF DecisionsRight, DecisionRight
  <2>17. ToStore(e)' /\ \A x \in DOMAIN decided \ {e} : ToFetch(x)'
    <3>1. (\E j \in DOMAIN todo' : todo'[j] = store) /\ \E j \in DOMAIN todo' : todo'[j] = each
      <4>1. \A i \in DOMAIN steps : \E j \in DOMAIN todo' : todo'[j] = steps[i]
        BY <1>2, <2>10, <2>11, ThenKeeps
      <4> QED BY <2>11, <4>1
    <3> QED BY <2>2, <2>7, <2>8, <3>1 DEF ToStore, ToFetch
  <2>18. /\ Pending("scan") => Pending("scan")'
         /\ \A x : ToFetch(x) => x \in DOMAIN decided \/ ToFetch(x)'
         /\ \A x : ToStore(x) => ToStore(x)'
    BY <1>2, <1>4, <2>10, <2>11, PendingStays
  <2>19. \A x : ToFetch(x) => ToFetch(x)' \/ ToStore(x)'
    BY <2>17, <2>18
  <2>20. EndpointsDecided'
    BY <1>3, <2>18, <2>19 DEF FilterInv, EndpointsDecided, Passes
  <2> QED BY <1>1, <1>3, <1>6, <1>7, <2>10, <2>11, <2>12, <2>16, <2>20, UpdateEndpointsKeeps
<1> QED BY <1>2, <1>4, <1>9, <1>10 DEF Fetch


(* The copy is stored with the flag that was decided.                        *)
LEMMA StoreKeeps ==
  ASSUME FilterInv, Store
  PROVE  FilterInv'
<1>1. Next1("store") /\ Then(<<>>)
  BY DEF Store
<1>2. /\ todo \in Seq(Steps) /\ todo # <<>> /\ todo[1].do = "store" /\ todo[1] \in Steps
      /\ Head(todo) = todo[1] /\ 1 \in DOMAIN todo /\ <<>> \in Seq(Steps) /\ Ordered(<<>>)
  BY <1>1, NextStep
<1>3. PICK x \in Steps : x = todo[1]
  BY <1>2
<1>4. x.do = "store" /\ x.guid \in Endpoints /\ x.active \in BOOLEAN /\ x.qos \in QoS
  BY <1>2, <1>3, StepShape
<1>5. /\ x.guid \in KnownEndpoints
      /\ x.guid \notin touched =>
           x.qos = database[x.guid].qos /\ x.active = Passes(database[x.guid].qos)
  <2>1. DecisionRight(x)
    BY <1>2, <1>3 DEF FilterInv, DecisionsRight
  <2> QED BY <1>4, <2>1 DEF DecisionRight
<1>6. /\ UNCHANGED <<partitionFilter, topicFilter, participant, readers, unheard>>
      /\ network' = network /\ announced' = announced /\ listener' = listener
      /\ queue' = queue /\ worker' = worker
      /\ touched' = touched /\ partitionFilter' = partitionFilter
      /\ database' = Stored(database, x)
  BY <1>2, <1>3 DEF Store, netVars
<1>7. /\ DOMAIN database \subseteq Guids /\ \A g \in DOMAIN database : database[g] \in Entry
      /\ DiscoveryTypeOK
  BY DEF FilterInv, FilterTypeOK, DiscoveryTypeOK
<1>8. /\ DOMAIN database' = DOMAIN database
      /\ database'[x.guid] = [active |-> x.active, qos |-> x.qos]
      /\ \A g \in DOMAIN database : g # x.guid => database'[g] = database[g]
  <2>1. x.guid \in DOMAIN database
    BY <1>5 DEF KnownEndpoints
  <2> QED BY <1>6, <2>1 DEF Stored
<1>9. [active |-> x.active, qos |-> x.qos] \in Entry
  BY <1>4 DEF Entry
<1>10. KnownEndpoints' = KnownEndpoints
  BY <1>8 DEF KnownEndpoints
<1>11. DiscoveryTypeOK'
  <2>1. \A g \in DOMAIN database' : database'[g] \in Entry
    BY <1>7, <1>8, <1>9
  <2> QED BY <1>6, <1>7, <1>8, <2>1 DEF DiscoveryTypeOK
<1>12. \A e \in KnownEndpoints \ touched : database'[e].qos = database[e].qos
  BY <1>5, <1>8 DEF KnownEndpoints
<1>13. ASSUME NEW i \in DOMAIN todo, i # 1, NEW y, y = todo[i] PROVE DecisionRight(y)'
  <2>1. y.do # "store"
    BY <1>13, EndpointStepsFirst
  <2>2. DecisionRight(y)
    BY <1>13 DEF FilterInv, DecisionsRight
  <2> QED BY <1>6, <1>10, <1>12, <2>1, <2>2 DEF DecisionRight, Passes
<1>14. ASSUME NEW j \in DOMAIN todo', NEW y, y = todo'[j] PROVE DecisionRight(y)'
  <2>1. \A k \in DOMAIN todo' :
          \/ \E i \in DOMAIN <<>> : todo'[k] = <<>>[i]
          \/ \E i \in DOMAIN todo : i # 1 /\ todo'[k] = todo[i]
    BY <1>1, <1>2, ThenKeeps
  <2>2. DOMAIN <<>> = {}
    OBVIOUS
  <2> QED BY <1>13, <1>14, <2>1, <2>2
<1>15. DecisionsRight'
  BY <1>14 DEF DecisionsRight, DecisionRight
<1>16. /\ Pending("scan") => Pending("scan")'
       /\ \A e : ToFetch(e) => ToFetch(e)'
       /\ \A e : ToStore(e) => e = x.guid \/ ToStore(e)'
  BY <1>1, <1>2, <1>3, PendingStays
<1>17. EndpointsDecided'
  <2> SUFFICES ASSUME NEW e \in KnownEndpoints \ touched
               PROVE  \/ Pending("scan")' \/ ToFetch(e)' \/ ToStore(e)'
                      \/ database'[e].active = Passes(database[e].qos)
    BY <1>6, <1>10, <1>12 DEF EndpointsDecided, Passes
  <2>1. CASE e = x.guid
    BY <1>5, <1>8, <2>1
  <2>2. CASE e # x.guid
    <3>1. database'[e] = database[e]
      BY <1>8, <2>2 DEF KnownEndpoints
    <3>2. Pending("scan") \/ ToFetch(e) \/ ToStore(e) \/ database[e].active = Passes(database[e].qos)
      BY DEF FilterInv, EndpointsDecided
    <3> QED BY <1>16, <2>2, <3>1, <3>2
  <2> QED BY <2>1, <2>2
<1>18. ~TellsReadersFirst(<<>>)
  BY DEF TellsReadersFirst
<1>19. touched' \subseteq Endpoints
  BY <1>6 DEF FilterInv, FilterTypeOK
<1> QED BY <1>1, <1>2, <1>6, <1>11, <1>15, <1>17, <1>18, <1>19, UpdateEndpointsKeeps

(* The pipe gives a new reader what the participant has: if that is not yet  *)
(* the filter of the console, the readers are still to be told.              *)
LEMMA CreateReaderKeeps ==
  ASSUME FilterInv, NEW t \in Topics, CreateReader(t)
  PROVE  FilterInv'
<1>1. /\ partitionFilter' = partitionFilter /\ topicFilter' = topicFilter /\ todo' = todo
      /\ participant' = participant /\ touched' = touched /\ unheard' = unheard
      /\ database' = database /\ UNCHANGED discoveryVars
      /\ DOMAIN readers' = DOMAIN readers \cup {t}
      /\ readers'[t] = [partitions |-> participant.partitions, content |-> participant.content[t]]
      /\ \A x \in DOMAIN readers : x # t => readers'[x] = readers[x]
  BY DEF CreateReader, discoveryVars, pathVars
<1>2. DiscoveryTypeOK'
  BY <1>1, DiscoveryTypeStep DEF FilterInv, FilterTypeOK
<1>3. readers'[t] \in [partitions : SUBSET Patterns, content : Contents]
  BY <1>1 DEF FilterInv, FilterTypeOK
<1>4. FilterTypeOK'
  <2>1. \A x \in DOMAIN readers' : readers'[x] \in [partitions : SUBSET Patterns, content : Contents]
    BY <1>1, <1>3 DEF FilterInv, FilterTypeOK
  <2> QED BY <1>1, <1>2, <2>1 DEF FilterInv, FilterTypeOK
<1>5. /\ \A what : Pending(what)' = Pending(what)
      /\ \A what, x : PendingOn(what, x)' = PendingOn(what, x)
      /\ \A x : ToWalk(x)' = ToWalk(x)
      /\ \A e : ToFetch(e)' = ToFetch(e)
      /\ \A e : ToStore(e)' = ToStore(e)
  BY <1>1 DEF Pending, PendingOn, ToWalk, ToFetch, ToStore
<1>6. Pending("participant partitions") => Pending("readers partitions")
  BY DEF Pending, FilterInv, Ordered
<1>7. PartitionsTold'
  <2>1. Pending("readers partitions") \/ readers'[t].partitions = partitionFilter
    <3>1. readers'[t].partitions = participant.partitions
      BY <1>1
    <3> QED BY <1>6, <3>1 DEF FilterInv, PartitionsTold
  <2> QED BY <1>1, <1>5, <2>1 DEF FilterInv, PartitionsTold
<1>8. ContentTold'
  <2>1. ASSUME NEW x \in DOMAIN readers'
        PROVE  PendingOn("readers content", x)' \/ readers'[x].content = participant'.content[x]
    <3>1. readers'[t].content = participant.content[t]
      BY <1>1
    <3> QED BY <1>1, <1>5, <3>1 DEF FilterInv, ContentTold
  <2>2. todo' # <<>> /\ todo'[1].do = "readers content" =>
          participant'.content[todo'[1].topic] = ExpressionOf(todo'[1].topic)
    <3>1. todo # <<>> /\ todo[1].do = "readers content" =>
            participant.content[todo[1].topic] = ExpressionOf(todo[1].topic)
      BY DEF FilterInv, ContentTold
    <3> QED BY <1>1, <3>1
  <2> QED BY <1>1, <2>1, <2>2 DEF ContentTold, ExpressionOf
<1>9. DictionaryTold'
  BY <1>1, <1>5 DEF FilterInv, DictionaryTold, ExpressionOf
<1>10. DecisionsRight'
  BY <1>1 DEF FilterInv, DecisionsRight, DecisionRight, KnownEndpoints, Passes
<1>11. EndpointsDecided'
  BY <1>1, <1>5 DEF FilterInv, EndpointsDecided, KnownEndpoints, Passes
<1>12. Ordered(todo)'
  BY <1>1 DEF FilterInv
<1> QED BY <1>4, <1>7, <1>8, <1>9, <1>10, <1>11, <1>12 DEF FilterInv


(* Discovery goes on whatever the console does: it adds entries and changes  *)
(* those it notes.                                                           *)
LEMMA DiscoverKeeps ==
  ASSUME FilterInv, Discover
  PROVE  FilterInv'
<1>1. /\ partitionFilter' = partitionFilter /\ topicFilter' = topicFilter /\ todo' = todo
      /\ participant' = participant /\ unheard' = unheard /\ readers' = readers
      /\ DiscoveryNext
      /\ touched' = IF NewEndpointInfo THEN touched \cup {Head(queue["endpoints"]).guid} ELSE touched
  BY DEF Discover
<1>2. DiscoveryTypeOK /\ DiscoveryTypeOK'
  BY <1>1, DiscoveryTypeStep DEF FilterInv, FilterTypeOK
<1>3. touched \subseteq touched' /\ touched' \subseteq Endpoints
  <2>1. CASE NewEndpointInfo
    <3>1. queue["endpoints"] # <<>> /\ "endpoints" \in Channels
      BY <2>1 DEF NewEndpointInfo, Channels
    <3>2. Head(queue["endpoints"]).guid \in Guids /\ ChannelOf(Head(queue["endpoints"]).guid) = "endpoints"
      BY <1>2, <3>1, FirstOfQueue DEF Info
    <3>3. Head(queue["endpoints"]).guid \in Endpoints
      BY <3>2, ChannelsOfGuids
    <3> QED BY <1>1, <2>1, <3>3 DEF FilterInv, FilterTypeOK
  <2>2. CASE ~NewEndpointInfo
    BY <1>1, <2>2 DEF FilterInv, FilterTypeOK
  <2> QED BY <2>1, <2>2
<1>4. /\ DOMAIN database \subseteq DOMAIN database'
      /\ \A e \in Endpoints \cap DOMAIN database' : e \notin touched' =>
           e \in DOMAIN database /\ database'[e] = database[e]
  <2>1. CASE Network \/ Notify \/ WriterDiscovered
    <3>1. database' = database
      BY <2>1 DEF Network, Announce, Notify, WriterDiscovered
    <3> QED BY <3>1
  <2>2. CASE NewParticipantInfo
    <3> DEFINE info == Head(queue["participants"])
    <3>1. queue["participants"] # <<>> /\ "participants" \in Channels
      BY <2>2 DEF NewParticipantInfo, Channels
    <3>2. info.guid \in Guids /\ ChannelOf(info.guid) = "participants"
      BY <1>2, <3>1, FirstOfQueue DEF Info
    <3>3. info.guid \notin Endpoints
      BY <3>2, ChannelsOfGuids, DiscoveryConstants
    <3>4. database' = Stored(database, info)
      BY <2>2 DEF NewParticipantInfo
    <3> HIDE DEF info
    <3> QED BY <3>3, <3>4 DEF Stored
  <2>3. CASE NewEndpointInfo
    <3> DEFINE info == Head(queue["endpoints"])
    <3>1. database' = Stored(database, info)
      BY <2>3 DEF NewEndpointInfo
    <3>2. info.guid \in touched'
      BY <1>1, <2>3
    <3> HIDE DEF info
    <3> QED BY <3>1, <3>2 DEF Stored
  <2> QED BY <1>1, <2>1, <2>2, <2>3 DEF DiscoveryNext
<1>5. KnownEndpoints \subseteq KnownEndpoints'
  BY <1>4 DEF KnownEndpoints
<1>6. \A e \in KnownEndpoints' \ touched' : e \in KnownEndpoints \ touched /\ database'[e] = database[e]
  BY <1>3, <1>4 DEF KnownEndpoints
<1>7. FilterTypeOK'
  BY <1>1, <1>2, <1>3 DEF FilterInv, FilterTypeOK
<1>8. Ordered(todo)'
  BY <1>1 DEF FilterInv
<1>9. /\ \A what : Pending(what)' = Pending(what)
      /\ \A what, x : PendingOn(what, x)' = PendingOn(what, x)
      /\ \A x : ToWalk(x)' = ToWalk(x)
      /\ \A e : ToFetch(e)' = ToFetch(e)
      /\ \A e : ToStore(e)' = ToStore(e)
  BY <1>1 DEF Pending, PendingOn, ToWalk, ToFetch, ToStore
<1>10. PartitionsTold'
  BY <1>1, <1>9 DEF FilterInv, PartitionsTold
<1>11. ContentTold'
  BY <1>1 DEF FilterInv, ContentTold, PendingOn, ExpressionOf
<1>12. DictionaryTold'
  BY <1>1, <1>9 DEF FilterInv, DictionaryTold, ExpressionOf
<1>13. DecisionsRight'
  <2>1. ASSUME NEW x, DecisionRight(x) PROVE DecisionRight(x)'
    <3>1. x.do = "each endpoint" =>
            /\ DOMAIN x.decided \subseteq KnownEndpoints'
            /\ \A e \in DOMAIN x.decided \ touched' : x.decided[e] = Passes(database[e].qos) /\ e \in KnownEndpoints'
      BY <1>3, <1>5, <2>1 DEF DecisionRight
    <3>2. x.do = "store" =>
            /\ x.guid \in KnownEndpoints'
            /\ x.guid \notin touched' =>
                 x.qos = database[x.guid].qos /\ x.active = Passes(database[x.guid].qos)
      BY <1>3, <1>5, <2>1 DEF DecisionRight
    <3>3. \A e \in KnownEndpoints' \ touched' : Passes(database[e].qos)' = Passes(database[e].qos)
      BY <1>1, <1>6 DEF Passes
    <3> QED BY <1>6, <3>1, <3>2, <3>3 DEF DecisionRight
  <2>2. ASSUME NEW j \in DOMAIN todo', NEW x, x = todo'[j] PROVE DecisionRight(x)'
    <3>1. DecisionRight(x)
      BY <1>1, <2>2 DEF FilterInv, DecisionsRight
    <3> QED BY <2>1, <3>1
  <2> QED BY <2>2 DEF DecisionsRight, DecisionRight
<1>14. EndpointsDecided'
  BY <1>1, <1>6, <1>9 DEF FilterInv, EndpointsDecided, Passes
<1> QED BY <1>7, <1>8, <1>10, <1>11, <1>12, <1>13, <1>14 DEF FilterInv

-----------------------------------------------------------------------------
(* A new command. *)

Has(steps, what) == \E i \in DOMAIN steps : steps[i].do = what
HasOn(steps, what, t) == \E i \in DOMAIN steps : steps[i].do = what /\ steps[i].topic = t

(* What a command has to announce in its updates: a partition filter to      *)
(* everybody, with a scan after it, and a topic's filter, if somebody will   *)
(* be told of it at all.                                                     *)
LEMMA CommandKeeps ==
  ASSUME FilterInv, NEW steps \in Seq(Steps), steps # <<>>, Command(steps),
         Ordered(steps), Quiet(steps), ~TellsReadersFirst(steps),
         partitionFilter' \subseteq Patterns,
         DOMAIN topicFilter' \subseteq Topics, \A t \in DOMAIN topicFilter' : topicFilter'[t] \in Contents,
         unheard' \subseteq Topics,
         \/ partitionFilter' = partitionFilter
         \/ Has(steps, "participant partitions") /\ Has(steps, "readers partitions") /\ Has(steps, "scan"),
         \A t \in Topics \ unheard' :
           \/ Has(steps, "topics") \/ HasOn(steps, "participant content", t)
           \/ t \notin unheard /\ ExpressionOf(t)' = ExpressionOf(t)
  PROVE  FilterInv'
<1>1. /\ todo = <<>> /\ todo' = steps /\ participant' = participant /\ readers' = readers
      /\ touched' = touched /\ database' = database /\ UNCHANGED discoveryVars
  BY DEF Command, discoveryVars, pathVars
<1>2. DOMAIN todo = {}
  BY <1>1, NoIndices, Zenon
<1>3. /\ \A what : ~Pending(what) /\ (Has(steps, what) <=> Pending(what)')
      /\ \A what, t : ~PendingOn(what, t) /\ (HasOn(steps, what, t) <=> PendingOn(what, t)')
      /\ \A t : ~ToWalk(t)
      /\ \A e : ~ToFetch(e) /\ ~ToStore(e)
  BY <1>1, <1>2 DEF Pending, PendingOn, ToWalk, ToFetch, ToStore, Has, HasOn
<1>4. FilterTypeOK'
  <2>1. DiscoveryTypeOK'
    BY <1>1, DiscoveryTypeStep DEF FilterInv, FilterTypeOK
  <2> QED BY <1>1, <2>1 DEF FilterInv, FilterTypeOK
<1>5. PartitionsTold'
  BY <1>1, <1>3 DEF FilterInv, PartitionsTold
<1>6. ContentTold'
  <2>1. \A t \in DOMAIN readers : readers[t].content = participant.content[t]
    BY <1>3 DEF FilterInv, ContentTold
  <2>2. ~(todo' # <<>> /\ todo'[1].do = "readers content")
    BY <1>1 DEF TellsReadersFirst
  <2> QED BY <1>1, <2>1, <2>2 DEF ContentTold
<1>7. DictionaryTold'
  BY <1>1, <1>3 DEF FilterInv, DictionaryTold
<1>8. DecisionsRight'
  <2>1. ASSUME NEW j \in DOMAIN todo', NEW x, x = todo'[j] PROVE DecisionRight(x)'
    BY <1>1, <2>1 DEF Quiet, DecisionRight
  <2> QED BY <2>1 DEF DecisionsRight, DecisionRight
<1>9. EndpointsDecided'
  <2>1. \A e \in KnownEndpoints \ touched : database[e].active = Passes(database[e].qos)
    BY <1>3 DEF FilterInv, EndpointsDecided
  <2> QED BY <1>1, <1>3, <2>1 DEF EndpointsDecided, KnownEndpoints, Passes
<1>10. Ordered(todo)'
  BY <1>1
<1> QED BY <1>4, <1>5, <1>6, <1>7, <1>8, <1>9, <1>10 DEF FilterInv


(* The updates of the commands. *)
LEMMA UpdatePartitionsOrdered ==
  LET s == UpdatePartitions IN
  /\ s \in Seq(Steps) /\ s # <<>> /\ Ordered(s) /\ Quiet(s) /\ ~TellsReadersFirst(s)
  /\ Has(s, "participant partitions") /\ Has(s, "readers partitions") /\ Has(s, "scan")
<1> DEFINE s == UpdatePartitions
<1>1. PICK a : a = Do("participant partitions")
  OBVIOUS
<1>2. PICK b : b = Do("readers partitions")
  OBVIOUS
<1>3. PICK c : c = Do("scan")
  OBVIOUS
<1>4. a \in Steps /\ b \in Steps /\ c \in Steps
  BY <1>1, <1>2, <1>3, StepsMade
<1>5. a.do = "participant partitions" /\ b.do = "readers partitions" /\ c.do = "scan"
  BY <1>1, <1>2, <1>3, StepsMade
<1>6. s = <<a, b, c>>
  BY <1>1, <1>2, <1>3 DEF UpdatePartitions
<1> HIDE DEF s
<1>7. s \in Seq(Steps) /\ Len(s) = 3 /\ s[1] = a /\ s[2] = b /\ s[3] = c
  BY <1>4, <1>6
<1>8. DOMAIN s = {1, 2, 3} /\ s # <<>>
  <2>1. DOMAIN s = 1..3
    BY <1>7, LenProperties
  <2>2. Len(s) # Len(<<>>)
    BY <1>7, EmptySeq
  <2> QED BY <2>1, <2>2, Indices, Zenon
<1>9. Ordered(s)
  <2>1. 1 + 1 = 2
    BY Indices, Zenon
  <2>2. 1 + 1 \in DOMAIN s /\ s[1 + 1].do = "readers partitions"
    BY <1>5, <1>7, <1>8, <2>1
  <2>3. \A i \in DOMAIN s :
          \/ i = 1 /\ s[i].do = "participant partitions"
          \/ s[i].do \in {"readers partitions", "scan"}
    BY <1>5, <1>7, <1>8
  <2> QED BY <2>2, <2>3 DEF Ordered
<1>10. Quiet(s) /\ ~TellsReadersFirst(s)
  BY <1>5, <1>7, <1>8 DEF Quiet, TellsReadersFirst
<1>11. Has(s, "participant partitions") /\ Has(s, "readers partitions") /\ Has(s, "scan")
  BY <1>5, <1>7, <1>8 DEF Has
<1> QED BY <1>7, <1>8, <1>9, <1>10, <1>11 DEF s

LEMMA UpdateTopicsOrdered ==
  LET s == UpdateTopics IN
  /\ s \in Seq(Steps) /\ s # <<>> /\ Ordered(s) /\ Quiet(s) /\ ~TellsReadersFirst(s)
  /\ Has(s, "topics")
<1>1. PICK x : x = Do("topics")
  OBVIOUS
<1>2. x \in Steps /\ x.do = "topics"
  BY <1>1, StepsMade
<1>3. Interruptible(x) /\ x.do # "participant partitions"
  BY <1>2 DEF Interruptible
<1>4. <<x>> \in Seq(Steps) /\ <<x>> # <<>> /\ DOMAIN <<x>> = {1} /\ <<x>>[1] = x /\ Ordered(<<x>>)
  BY <1>2, <1>3, OneStep
<1>5. UpdateTopics = <<x>>
  BY <1>1 DEF UpdateTopics
<1>6. Quiet(<<x>>) /\ ~TellsReadersFirst(<<x>>) /\ Has(<<x>>, "topics")
  BY <1>2, <1>4 DEF Quiet, TellsReadersFirst, Has
<1> QED BY <1>4, <1>5, <1>6

LEMMA UpdateBothOrdered ==
  LET s == UpdatePartitions \o UpdateTopics IN
  /\ s \in Seq(Steps) /\ s # <<>> /\ Ordered(s) /\ Quiet(s) /\ ~TellsReadersFirst(s)
  /\ Has(s, "participant partitions") /\ Has(s, "readers partitions") /\ Has(s, "scan")
  /\ Has(s, "topics")
<1> DEFINE a == UpdatePartitions
           b == UpdateTopics
           s == a \o b
<1>1. /\ a \in Seq(Steps) /\ a # <<>> /\ Ordered(a) /\ Quiet(a) /\ ~TellsReadersFirst(a)
      /\ Has(a, "participant partitions") /\ Has(a, "readers partitions") /\ Has(a, "scan")
  BY UpdatePartitionsOrdered
<1>2. /\ b \in Seq(Steps) /\ Ordered(b) /\ Quiet(b) /\ ~TellsReadersFirst(b)
      /\ Has(b, "topics")
  BY UpdateTopicsOrdered
<1> HIDE DEF a, b
<1>3. /\ s \in Seq(Steps) /\ s # <<>> /\ Ordered(s) /\ Quiet(s) /\ ~TellsReadersFirst(s)
      /\ \A i \in DOMAIN a : \E j \in DOMAIN s : s[j] = a[i]
      /\ \A i \in DOMAIN b : \E j \in DOMAIN s : s[j] = b[i]
  BY <1>1, <1>2, OrderedJoined
<1> HIDE DEF s
<1>4. \A what : Has(a, what) \/ Has(b, what) => Has(s, what)
  BY <1>3 DEF Has
<1> QED BY <1>1, <1>2, <1>3, <1>4 DEF s, a, b


LEMMA FilterCommandKeeps ==
  ASSUME FilterInv, FilterCommand
  PROVE  FilterInv'
<1>1. /\ partitionFilter \subseteq Patterns /\ DOMAIN topicFilter \subseteq Topics /\ unheard \subseteq Topics
      /\ \A t \in DOMAIN topicFilter : topicFilter[t] \in Contents
      /\ NoExpression \in Contents /\ Expressions \subseteq Contents
  BY DEF FilterInv, FilterTypeOK, Contents
<1>2. CASE ClearFilters
  <2>1. PICK steps : steps = UpdatePartitions \o UpdateTopics
    OBVIOUS
  <2>2. /\ Command(steps) /\ partitionFilter' = {} /\ unheard' = unheard
        /\ topicFilter' = [t \in DOMAIN topicFilter |-> NoExpression]
    BY <1>2, <2>1 DEF ClearFilters
  <2>3. /\ steps \in Seq(Steps) /\ steps # <<>> /\ Ordered(steps) /\ Quiet(steps) /\ ~TellsReadersFirst(steps)
        /\ Has(steps, "participant partitions") /\ Has(steps, "readers partitions") /\ Has(steps, "scan")
        /\ Has(steps, "topics")
    BY <2>1, UpdateBothOrdered
  <2>4. DOMAIN topicFilter' \subseteq Topics /\ \A t \in DOMAIN topicFilter' : topicFilter'[t] \in Contents
    BY <1>1, <2>2
  <2> QED BY <1>1, <2>2, <2>3, <2>4, CommandKeeps
<1>3. CASE ClearTopics
  <2>1. PICK steps : steps = UpdateTopics
    OBVIOUS
  <2>2. /\ Command(steps) /\ partitionFilter' = partitionFilter /\ unheard' = unheard
        /\ topicFilter' = [t \in {} |-> NoExpression]
    BY <1>3, <2>1 DEF ClearTopics
  <2>3. /\ steps \in Seq(Steps) /\ steps # <<>> /\ Ordered(steps) /\ Quiet(steps) /\ ~TellsReadersFirst(steps)
        /\ Has(steps, "topics")
    BY <2>1, UpdateTopicsOrdered
  <2>4. DOMAIN topicFilter' \subseteq Topics /\ \A t \in DOMAIN topicFilter' : topicFilter'[t] \in Contents
    BY <2>2
  <2> QED BY <1>1, <2>2, <2>3, <2>4, CommandKeeps
<1>4. ASSUME NEW f, ClearPartitions \/ (f \in Patterns /\ (AddPartition(f) \/ RemovePartition(f)))
      PROVE  FilterInv'
  <2>1. PICK steps : steps = UpdatePartitions
    OBVIOUS
  <2>2. /\ Command(steps) /\ topicFilter' = topicFilter /\ unheard' = unheard
        /\ partitionFilter' \subseteq Patterns
    BY <1>1, <1>4, <2>1 DEF ClearPartitions, AddPartition, RemovePartition
  <2>3. /\ steps \in Seq(Steps) /\ steps # <<>> /\ Ordered(steps) /\ Quiet(steps) /\ ~TellsReadersFirst(steps)
        /\ Has(steps, "participant partitions") /\ Has(steps, "readers partitions") /\ Has(steps, "scan")
    BY <2>1, UpdatePartitionsOrdered
  <2>4. \A t : ExpressionOf(t)' = ExpressionOf(t)
    BY <2>2 DEF ExpressionOf
  <2> QED BY <1>1, <2>2, <2>3, <2>4, CommandKeeps
<1>5. ASSUME NEW t \in Topics, RemoveTopic(t) PROVE FilterInv'
  <2>1. PICK steps : steps = UpdatePartitions
    OBVIOUS
  <2>2. /\ Command(steps) /\ partitionFilter' = partitionFilter /\ unheard' = unheard \cup {t}
        /\ topicFilter' = [topicFilter EXCEPT ![t] = NoExpression]
    BY <1>5, <2>1 DEF RemoveTopic
  <2>3. /\ steps \in Seq(Steps) /\ steps # <<>> /\ Ordered(steps) /\ Quiet(steps) /\ ~TellsReadersFirst(steps)
    BY <2>1, UpdatePartitionsOrdered
  <2>4. DOMAIN topicFilter' \subseteq Topics /\ \A x \in DOMAIN topicFilter' : topicFilter'[x] \in Contents
    BY <1>1, <2>2
  <2>5. \A x \in Topics \ unheard' : x \notin unheard /\ ExpressionOf(x)' = ExpressionOf(x)
    BY <2>2 DEF ExpressionOf
  <2>6. unheard' \subseteq Topics
    BY <1>1, <2>2
  <2> QED BY <1>1, <2>2, <2>3, <2>4, <2>5, <2>6, CommandKeeps
<1>6. ASSUME NEW t \in Topics, NEW x \in Expressions, SetTopic(t, x) PROVE FilterInv'
  <2>1. PICK steps : steps = UpdateContent(t)
    OBVIOUS
  <2>2. /\ Command(steps) /\ partitionFilter' = partitionFilter /\ unheard' = unheard \ {t}
        /\ topicFilter' = [y \in DOMAIN topicFilter \cup {t} |-> IF y = t THEN x ELSE topicFilter[y]]
    BY <1>6, <2>1 DEF SetTopic
  <2>3. /\ steps \in Seq(Steps) /\ steps # <<>> /\ Ordered(steps) /\ Quiet(steps) /\ ~TellsReadersFirst(steps)
        /\ DOMAIN steps = {1, 2} /\ steps[1] = DoOn("participant content", t)
    BY <2>1, ContentOrdered
  <2>4. DOMAIN topicFilter' \subseteq Topics /\ \A y \in DOMAIN topicFilter' : topicFilter'[y] \in Contents
    BY <1>1, <2>2
  <2>5. HasOn(steps, "participant content", t)
    <3>1. DoOn("participant content", t).do = "participant content"
      BY StepsMade
    <3>2. DoOn("participant content", t).topic = t
      BY StepsMade, Zenon
    <3> QED BY <2>3, <3>1, <3>2 DEF HasOn
  <2>6. \A y \in Topics \ unheard' : y = t \/ (y \notin unheard /\ ExpressionOf(y)' = ExpressionOf(y))
    BY <2>2 DEF ExpressionOf
  <2>7. unheard' \subseteq Topics
    BY <1>1, <2>2
  <2>8. \A y \in Topics \ unheard' :
          \/ HasOn(steps, "participant content", y)
          \/ y \notin unheard /\ ExpressionOf(y)' = ExpressionOf(y)
    BY <2>5, <2>6
  <2> QED BY <1>1, <2>2, <2>3, <2>4, <2>7, <2>8, CommandKeeps
<1> QED BY <1>2, <1>3, <1>4, <1>5, <1>6 DEF FilterCommand


-----------------------------------------------------------------------------
(* The theorems. *)

LEMMA FilterInvInit == FilterInit => FilterInv
<1> SUFFICES ASSUME FilterInit PROVE FilterInv
  OBVIOUS
<1>1. DiscoveryTypeOK
  BY DiscoveryTypeInit DEF FilterInit
<1>2. PICK T \in SUBSET Topics : topicFilter \in [T -> Expressions]
  BY DEF FilterInit
<1>3. \A t : ExpressionOf(t) \in Contents
  BY <1>2 DEF ExpressionOf, Contents
<1>4. /\ partitionFilter \subseteq Patterns /\ touched = {} /\ unheard = {} /\ todo = <<>>
      /\ participant = [partitions |-> partitionFilter, content |-> [t \in Topics |-> ExpressionOf(t)]]
      /\ DOMAIN readers = {} /\ KnownEndpoints = {}
  BY DEF FilterInit, DiscoveryInit, KnownEndpoints
<1>5. DOMAIN todo = {}
  BY <1>4, NoIndices, Zenon
<1>6. todo \in Seq(Steps)
  BY <1>4, EmptySeq
<1>7. FilterTypeOK
  <2>1. participant \in [partitions : SUBSET Patterns, content : [Topics -> Contents]]
    BY <1>3, <1>4
  <2>2. DOMAIN topicFilter \subseteq Topics /\ \A t \in DOMAIN topicFilter : topicFilter[t] \in Contents
    BY <1>2 DEF Contents
  <2> QED BY <1>1, <1>4, <1>6, <2>1, <2>2 DEF FilterTypeOK
<1>8. Ordered(todo)
  BY <1>5 DEF Ordered
<1>9. PartitionsTold
  BY <1>4 DEF PartitionsTold
<1>10. ContentTold
  BY <1>4 DEF ContentTold
<1>11. DictionaryTold
  BY <1>4 DEF DictionaryTold
<1>12. DecisionsRight
  BY <1>5 DEF DecisionsRight
<1>13. EndpointsDecided
  BY <1>4 DEF EndpointsDecided
<1> QED BY <1>7, <1>8, <1>9, <1>10, <1>11, <1>12, <1>13 DEF FilterInv

LEMMA FilterInvStep == FilterInv /\ [FilterNext]_allVars => FilterInv'
<1> SUFFICES ASSUME FilterInv, [FilterNext]_allVars PROVE FilterInv'
  OBVIOUS
<1>1. CASE Discover
  BY <1>1, DiscoverKeeps
<1>2. CASE FilterCommand
  BY <1>2, FilterCommandKeeps
<1>3. CASE Proceed
  BY <1>3, TellParticipantPartitionsKeeps, TellReadersPartitionsKeeps, TellParticipantContentKeeps,
     TellReadersContentKeeps, WalkTopicsKeeps, NextTopicKeeps, ScanKeeps, FetchKeeps, StoreKeeps DEF Proceed
<1>4. CASE \E t \in Topics : CreateReader(t)
  BY <1>4, CreateReaderKeeps
<1>5. CASE UNCHANGED allVars
  <2>1. /\ UNCHANGED discoveryVars /\ database' = database /\ readers' = readers /\ todo' = todo
        /\ partitionFilter' = partitionFilter /\ topicFilter' = topicFilter
        /\ participant' = participant /\ touched' = touched /\ unheard' = unheard
    BY <1>5 DEF allVars, filterVars, discoveryVars, pathVars
  <2>2. DiscoveryTypeOK'
    BY <2>1, DiscoveryTypeStep DEF FilterInv, FilterTypeOK
  <2>3. FilterTypeOK'
    BY <2>1, <2>2 DEF FilterInv, FilterTypeOK
  <2>4. PartitionsTold'
    BY <2>1 DEF FilterInv, PartitionsTold, Pending
  <2>5. ContentTold'
    BY <2>1 DEF FilterInv, ContentTold, PendingOn, ExpressionOf
  <2>6. DictionaryTold'
    BY <2>1 DEF FilterInv, DictionaryTold, Pending, PendingOn, ToWalk, ExpressionOf
  <2>7. DecisionsRight'
    BY <2>1 DEF FilterInv, DecisionsRight, DecisionRight, KnownEndpoints, Passes
  <2>8. EndpointsDecided'
    BY <2>1 DEF FilterInv, EndpointsDecided, Pending, ToFetch, ToStore, KnownEndpoints, Passes
  <2>9. Ordered(todo)'
    BY <2>1 DEF FilterInv
  <2> QED BY <2>3, <2>4, <2>5, <2>6, <2>7, <2>8, <2>9 DEF FilterInv
<1> QED BY <1>1, <1>2, <1>3, <1>4, <1>5 DEF FilterNext

LEMMA NothingLeft ==
  ASSUME FilterInv, todo = <<>>
  PROVE  /\ \A what : ~Pending(what)
         /\ \A what, t : ~PendingOn(what, t)
         /\ \A t : ~ToWalk(t)
         /\ \A e : ~ToFetch(e) /\ ~ToStore(e)
<1>1. DOMAIN todo = {}
  BY NoIndices, Zenon
<1> QED BY <1>1 DEF Pending, PendingOn, ToWalk, ToFetch, ToStore

LEMMA FilterInvHolds == FilterSpec => []FilterInv
BY FilterInvInit, FilterInvStep, PTL DEF FilterSpec

(* The filters, the readers and what is left of a command keep their types.  *)
THEOREM FilterTypes == FilterSpec => []FilterTypeOK
<1>1. FilterInv => FilterTypeOK
  BY DEF FilterInv
<1> QED BY <1>1, FilterInvHolds, PTL

(* Backend::update_readers_track_partitions and ..._content_filter: between  *)
(* two commands every reader, even one the pipe created in the middle of a   *)
(* command, has the filters of the console and of the participant.           *)
THEOREM FiltersReachReaders == FilterSpec => []ReadersAgree
<1>1. FilterInv => ReadersAgree
  <2> SUFFICES ASSUME FilterInv, todo = <<>>, NEW t \in DOMAIN readers
               PROVE  readers[t] = [partitions |-> partitionFilter, content |-> participant.content[t]]
    BY DEF ReadersAgree
  <2>1. readers[t] \in [partitions : SUBSET Patterns, content : Contents]
    BY DEF FilterInv, FilterTypeOK
  <2>2. readers[t].partitions = partitionFilter
    BY NothingLeft DEF FilterInv, PartitionsTold
  <2>3. readers[t].content = participant.content[t]
    BY NothingLeft DEF FilterInv, ContentTold
  <2> QED BY <2>1, <2>2, <2>3
<1> QED BY <1>1, FilterInvHolds, PTL

(* update_topics and update_content_topicfilter: between two commands the    *)
(* readers to come get the content filters of the console's dictionary.      *)
THEOREM DictionaryReachesParticipant == FilterSpec => []DictionaryInForce
<1>1. FilterInv => DictionaryInForce
  BY NothingLeft DEF FilterInv, DictionaryTold, DictionaryInForce
<1> QED BY <1>1, FilterInvHolds, PTL

(* update_endpoints: between two commands the partition filter has decided   *)
(* of every endpoint that discovery has left alone whether it is active.     *)
THEOREM FilterHasDecided == FilterSpec => []FilterDecides
<1>1. FilterInv => FilterDecides
  BY NothingLeft DEF FilterInv, EndpointsDecided, FilterDecides
<1> QED BY <1>1, FilterInvHolds, PTL

(* update_endpoints stores an entry it has copied earlier: what it changes   *)
(* of an endpoint discovery has left alone is the active flag only.          *)
THEOREM ConsoleChangesFlags == FilterSpec => OnlyActiveChanges
<1>1. FilterInv /\ [FilterNext]_allVars =>
        [\A e \in KnownEndpoints :
           Store /\ database'[e].qos # database[e].qos => e \in touched]_allVars
  <2> SUFFICES ASSUME FilterInv, NEW e \in KnownEndpoints, Store, e \notin touched
               PROVE  database'[e].qos = database[e].qos
    OBVIOUS
  <2>1. Next1("store")
    BY DEF Store
  <2>2. PICK x : x = todo[1] /\ x = Head(todo)
    BY <2>1, NextStep
  <2>3. x.do = "store" /\ DecisionRight(x)
    BY <2>1, <2>2, NextStep DEF FilterInv, DecisionsRight
  <2>4. database' = Stored(database, x)
    BY <2>2 DEF Store
  <2>5. CASE e = x.guid
    <3>1. x.qos = database[e].qos
      BY <2>3, <2>5 DEF DecisionRight
    <3> QED BY <2>4, <2>5, <3>1 DEF Stored
  <2>6. CASE e # x.guid
    BY <2>4, <2>6 DEF Stored, KnownEndpoints
  <2> QED BY <2>5, <2>6
<1> QED BY <1>1, FilterInvHolds, PTL DEF FilterSpec, OnlyActiveChanges


=============================================================================
