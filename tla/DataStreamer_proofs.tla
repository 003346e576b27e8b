------------------------- MODULE DataStreamer_proofs -------------------------
(***************************************************************************)
(* What holds of the data path for every number of tracks, topics, types,  *)
(* samples and print commands: a print shows what its user asked for, an   *)
(* instance has a type and a rate, a rate is that of its window, and the   *)
(* cache, used as the streamer uses it, keeps everything that is proved of *)
(* it alone.                                                               *)
(***************************************************************************)
EXTENDS DataStreamer, InstanceCache_proofs, WellFoundedInduction

(* What a sample carries.  Before it reaches the cache it has been counted,  *)
(* and once it has been checked its type has a schema.  It notes the command *)
(* of its check, never one to come; if it is to be printed there was one,    *)
(* and while that one is the latest it asks for the topic of the sample and  *)
(* the callback is its own.                                                  *)
Fits(tr, s) ==
  /\ s.pc \in {"counted", "checked"} => tr \in DOMAIN rateData
  /\ s.pc = "checked" => TypeOf[tr] \in typesDiscovered
  /\ s.pc \in {"checked", "cached", "loaded", "called"} => s.command <= command.number
  /\ s.pc \in {"checked", "cached"} /\ s.print =>
       s.command # 0 /\ (s.command = command.number => TopicOf[tr] \in command.topics)
  /\ s.pc \in {"loaded", "called"} /\ s.command = command.number =>
       s.callback = command.number /\ TopicOf[tr] \in command.topics

SamplesFit == \A tr \in Tracks : Fits(tr, sample[tr])

(* So does the call of the cache it is in.                                   *)
CallsFit ==
  \A tr \in Tracks :
    call[tr] # Idle => tr \in DOMAIN rateData /\ TypeOf[tr] \in typesDiscovered

(* What is activated is what the running command asks for. *)
ActivatedAsAsked ==
  command.running =>
    /\ command.number # 0
    /\ \A tr \in Tracks : Matches(tr) => TopicOf[tr] \in command.topics

(* The inductive invariant. *)
DataInv ==
  /\ StreamTypeOK
  /\ SamplesFit
  /\ CallsFit
  /\ ActivatedAsAsked
  /\ InstancesHaveTypeAndRate

-----------------------------------------------------------------------------
(* The rate.  Arithmetic of the modulus first. *)

LEMMA DivisionIs ==
  ASSUME NEW i \in Nat, NEW m \in Nat \ {0}
  PROVE  i \div m \in Nat /\ i % m \in 0..m - 1 /\ i - (i \div m) * m = i % m
OBVIOUS

LEMMA RemainderIs ==
  ASSUME NEW q \in Nat, NEW m \in Nat \ {0}, NEW r \in 0..m - 1
  PROVE  (q * m + r) % m = r
OBVIOUS

LEMMA NextRemainder ==
  ASSUME NEW i \in Nat, NEW m \in Nat \ {0}
  PROVE  ((i % m) + 1) % m = (i + 1) % m
<1>1. PICK q \in Nat, r \in 0..m - 1 : q = i \div m /\ r = i % m /\ i - q * m = r
  BY DivisionIs
<1>2. CASE r + 1 < m
  <2>1. PICK n \in 0..m - 1 : n = r + 1
    BY <1>2
  <2>2. (q * m + n) % m = n /\ (0 * m + n) % m = n
    BY RemainderIs
  <2>3. q * m \in Nat /\ q * m + n = i + 1 /\ 0 * m + n = r + 1
    BY <1>1, <2>1
  <2> QED BY <1>1, <2>2, <2>3
<1>3. CASE r + 1 = m
  <2>1. PICK n \in Nat : n = q + 1
    OBVIOUS
  <2>2. (n * m + 0) % m = 0 /\ (1 * m + 0) % m = 0
    BY RemainderIs
  <2>3. n * m + 0 = i + 1
    BY <1>1, <1>3, <2>1
  <2>4. 1 * m + 0 = r + 1
    BY <1>3
  <2> QED BY <1>1, <2>2, <2>3, <2>4
<1> QED BY <1>1, <1>2, <1>3

(* Where the window of one sample more begins. *)
LEMMA NextWindow ==
  ASSUME NEW i \in Nat \ {0}, CounterModulus \in Nat \ {0}
  PROVE  Window(i + 1) = IF i % CounterModulus = 0 THEN i + 1 ELSE Window(i)
<1>1. (i + 1) - 1 = i
  OBVIOUS
<1>2. CASE i % CounterModulus = 0
  <2>1. i - (i \div CounterModulus) * CounterModulus = 0 /\ i \div CounterModulus \in Nat
    BY <1>2, DivisionIs
  <2>2. (i \div CounterModulus) * CounterModulus = i
    BY <2>1
  <2> QED BY <1>1, <1>2, <2>2 DEF Window
<1>3. CASE i % CounterModulus # 0
  <2>1. (i - 1) \div CounterModulus = i \div CounterModulus
    BY <1>3
  <2> QED BY <1>1, <1>3, <2>1 DEF Window
<1> QED BY <1>2, <1>3

(* Induction over data: a set that has zero, and each successor of what it   *)
(* has, has every natural number.                                            *)
LEMMA SetInduction ==
  ASSUME NEW S, 0 \in S, \A n \in Nat : n \in S => n + 1 \in S
  PROVE  Nat \subseteq S
<1> SUFFICES ASSUME Nat \ S # {} PROVE FALSE
  OBVIOUS
<1>1. PICK n \in Nat \ S : \A m \in Nat \ S : ~ (<<m, n>> \in OpToRel(<, Nat))
  BY NatLessThanWellFounded, WFMin
<1>2. \A m \in Nat : m < n => <<m, n>> \in OpToRel(<, Nat)
  BY DEF OpToRel
<1>3. n - 1 \in Nat /\ n - 1 < n
  OBVIOUS
<1>4. n - 1 \in S
  BY <1>1, <1>2, <1>3
<1>5. (n - 1) + 1 \in S
  BY <1>3, <1>4
<1> QED BY <1>5

(* The counters after the first k samples of a history, for every k. *)
CountsFrom(info, history, k, after) ==
  after = [n \in 0..k |-> IF n = 0 THEN info ELSE Counted(after[n - 1], history[n])]

LEMMA CountsExist ==
  ASSUME NEW info, NEW history
  PROVE  \A k \in Nat : \E after : CountsFrom(info, history, k, after)
<1> DEFINE T == {k \in Nat : \E after : CountsFrom(info, history, k, after)}
<1>1. 0 \in T
  <2>1. 0..0 = {0} /\ 0 \in Nat
    OBVIOUS
  <2>2. CountsFrom(info, history, 0, [n \in {0} |-> info])
    BY <2>1 DEF CountsFrom
  <2> QED BY <2>1, <2>2
<1>2. ASSUME NEW k \in Nat, k \in T PROVE k + 1 \in T
  <2>1. PICK f : CountsFrom(info, history, k, f)
    BY <1>2
  <2>2. PICK g : g = [n \in 0..k + 1 |-> IF n = k + 1 THEN Counted(f[k], history[n]) ELSE f[n]]
    OBVIOUS
  <2>3. \A n \in 0..k : g[n] = f[n]
    BY <2>2
  <2>4. ASSUME NEW n \in 0..k + 1
        PROVE  g[n] = IF n = 0 THEN info ELSE Counted(g[n - 1], history[n])
    <3>1. CASE n = k + 1
      <4>1. n # 0 /\ n - 1 = k /\ k \in 0..k
        BY <3>1
      <4>2. g[n] = Counted(f[k], history[n])
        BY <2>2, <3>1
      <4> QED BY <2>3, <4>1, <4>2
    <3>2. CASE n # k + 1
      <4>1. n \in 0..k /\ (n # 0 => n - 1 \in 0..k)
        BY <3>2
      <4>2. f[n] = IF n = 0 THEN info ELSE Counted(f[n - 1], history[n])
        BY <2>1, <4>1, Zenon DEF CountsFrom
      <4> QED BY <2>3, <4>1, <4>2, Zenon
    <3> QED BY <3>1, <3>2
  <2>5. CountsFrom(info, history, k + 1, g)
    BY <2>2, <2>4, Zenon DEF CountsFrom
  <2> QED BY <2>5
<1> HIDE DEF T
<1>3. Nat \subseteq T
  BY <1>1, <1>2, SetInduction
<1> QED BY <1>3 DEF T

(* Whatever was counted before, the counters of a history that begins with a *)
(* counter at zero are those of its window.                                  *)
LEMMA RateOfHistory ==
  ASSUME NEW info, info.count = 0, NEW h \in Seq(Nat), h # << >>, CounterModulus \in Nat \ {0}
  PROVE  Quotient(CountedAll(info, h)) =
           [samples |-> Len(h) % CounterModulus, seconds |-> h[Len(h)] - h[Window(Len(h))]]
<1> DEFINE Is(f) == CountsFrom(info, h, Len(h), f)
           after == CHOOSE f : Is(f)
           Shows(k) == after[k] = [count |-> k % CounterModulus, first |-> h[Window(k)], last |-> h[k]]
           T == {j \in Nat : j < Len(h) => Shows(j + 1)}
<1>1. Len(h) \in Nat \ {0}
  OBVIOUS
<1>2. CountedAll(info, h) = after[Len(h)]
  BY DEF CountedAll, CountsFrom
<1>3. \E f : Is(f)
  BY <1>1, CountsExist
<1>4. Is(after)
  BY <1>3, Zenon
<1> HIDE DEF after
<1>5. after[0] = info /\ \A n \in 1..Len(h) : after[n] = Counted(after[n - 1], h[n])
  BY <1>1, <1>4 DEF CountsFrom
<1>6. 0 \in T
  <2>1. after[1] = Counted(info, h[1])
    BY <1>1, <1>5
  <2>2. Window(1) = 1
    <3>1. 0 % CounterModulus = 0 /\ 0 \div CounterModulus = 0
      OBVIOUS
    <3> QED BY <3>1 DEF Window
  <2>3. Shows(1)
    BY <2>1, <2>2 DEF Counted
  <2> QED BY <2>3
<1>7. ASSUME NEW j \in Nat, j \in T PROVE j + 1 \in T
  <2> SUFFICES ASSUME j + 1 < Len(h) PROVE Shows(j + 2)
    OBVIOUS
  <2>1. PICK k \in Nat \ {0} : k = j + 1
    OBVIOUS
  <2>2. k + 1 \in 1..Len(h) /\ (k + 1) - 1 = k /\ k + 1 = j + 2
    BY <1>1, <2>1
  <2>3. after[k] = [count |-> k % CounterModulus, first |-> h[Window(k)], last |-> h[k]]
    BY <1>1, <1>7, <2>1
  <2>4. after[k + 1] = Counted(after[k], h[k + 1])
    BY <1>5, <2>2
  <2>5. after[k + 1] = [count |-> ((k % CounterModulus) + 1) % CounterModulus,
                        first |-> IF k % CounterModulus = 0 THEN h[k + 1] ELSE h[Window(k)],
                        last  |-> h[k + 1]]
    BY <2>3, <2>4 DEF Counted
  <2>6. ((k % CounterModulus) + 1) % CounterModulus = (k + 1) % CounterModulus
    BY NextRemainder
  <2>7. h[Window(k + 1)] = IF k % CounterModulus = 0 THEN h[k + 1] ELSE h[Window(k)]
    BY NextWindow
  <2> QED BY <2>2, <2>5, <2>6, <2>7
<1>8. Nat \subseteq T
  <2> HIDE DEF T
  <2> QED BY <1>6, <1>7, SetInduction
<1>9. Shows(Len(h))
  <2>1. PICK j \in Nat : j + 1 = Len(h)
    <3>1. Len(h) - 1 \in Nat /\ (Len(h) - 1) + 1 = Len(h)
      BY <1>1
    <3> QED BY <3>1
  <2>2. j < Len(h)
    BY <2>1
  <2> QED BY <1>8, <2>1, <2>2
<1> QED BY <1>2, <1>9 DEF Quotient

-----------------------------------------------------------------------------
(* Types. *)

LEMMA SampleShape ==
  ASSUME NEW tr \in Tracks, SampleOK(tr)
  PROVE  /\ Step(tr) = "counted" => sample[tr].handle \in HandlesOf(tr) /\ sample[tr].writer \in Writers
         /\ Step(tr) = "checked" => sample[tr].handle \in HandlesOf(tr) /\ sample[tr].writer \in Writers
         /\ Step(tr) \in {"checked", "cached"} =>
              sample[tr].print \in BOOLEAN /\ sample[tr].command \in 0..MaxCommands
         /\ Step(tr) \in {"loaded", "called"} =>
              sample[tr].callback \in 1..MaxCommands /\ sample[tr].command \in 1..MaxCommands
         /\ Step(tr) = "loaded" => [sample[tr] EXCEPT !.pc = "called"] \in LoadedSamples
<1>1. CASE sample[tr] \in {NoSample, [pc |-> "printing"]}
  BY <1>1 DEF Step, NoSample
<1>2. CASE sample[tr] \in CountedSamples(tr)
  BY <1>2 DEF Step, CountedSamples
<1>3. CASE sample[tr] \in CheckedSamples(tr)
  BY <1>3 DEF Step, CheckedSamples
<1>4. CASE sample[tr] \in CachedSamples
  BY <1>4 DEF Step, CachedSamples
<1>5. CASE sample[tr] \in LoadedSamples
  BY <1>5 DEF Step, LoadedSamples
<1> QED BY <1>1, <1>2, <1>3, <1>4, <1>5 DEF SampleOK

(* A sample that moves on, one track at a time. *)
LEMMA Moved ==
  ASSUME StreamTypeOK, NEW tr \in Tracks, NEW record, Move(tr, record)
  PROVE  /\ DOMAIN sample' = Tracks
         /\ sample'[tr] = record
         /\ \A x \in Tracks : x # tr => sample'[x] = sample[x]
BY DEF StreamTypeOK, Move

(* The streamer uses the cache as the cache expects it. *)
LEMMA CacheStep ==
  ASSUME StreamTypeOK, [DataNext]_dataVars
  PROVE  [Next]_cacheVars
<1>1. ASSUME NEW tr \in Tracks, Cache(tr) PROVE Next
  <2>1. Step(tr) = "checked" /\ BeginCall(tr, sample[tr].handle, sample[tr].writer)
    BY <1>1 DEF Cache
  <2>2. SampleOK(tr)
    BY DEF StreamTypeOK
  <2>3. sample[tr].handle \in HandlesOf(tr) /\ sample[tr].writer \in Writers
    BY <2>1, <2>2, SampleShape
  <2> QED BY <2>1, <2>3 DEF Next
<1>2. ASSUME NEW tr \in Tracks, CacheMore(tr) PROVE Next
  BY <1>2 DEF CacheMore, Next
<1>3. ASSUME NEW t \in Topics, NEW w \in Writers, WriterLeaves(t, w) PROVE Next
  BY <1>3 DEF WriterLeaves, Next
<1>4. ASSUME Console \/ \E type \in Types : AddSchema(type) PROVE UNCHANGED cacheVars
  BY <1>4 DEF Console, PrintAll, PrintTopics, StopPrint, AddSchema
<1>5. ASSUME NEW tr \in Tracks, NEW h, NEW w, NEW stamp, Receive(tr, h, w, stamp)
      PROVE  UNCHANGED cacheVars
  BY <1>5 DEF Receive
<1>6. ASSUME NEW tr \in Tracks, Proceed(tr) PROVE Next \/ UNCHANGED cacheVars
  BY <1>1, <1>2, <1>6 DEF Proceed, DropUntyped, Check, Leave, LoadCallback, CallDead, CallCallback,
     BeginPrint, EndPrint
<1>7. CASE UNCHANGED dataVars
  BY <1>7 DEF dataVars
<1> QED BY <1>3, <1>4, <1>5, <1>6, <1>7 DEF DataNext

-----------------------------------------------------------------------------
(* The cache within the data path. *)

(* An instance keeps the type it is shown with, or was stored by a track.    *)
LEMMA KeysOfInstances ==
  ASSUME TypeOK, [Next]_cacheVars, NEW t \in Topics, NEW h, h \in Cached(t)'
  PROVE  \/ h \in Cached(t) /\ instances'[t][h].key = instances[t][h].key
         \/ \E tr \in Tracks :
              call[tr] # Idle /\ TopicOf[tr] = t /\ instances'[t][h].key = TypeOf[tr]
<1>T. DOMAIN instances = Topics
  BY DEF TypeOK
<1>1. ASSUME instances'[t] = instances[t]
      PROVE  h \in Cached(t) /\ instances'[t][h].key = instances[t][h].key
  BY <1>1 DEF Cached
<1>2. CASE UNCHANGED cacheVars
  BY <1>1, <1>2 DEF cacheVars
<1>3. ASSUME NEW tr \in Tracks, NEW x, NEW w, UpdateCached(tr, x, w)
      PROVE  h \in Cached(t) /\ instances'[t][h].key = instances[t][h].key
  <2> DEFINE top == TopicOf[tr]
  <2>1. /\ top \in Topics /\ x \in Cached(top)
        /\ \A y \in Topics : y # top => instances'[y] = instances[y]
        /\ Cached(top)' = Cached(top)
        /\ \A y \in Cached(top) : y # x => instances'[top][y] = instances[top][y]
    BY <1>3, UpdatedEntry
  <2>2. instances'[top][x].key = instances[top][x].key
    <3>1. instances[top] \in [Cached(top) -> InstanceInfo] /\ instances[top][x] \in InstanceInfo
      BY <2>1, TopicMap
    <3> DEFINE info == [instances[top][x] EXCEPT !.writers = @ \cup {w}]
    <3>2. info.key = instances[top][x].key
      BY <3>1 DEF InstanceInfo
    <3>3. instances' = [instances EXCEPT ![top] = [instances[top] EXCEPT ![x] = info]]
      BY <1>3 DEF UpdateCached
    <3> HIDE DEF info, top
    <3> QED BY <1>T, <2>1, <3>1, <3>2, <3>3
  <2>3. CASE t # top
    BY <1>1, <2>1, <2>3
  <2>4. CASE t = top
    <3>1. h \in Cached(top)
      <4>1. Cached(t)' = DOMAIN instances'[t] /\ Cached(top)' = DOMAIN instances'[top]
        BY DEF Cached
      <4> QED BY <2>1, <2>4, <4>1
    <3> QED BY <2>1, <2>2, <2>4, <3>1
  <2> QED BY <2>3, <2>4
<1>4. ASSUME NEW tr \in Tracks, StoreKey(tr)
      PROVE  \/ h \in Cached(t) /\ instances'[t][h].key = instances[t][h].key
             \/ call[tr] # Idle /\ TopicOf[tr] = t /\ instances'[t][h].key = TypeOf[tr]
  <2> DEFINE top == TopicOf[tr]
             x == call[tr].handle
  <2>1. /\ top \in Topics
        /\ \A y \in Topics : y # top => instances'[y] = instances[y]
        /\ Cached(top)' = Cached(top) \cup {x}
        /\ \A y \in Cached(top) : y # x => instances'[top][y] = instances[top][y]
    BY <1>4, StoredEntry
  <2>2. instances'[top][x].key = TypeOf[tr]
    <3> DEFINE others == IF x \in Cached(top) THEN instances[top][x].writers ELSE {}
               info == [key |-> TypeOf[tr], writers |-> others \cup {call[tr].writer}]
    <3>1. instances' = [instances EXCEPT ![top] = Put(instances[top], x, info)]
      BY <1>4 DEF StoreKey
    <3>2. info.key = TypeOf[tr]
      OBVIOUS
    <3> HIDE DEF info, top, x
    <3>3. Put(instances[top], x, info)[x] = info
      BY DEF Put
    <3> QED BY <1>T, <2>1, <3>1, <3>2, <3>3
  <2>3. CASE t # top
    BY <1>1, <2>1, <2>3
  <2>4. CASE t = top
    <3>1. h \in Cached(top) \cup {x}
      <4>1. Cached(t)' = DOMAIN instances'[t] /\ Cached(top)' = DOMAIN instances'[top]
        BY DEF Cached
      <4> QED BY <2>1, <2>4, <4>1
    <3>2. call[tr] # Idle
      BY <1>4 DEF StoreKey
    <3> QED BY <2>1, <2>2, <2>4, <3>1, <3>2
  <2> QED BY <2>3, <2>4
<1>5. ASSUME NEW y \in Topics, NEW w, RemoveWriter(y, w)
      PROVE  h \in Cached(t) /\ instances'[t][h].key = instances[t][h].key
  <2> DEFINE kept == [x \in {z \in DOMAIN instances[y] : instances[y][z].writers \ {w} # {}} |->
                        [key |-> instances[y][x].key, writers |-> instances[y][x].writers \ {w}]]
  <2>1. instances' = [instances EXCEPT ![y] = kept]
    BY <1>5 DEF RemoveWriter
  <2>2. CASE t # y
    BY <1>1, <1>T, <2>1, <2>2
  <2>3. CASE t = y
    <3>1. instances'[t] = kept /\ h \in DOMAIN kept
      BY <1>T, <2>1, <2>3 DEF Cached
    <3>2. h \in DOMAIN instances[y] /\ kept[h].key = instances[y][h].key
      BY <3>1
    <3> QED BY <2>3, <3>1, <3>2 DEF Cached
  <2> QED BY <2>2, <2>3
<1>6. ASSUME NEW tr \in Tracks, NEW x, NEW w, BeginCall(tr, x, w)
      PROVE  h \in Cached(t) /\ instances'[t][h].key = instances[t][h].key
  BY <1>1, <1>3, <1>6 DEF BeginCall, SkipUnkeyed, RejectFull, BeginSerialize
<1>7. ASSUME NEW tr \in Tracks, DropKey(tr)
      PROVE  h \in Cached(t) /\ instances'[t][h].key = instances[t][h].key
  BY <1>1, <1>7 DEF DropKey
<1> QED BY <1>2, <1>4, <1>5, <1>6, <1>7 DEF Next, FinishCall


(* Instances keep their type and their topic's rate, and new ones have both. *)
LEMMA InstancesKept ==
  ASSUME DataInv, [Next]_cacheVars,
         typesDiscovered \subseteq typesDiscovered', DOMAIN rateData \subseteq DOMAIN rateData'
  PROVE  InstancesHaveTypeAndRate'
<1> SUFFICES ASSUME NEW t \in Topics, NEW h, h \in Cached(t)'
             PROVE  \E tr \in Tracks :
                      /\ TopicOf[tr] = t /\ TypeOf[tr] = instances'[t][h].key
                      /\ TypeOf[tr] \in typesDiscovered' /\ tr \in DOMAIN rateData'
  BY DEF InstancesHaveTypeAndRate
<1>0. TypeOK
  BY DEF DataInv, StreamTypeOK
<1>1. CASE h \in Cached(t) /\ instances'[t][h].key = instances[t][h].key
  <2>1. PICK tr \in Tracks :
          /\ TopicOf[tr] = t /\ TypeOf[tr] = instances[t][h].key
          /\ TypeOf[tr] \in typesDiscovered /\ tr \in DOMAIN rateData
    BY <1>1 DEF DataInv, InstancesHaveTypeAndRate
  <2> QED BY <1>1, <2>1
<1>2. ASSUME NEW tr \in Tracks, call[tr] # Idle, TopicOf[tr] = t, instances'[t][h].key = TypeOf[tr]
      PROVE  /\ TopicOf[tr] = t /\ TypeOf[tr] = instances'[t][h].key
             /\ TypeOf[tr] \in typesDiscovered' /\ tr \in DOMAIN rateData'
  BY <1>2 DEF DataInv, CallsFit
<1> QED BY <1>0, <1>1, <1>2, KeysOfInstances

-----------------------------------------------------------------------------
(* One track moves on with its sample. *)

SampleRecords(tr) ==
  {NoSample, [pc |-> "printing"]}
    \cup CountedSamples(tr) \cup CheckedSamples(tr) \cup CachedSamples \cup LoadedSamples

LEMMA MoveKeeps ==
  ASSUME DataInv, [Next]_cacheVars, NEW tr \in Tracks, NEW s, Move(tr, s),
         s \in SampleRecords(tr), Fits(tr, s)',
         UNCHANGED <<typesDiscovered, activation, command, crashed>>,
         printer' \in Tracks \cup {Nobody},
         DOMAIN rateData \subseteq DOMAIN rateData', CallsFit'
  PROVE  DataInv'
<1>1. /\ DOMAIN sample' = Tracks /\ sample'[tr] = s
      /\ \A x \in Tracks : x # tr => sample'[x] = sample[x]
  BY Moved DEF DataInv
<1>2. typesDiscovered' = typesDiscovered /\ activation' = activation /\ command' = command
      /\ crashed' = crashed
  OBVIOUS
<1>3. StreamTypeOK'
  <2>1. TypeOK'
    BY TypeOKNext DEF DataInv, StreamTypeOK
  <2>2. ASSUME NEW x \in Tracks PROVE SampleOK(x)'
    <3>1. sample'[x] \in SampleRecords(x)
      BY <1>1 DEF DataInv, StreamTypeOK, SampleOK, SampleRecords
    <3> QED BY <3>1 DEF SampleOK, SampleRecords
  <2> QED BY <1>1, <1>2, <2>1, <2>2 DEF DataInv, StreamTypeOK
<1>4. SamplesFit'
  <2> SUFFICES ASSUME NEW x \in Tracks, NEW y, y = sample'[x] PROVE Fits(x, y)'
    BY DEF SamplesFit, Fits
  <2>1. CASE x = tr
    BY <1>1, <2>1
  <2>2. CASE x # tr
    <3>1. Fits(x, y)
      BY <1>1, <2>2 DEF DataInv, SamplesFit
    <3> QED BY <1>2, <3>1 DEF Fits
  <2> QED BY <2>1, <2>2
<1>5. ActivatedAsAsked'
  BY <1>2 DEF DataInv, ActivatedAsAsked, Matches
<1>6. InstancesHaveTypeAndRate'
  BY <1>2, InstancesKept
<1> QED BY <1>3, <1>4, <1>5, <1>6 DEF DataInv

(* Without a step of the cache its calls are left alone. *)
LEMMA CallsStay ==
  ASSUME DataInv, UNCHANGED cacheVars, typesDiscovered' = typesDiscovered,
         DOMAIN rateData \subseteq DOMAIN rateData'
  PROVE  CallsFit' /\ [Next]_cacheVars
BY DEF DataInv, CallsFit, cacheVars

LEMMA SampleOfTrack ==
  ASSUME DataInv, NEW tr \in Tracks
  PROVE  /\ SampleOK(tr) /\ sample[tr] \in SampleRecords(tr) /\ Fits(tr, sample[tr])
         /\ command.number \in 0..MaxCommands /\ activation.on = command.running
         /\ activation.callback = IF command.running THEN command.number ELSE NullCallback
         /\ printer \in Tracks \cup {Nobody}
         /\ command.running \in BOOLEAN
BY DEF DataInv, StreamTypeOK, SamplesFit, SampleOK, SampleRecords

LEMMA ReceiveKeeps ==
  ASSUME DataInv, NEW tr \in Tracks, NEW w \in Writers, NEW stamp, NEW h \in HandlesOf(tr),
         Receive(tr, h, w, stamp)
  PROVE  DataInv'
<1>1. PICK s : s = [pc |-> "counted", handle |-> h, writer |-> w]
  OBVIOUS
<1>2. Move(tr, s) /\ UNCHANGED <<typesDiscovered, activation, command, crashed>> /\ UNCHANGED cacheVars
      /\ printer' = printer /\ DOMAIN rateData' = DOMAIN rateData \cup {tr}
      /\ typesDiscovered' = typesDiscovered
  BY <1>1 DEF Receive, CountSample
<1>3. s \in SampleRecords(tr) /\ s.pc = "counted"
  BY <1>1 DEF SampleRecords, CountedSamples
<1>4. Fits(tr, s)'
  BY <1>2, <1>3 DEF Fits
<1>5. CallsFit' /\ [Next]_cacheVars
  BY <1>2, CallsStay
<1> QED BY <1>2, <1>3, <1>4, <1>5, SampleOfTrack, MoveKeeps

(* The steps at the end of which the track has no sample. *)
LEMMA EndKeeps ==
  ASSUME DataInv, NEW tr \in Tracks, DropUntyped(tr) \/ Leave(tr) \/ EndPrint(tr)
  PROVE  DataInv'
<1>1. Move(tr, NoSample) /\ UNCHANGED <<typesDiscovered, activation, command, crashed>> /\ UNCHANGED cacheVars
      /\ printer' \in {printer, Nobody} /\ rateData' = rateData
      /\ typesDiscovered' = typesDiscovered
  BY DEF DropUntyped, Leave, EndPrint
<1>2. NoSample \in SampleRecords(tr) /\ Fits(tr, NoSample)'
  BY DEF SampleRecords, Fits, NoSample
<1>3. CallsFit' /\ [Next]_cacheVars
  BY <1>1, CallsStay
<1> QED BY <1>1, <1>2, <1>3, SampleOfTrack, MoveKeeps

(* The mutex is held: what the check finds is what the user asks for now.    *)
LEMMA CheckKeeps ==
  ASSUME DataInv, NEW tr \in Tracks, Check(tr)
  PROVE  DataInv'
<1>1. PICK s : s = Checked(tr)
  OBVIOUS
<1>2. /\ Step(tr) = "counted" /\ TypeOf[tr] \in typesDiscovered
      /\ Move(tr, s) /\ UNCHANGED <<typesDiscovered, activation, command, crashed>> /\ UNCHANGED cacheVars
      /\ printer' = printer /\ rateData' = rateData /\ command' = command
      /\ typesDiscovered' = typesDiscovered
  BY <1>1 DEF Check
<1>3. sample[tr].handle \in HandlesOf(tr) /\ sample[tr].writer \in Writers /\ tr \in DOMAIN rateData
  BY <1>2, SampleOfTrack, SampleShape DEF Fits, Step
<1>4. /\ s.pc = "checked" /\ s.command = command.number
      /\ s.print = (activation.on /\ Matches(tr))
  BY <1>1 DEF Checked
<1>5. s \in CheckedSamples(tr)
  <2>1. (activation.on /\ Matches(tr)) \in BOOLEAN
    OBVIOUS
  <2> QED BY <1>1, <1>3, <2>1, SampleOfTrack DEF CheckedSamples, Checked
<1>6. s.print => command.number # 0 /\ TopicOf[tr] \in command.topics
  BY <1>4, SampleOfTrack DEF DataInv, ActivatedAsAsked
<1>7. command.number <= command.number
  BY SampleOfTrack
<1>8. Fits(tr, s)'
  BY <1>2, <1>3, <1>4, <1>6, <1>7 DEF Fits
<1>9. CallsFit' /\ [Next]_cacheVars
  BY <1>2, CallsStay
<1> QED BY <1>2, <1>5, <1>8, <1>9, SampleOfTrack, MoveKeeps DEF SampleRecords

(* The sample goes into the cache: the call it begins fits like it. *)
LEMMA CacheKeeps ==
  ASSUME DataInv, NEW tr \in Tracks, Cache(tr)
  PROVE  DataInv'
<1>1. PICK s : s = [pc |-> "cached", print |-> sample[tr].print, command |-> sample[tr].command]
  OBVIOUS
<1>2. /\ Step(tr) = "checked" /\ BeginCall(tr, sample[tr].handle, sample[tr].writer)
      /\ Move(tr, s) /\ UNCHANGED <<typesDiscovered, activation, command, crashed>>
      /\ printer' = printer /\ rateData' = rateData /\ command' = command
      /\ typesDiscovered' = typesDiscovered
  BY <1>1 DEF Cache
<1>3. /\ sample[tr].handle \in HandlesOf(tr) /\ sample[tr].writer \in Writers
      /\ sample[tr].print \in BOOLEAN /\ sample[tr].command \in 0..MaxCommands
      /\ tr \in DOMAIN rateData /\ TypeOf[tr] \in typesDiscovered
  BY <1>2, SampleOfTrack, SampleShape DEF Fits, Step
<1>4. s.pc = "cached" /\ s.print = sample[tr].print /\ s.command = sample[tr].command
  BY <1>1
<1>5. s \in CachedSamples
  BY <1>1, <1>3 DEF CachedSamples
<1>6. Fits(tr, s)'
  BY <1>2, <1>4, SampleOfTrack DEF Fits, Step
<1>7. [Next]_cacheVars
  BY <1>2, <1>3 DEF Next
<1>8. CallsFit'
  <2>1. call \in [Tracks -> {Idle} \cup {Slow(h, w) : h \in AnyHandle, w \in Writers}]
    BY DEF DataInv, StreamTypeOK, TypeOK
  <2>2. \A x \in Tracks : x # tr => call'[x] = call[x]
    BY <1>2, <2>1 DEF BeginCall, SkipUnkeyed, UpdateCached, RejectFull, BeginSerialize
  <2> QED BY <1>2, <1>3, <2>2 DEF DataInv, CallsFit
<1> QED BY <1>2, <1>5, <1>6, <1>7, <1>8, SampleOfTrack, MoveKeeps DEF SampleRecords

(* The callback read is the latest command's. *)
LEMMA LoadCallbackKeeps ==
  ASSUME DataInv, NEW tr \in Tracks, LoadCallback(tr)
  PROVE  DataInv'
<1>1. PICK s : s = [pc |-> "loaded", callback |-> activation.callback, command |-> sample[tr].command]
  OBVIOUS
<1>2. /\ Step(tr) = "cached" /\ sample[tr].print /\ activation.callback # NullCallback
      /\ Move(tr, s) /\ UNCHANGED <<typesDiscovered, activation, command, crashed>> /\ UNCHANGED cacheVars
      /\ printer' = printer /\ rateData' = rateData /\ command' = command
      /\ typesDiscovered' = typesDiscovered
  BY <1>1 DEF LoadCallback, CacheDone
<1>3. sample[tr].command \in 0..MaxCommands /\ sample[tr].command # 0
  BY <1>2, SampleOfTrack, SampleShape DEF Fits, Step
<1>4. activation.callback = command.number /\ command.number \in 0..MaxCommands /\ command.number # 0
  BY <1>2, SampleOfTrack DEF NullCallback
<1>5. s.pc = "loaded" /\ s.callback = command.number /\ s.command = sample[tr].command
  BY <1>1, <1>4
<1>6. s \in LoadedSamples
  <2>1. MaxCommands \in Nat
    BY StreamConstants
  <2>2. command.number \in 1..MaxCommands /\ sample[tr].command \in 1..MaxCommands
    BY <1>3, <1>4, <2>1
  <2> QED BY <1>1, <1>4, <2>2 DEF LoadedSamples
<1>7. Fits(tr, s)'
  <2>1. /\ sample[tr].command <= command.number
        /\ sample[tr].command = command.number => TopicOf[tr] \in command.topics
    BY <1>2, SampleOfTrack DEF Fits, Step
  <2> QED BY <1>2, <1>5, <2>1 DEF Fits
<1>8. CallsFit' /\ [Next]_cacheVars
  BY <1>2, CallsStay
<1> QED BY <1>2, <1>6, <1>7, <1>8, SampleOfTrack, MoveKeeps DEF SampleRecords

LEMMA CallCallbackKeeps ==
  ASSUME DataInv, NEW tr \in Tracks, CallCallback(tr)
  PROVE  DataInv'
<1>1. PICK s : s = [sample[tr] EXCEPT !.pc = "called"]
  OBVIOUS
<1>2. /\ Step(tr) = "loaded"
      /\ Move(tr, s) /\ UNCHANGED <<typesDiscovered, activation, command, crashed>> /\ UNCHANGED cacheVars
      /\ printer' = printer /\ rateData' = rateData /\ command' = command
      /\ typesDiscovered' = typesDiscovered
  BY <1>1 DEF CallCallback
<1>3. sample[tr] \in LoadedSamples
  <2>1. SampleOK(tr)
    BY SampleOfTrack
  <2> QED BY <1>2, <2>1 DEF SampleOK, Step, NoSample, CountedSamples, CheckedSamples, CachedSamples
<1>4. /\ s \in LoadedSamples /\ s.pc = "called"
      /\ s.callback = sample[tr].callback /\ s.command = sample[tr].command
  BY <1>1, <1>3 DEF LoadedSamples
<1>5. Fits(tr, s)'
  BY <1>2, <1>4, SampleOfTrack DEF Fits, Step
<1>6. CallsFit' /\ [Next]_cacheVars
  BY <1>2, CallsStay
<1> QED BY <1>2, <1>4, <1>5, <1>6, SampleOfTrack, MoveKeeps DEF SampleRecords

LEMMA BeginPrintKeeps ==
  ASSUME DataInv, NEW tr \in Tracks, BeginPrint(tr)
  PROVE  DataInv'
<1>1. PICK s : s = [pc |-> "printing"]
  OBVIOUS
<1>2. /\ Move(tr, s) /\ UNCHANGED <<typesDiscovered, activation, command, crashed>> /\ UNCHANGED cacheVars
      /\ printer' = tr /\ rateData' = rateData /\ typesDiscovered' = typesDiscovered
  BY <1>1 DEF BeginPrint
<1>3. s \in SampleRecords(tr) /\ Fits(tr, s)'
  BY <1>1 DEF SampleRecords, Fits
<1>4. CallsFit' /\ [Next]_cacheVars
  BY <1>2, CallsStay
<1> QED BY <1>2, <1>3, <1>4, MoveKeeps


-----------------------------------------------------------------------------
(* Steps that leave the samples where they are. *)

LEMMA StayKeeps ==
  ASSUME DataInv, [Next]_cacheVars, UNCHANGED <<activation, command, sample, printer>>,
         typesDiscovered \subseteq typesDiscovered', typesDiscovered' \subseteq Types,
         rateData' = rateData, crashed' \in BOOLEAN,
         \A tr \in Tracks : call'[tr] # Idle => call[tr] # Idle
  PROVE  DataInv'
<1>1. activation' = activation /\ command' = command /\ sample' = sample /\ printer' = printer
  OBVIOUS
<1>2. StreamTypeOK'
  <2>1. TypeOK'
    BY TypeOKNext DEF DataInv, StreamTypeOK
  <2>2. \A x \in Tracks : SampleOK(x)'
    BY <1>1 DEF DataInv, StreamTypeOK, SampleOK
  <2> QED BY <1>1, <2>1, <2>2 DEF DataInv, StreamTypeOK
<1>3. SamplesFit'
  BY <1>1 DEF DataInv, SamplesFit, Fits
<1>4. CallsFit'
  BY DEF DataInv, CallsFit
<1>5. ActivatedAsAsked'
  BY <1>1 DEF DataInv, ActivatedAsAsked, Matches
<1>6. InstancesHaveTypeAndRate'
  BY InstancesKept
<1> QED BY <1>2, <1>3, <1>4, <1>5, <1>6 DEF DataInv

LEMMA OthersKeep ==
  ASSUME DataInv,
         \/ UNCHANGED dataVars
         \/ \E type \in Types : AddSchema(type)
         \/ \E t \in Topics, w \in Writers : WriterLeaves(t, w)
         \/ \E tr \in Tracks : CallDead(tr) \/ CacheMore(tr)
  PROVE  DataInv'
<1>0. typesDiscovered \subseteq Types /\ crashed \in BOOLEAN
  BY DEF DataInv, StreamTypeOK
<1>T. call \in [Tracks -> {Idle} \cup {Slow(h, w) : h \in AnyHandle, w \in Writers}]
  BY DEF DataInv, StreamTypeOK, TypeOK
<1>1. CASE UNCHANGED dataVars
  BY <1>0, <1>1, StayKeeps DEF dataVars, streamVars, cacheVars
<1>2. ASSUME NEW type \in Types, AddSchema(type) PROVE DataInv'
  BY <1>0, <1>2, StayKeeps DEF AddSchema, cacheVars
<1>3. ASSUME NEW t \in Topics, NEW w \in Writers, WriterLeaves(t, w) PROVE DataInv'
  <2>1. [Next]_cacheVars /\ call' = call
    BY <1>3 DEF WriterLeaves, Next, RemoveWriter
  <2> QED BY <1>0, <1>3, <2>1, StayKeeps DEF WriterLeaves, streamVars
<1>4. ASSUME NEW tr \in Tracks, CallDead(tr) PROVE DataInv'
  BY <1>0, <1>4, StayKeeps DEF CallDead, cacheVars
<1>5. ASSUME NEW tr \in Tracks, CacheMore(tr) PROVE DataInv'
  <2>1. [Next]_cacheVars
    BY <1>5 DEF CacheMore, Next
  <2>2. \A x \in Tracks : call'[x] # Idle => call[x] # Idle
    BY <1>5, <1>T DEF CacheMore, FinishCall, StoreKey, DropKey
  <2> QED BY <1>0, <1>5, <2>1, <2>2, StayKeeps DEF CacheMore, streamVars
<1> QED BY <1>1, <1>2, <1>3, <1>4, <1>5

-----------------------------------------------------------------------------
(* The console. *)

LEMMA ConsoleKeeps ==
  ASSUME DataInv, UNCHANGED <<cacheVars, rateData, typesDiscovered, sample, printer, crashed>>,
         command' \in [number : 0..MaxCommands, topics : SUBSET Topics, running : BOOLEAN],
         activation' \in [on : BOOLEAN, all : BOOLEAN, topics : SUBSET Topics, callback : 0..MaxCommands],
         activation'.on = command'.running,
         activation'.callback = IF command'.running THEN command'.number ELSE NullCallback,
         \A tr \in Tracks : Fits(tr, sample[tr])',
         ActivatedAsAsked'
  PROVE  DataInv'
<1>1. /\ typesDiscovered' = typesDiscovered /\ sample' = sample /\ printer' = printer
      /\ crashed' = crashed /\ rateData' = rateData /\ UNCHANGED cacheVars
  OBVIOUS
<1>2. StreamTypeOK'
  <2>1. TypeOK'
    BY <1>1, TypeOKNext DEF DataInv, StreamTypeOK
  <2>2. \A x \in Tracks : SampleOK(x)'
    BY <1>1 DEF DataInv, StreamTypeOK, SampleOK
  <2> QED BY <1>1, <2>1, <2>2 DEF DataInv, StreamTypeOK
<1>3. CallsFit' /\ [Next]_cacheVars
  BY <1>1, CallsStay
<1>4. InstancesHaveTypeAndRate'
  BY <1>1, <1>3, InstancesKept
<1> QED BY <1>2, <1>3, <1>4 DEF DataInv, SamplesFit

(* No sample has noted the new command yet. *)
LEMMA RequestFits ==
  ASSUME DataInv, NEW topics, Request(topics),
         UNCHANGED <<rateData, typesDiscovered, sample>>, NEW tr \in Tracks
  PROVE  Fits(tr, sample[tr])'
<1>1. PICK s : s = sample[tr]
  OBVIOUS
<1>2. PICK n \in 0..MaxCommands : n = command.number
  BY SampleOfTrack
<1>3. SampleOK(tr) /\ Fits(tr, s) /\ sample' = sample /\ rateData' = rateData
      /\ typesDiscovered' = typesDiscovered /\ command'.number = n + 1
  BY <1>1, <1>2, SampleOfTrack DEF Request
<1>4. \A c \in 0..MaxCommands : c <= n => c <= n + 1 /\ c # n + 1
  BY StreamConstants
<1>5. s.pc \in {"checked", "cached", "loaded", "called"} =>
        s.command \in 0..MaxCommands
  <2>1. 1..MaxCommands \subseteq 0..MaxCommands
    BY StreamConstants
  <2>2. /\ Step(tr) \in {"checked", "cached"} => sample[tr].command \in 0..MaxCommands
        /\ Step(tr) \in {"loaded", "called"} => sample[tr].command \in 1..MaxCommands
    BY <1>3, SampleShape
  <2> QED BY <1>1, <2>1, <2>2, Zenon DEF Step
<1>6. s.pc \in {"checked", "cached", "loaded", "called"} =>
        s.command <= command'.number /\ s.command # command'.number
  BY <1>2, <1>3, <1>4, <1>5 DEF Fits
<1>7. Fits(tr, s)'
  BY <1>3, <1>6 DEF Fits
<1> QED BY <1>1, <1>3, <1>7 DEF Fits

LEMMA RequestType ==
  ASSUME DataInv, NEW topics \in SUBSET Topics, Request(topics)
  PROVE  /\ command.number + 1 \in 0..MaxCommands /\ command.number + 1 # 0
         /\ command' \in [number : 0..MaxCommands, topics : SUBSET Topics, running : BOOLEAN]
         /\ command'.number = command.number + 1 /\ command'.topics = topics /\ command'.running = TRUE
<1>1. command.number \in 0..MaxCommands /\ command.number < MaxCommands
  BY DEF Request, DataInv, StreamTypeOK
<1>2. command.number + 1 \in 0..MaxCommands /\ command.number + 1 # 0
  BY <1>1, StreamConstants
<1> QED BY <1>2 DEF Request

LEMMA CommandsKeep ==
  ASSUME DataInv, Console
  PROVE  DataInv'
<1>0. activation \in [on : BOOLEAN, all : BOOLEAN, topics : SUBSET Topics, callback : 0..MaxCommands]
  BY DEF DataInv, StreamTypeOK
<1>1. CASE PrintAll
  <2>1. PICK n : n = command.number + 1
    OBVIOUS
  <2>2. /\ UNCHANGED <<cacheVars, rateData, typesDiscovered, sample, printer, crashed>>
        /\ Request(Topics) /\ activation' = [activation EXCEPT !.on = TRUE, !.all = TRUE, !.callback = n]
    BY <1>1, <2>1 DEF PrintAll, ActivateAll
  <2>3. /\ n \in 0..MaxCommands /\ n # 0
        /\ command' \in [number : 0..MaxCommands, topics : SUBSET Topics, running : BOOLEAN]
        /\ command'.number = n /\ command'.topics = Topics /\ command'.running = TRUE
    BY <2>1, <2>2, RequestType
  <2>4. /\ activation' \in [on : BOOLEAN, all : BOOLEAN, topics : SUBSET Topics, callback : 0..MaxCommands]
        /\ activation'.on = TRUE /\ activation'.callback = n
    BY <1>0, <2>2, <2>3
  <2>5. ActivatedAsAsked'
    BY <2>3, CacheConstants DEF ActivatedAsAsked
  <2>6. \A tr \in Tracks : Fits(tr, sample[tr])'
    BY <2>2, RequestFits
  <2> QED BY <2>2, <2>3, <2>4, <2>5, <2>6, ConsoleKeeps
<1>2. ASSUME NEW topics \in Patterns, PrintTopics(topics) PROVE DataInv'
  <2>0. topics \in SUBSET Topics
    BY DEF Patterns
  <2>1. PICK n : n = command.number + 1
    OBVIOUS
  <2>2. /\ UNCHANGED <<cacheVars, rateData, typesDiscovered, sample, printer, crashed>>
        /\ Request(topics)
        /\ activation' = [on |-> TRUE, all |-> FALSE, topics |-> topics, callback |-> n]
    BY <1>2, <2>1 DEF PrintTopics, Activate
  <2>3. /\ n \in 0..MaxCommands /\ n # 0
        /\ command' \in [number : 0..MaxCommands, topics : SUBSET Topics, running : BOOLEAN]
        /\ command'.number = n /\ command'.topics = topics /\ command'.running = TRUE
    BY <2>0, <2>1, <2>2, RequestType
  <2>4. /\ activation' \in [on : BOOLEAN, all : BOOLEAN, topics : SUBSET Topics, callback : 0..MaxCommands]
        /\ activation'.on = TRUE /\ activation'.callback = n
        /\ activation'.all = FALSE /\ activation'.topics = topics
    BY <2>0, <2>2, <2>3
  <2>5. ActivatedAsAsked'
    BY <2>3, <2>4 DEF ActivatedAsAsked, Matches
  <2>6. \A tr \in Tracks : Fits(tr, sample[tr])'
    BY <2>0, <2>2, RequestFits
  <2> QED BY <2>2, <2>3, <2>4, <2>5, <2>6, ConsoleKeeps
<1>3. CASE StopPrint
  <2>1. /\ UNCHANGED <<cacheVars, rateData, typesDiscovered, sample, printer, crashed>>
        /\ rateData' = rateData /\ typesDiscovered' = typesDiscovered /\ sample' = sample
        /\ activation' = [activation EXCEPT !.on = FALSE, !.callback = NullCallback]
        /\ command' = [command EXCEPT !.running = FALSE]
    BY <1>3 DEF StopPrint, Deactivate
  <2>2. /\ command' \in [number : 0..MaxCommands, topics : SUBSET Topics, running : BOOLEAN]
        /\ command'.number = command.number /\ command'.topics = command.topics /\ command'.running = FALSE
    BY <2>1 DEF DataInv, StreamTypeOK
  <2>3. NullCallback \in 0..MaxCommands
    BY StreamConstants DEF NullCallback
  <2>4. /\ activation' \in [on : BOOLEAN, all : BOOLEAN, topics : SUBSET Topics, callback : 0..MaxCommands]
        /\ activation'.on = FALSE /\ activation'.callback = NullCallback
    BY <1>0, <2>1, <2>3
  <2>5. ActivatedAsAsked'
    BY <2>2 DEF ActivatedAsAsked
  <2>6. \A tr \in Tracks : Fits(tr, sample[tr])'
    BY <2>1, <2>2 DEF DataInv, SamplesFit, Fits
  <2> QED BY <2>1, <2>2, <2>4, <2>5, <2>6, ConsoleKeeps
<1> QED BY <1>1, <1>2, <1>3 DEF Console


-----------------------------------------------------------------------------
(* The theorems. *)

LEMMA DataInvInit == DataInit => DataInv
<1> SUFFICES ASSUME DataInit PROVE DataInv
  OBVIOUS
<1>1. TypeOK
  BY TypeOKInit DEF DataInit
<1>2. /\ typesDiscovered = {} /\ crashed = FALSE /\ printer = Nobody
      /\ activation = [on |-> FALSE, all |-> FALSE, topics |-> {}, callback |-> NullCallback]
      /\ command = [number |-> 0, topics |-> {}, running |-> FALSE]
      /\ sample = [tr \in Tracks |-> NoSample]
      /\ instances = [t \in Topics |-> [h \in {} |-> {}]]
      /\ call = [tr \in Tracks |-> Idle]
  BY DEF DataInit, StreamInit, Init
<1>3. 0 \in 0..MaxCommands /\ NullCallback = 0
  BY StreamConstants DEF NullCallback
<1>4. StreamTypeOK
  <2>1. \A tr \in Tracks : SampleOK(tr)
    BY <1>2 DEF SampleOK
  <2> QED BY <1>1, <1>2, <1>3, <2>1 DEF StreamTypeOK
<1>5. SamplesFit
  BY <1>2 DEF SamplesFit, Fits, NoSample
<1>6. CallsFit
  BY <1>2 DEF CallsFit
<1>7. ActivatedAsAsked
  BY <1>2 DEF ActivatedAsAsked
<1>8. InstancesHaveTypeAndRate
  BY <1>2 DEF InstancesHaveTypeAndRate, Cached
<1> QED BY <1>4, <1>5, <1>6, <1>7, <1>8 DEF DataInv

LEMMA DataInvStep == DataInv /\ [DataNext]_dataVars => DataInv'
<1> SUFFICES ASSUME DataInv, [DataNext]_dataVars PROVE DataInv'
  OBVIOUS
<1>1. ASSUME NEW tr \in Tracks, Proceed(tr) PROVE DataInv'
  BY <1>1, EndKeeps, CheckKeeps, CacheKeeps, LoadCallbackKeeps, CallCallbackKeeps, BeginPrintKeeps,
     OthersKeep DEF Proceed
<1>2. ASSUME NEW tr \in Tracks, NEW w \in Writers, NEW stamp \in Stamps, NEW h \in HandlesOf(tr),
             Receive(tr, h, w, stamp)
      PROVE  DataInv'
  BY <1>2, ReceiveKeeps
<1>3. CASE Console
  BY <1>3, CommandsKeep
<1>4. CASE \/ UNCHANGED dataVars
           \/ \E type \in Types : AddSchema(type)
           \/ \E t \in Topics, w \in Writers : WriterLeaves(t, w)
  BY <1>4, OthersKeep
<1> QED BY <1>1, <1>2, <1>3, <1>4 DEF DataNext

LEMMA DataInvHolds == DataSpec => []DataInv
BY DataInvInit, DataInvStep, PTL DEF DataSpec

(* The streamer keeps its types, and the activation is the running command's.*)
THEOREM StreamTypes == DataSpec => []StreamTypeOK
<1>1. DataInv => StreamTypeOK
  BY DEF DataInv
<1> QED BY <1>1, DataInvHolds, PTL

(* print_command_ and add_data: while the print command a sample was checked *)
(* under is the latest, the sample goes to that command's callback and is of *)
(* a topic its user named, however commands and tracks are interleaved.      *)
THEOREM PrintsWhatUserAsked == DataSpec => []PrintsWhatWasAsked
<1>1. DataInv => PrintsWhatWasAsked
  BY DEF DataInv, SamplesFit, Fits, PrintsWhatWasAsked, Step
<1> QED BY <1>1, DataInvHolds, PTL

(* add_data puts a sample in the cache after it has counted it and found its *)
(* type, so whatever instance is shown has a type and a rate to show.        *)
THEOREM InstancesAreRatedAndTyped == DataSpec => []InstancesHaveTypeAndRate
<1>1. DataInv => InstancesHaveTypeAndRate
  BY DEF DataInv
<1> QED BY <1>1, DataInvHolds, PTL

(* Every rate shown is that of the window, for any counter and any history.  *)
THEOREM RateOfTheWindow == DataSpec => []RateIsThatOfTheWindow
<1>1. RateIsThatOfTheWindow
  BY RateOfHistory, RateConstants DEF RateIsThatOfTheWindow
<1> QED BY <1>1, PTL

(* The streamer calls the cache as InstanceCache has it called: whatever is  *)
(* proved of the cache holds of the cache of the streamer.                   *)
THEOREM StreamerUsesCache == DataSpec => Spec
<1>1. DataInit => Init
  BY DEF DataInit
<1>2. DataInv /\ [DataNext]_dataVars => [Next]_cacheVars
  BY CacheStep DEF DataInv
<1> QED BY <1>1, <1>2, DataInvHolds, PTL DEF DataSpec, Spec

(* In particular the bound on the instances of a topic, that none is without *)
(* a writer, and that the names of the key fields come first.                *)
THEOREM StreamerCacheCorrect ==
  DataSpec => [](BoundedByFeeders /\ NoOrphanInstance /\ KeyFieldsBeforeInstances)
BY StreamerUsesCache, BoundHolds, NoOrphans, KeyFieldsFirst, PTL
=============================================================================
