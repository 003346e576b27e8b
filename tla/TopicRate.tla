------------------------------ MODULE TopicRate ------------------------------
(***************************************************************************)
(* The reception rate of a topic (model/TopicRateCalculator.cpp): how many *)
(* samples came, the source timestamp of the first and that of the last.   *)
(* The counter is an unsigned int; it wraps.  Source timestamps are the    *)
(* publishers' clocks: they need not grow from one sample to the next.     *)
(***************************************************************************)
EXTENDS Integers, Sequences

CONSTANTS
  RatedTopics,      \* the DdsTopics (name and type) samples arrive on
  Stamps,           \* source timestamps, in seconds
  CounterModulus,   \* 2^32 in the build
  Histories         \* for the property: the source timestamps of samples in a row

ASSUME RateConstants ==
  /\ Stamps \subseteq Nat
  /\ CounterModulus \in Nat \ {0}
  /\ Histories \subseteq Seq(Nat) \ {<<>>}

VARIABLE rateData   \* data_by_topic_: a partial function of RatedTopics

(* DataRateInfo as operator[] creates it. *)
NoSamples == [count |-> 0, first |-> 0, last |-> 0]

RateInit == rateData = [d \in {} |-> NoSamples]

RateOf(d) == IF d \in DOMAIN rateData THEN rateData[d] ELSE NoSamples

(* Mutant: the first timestamp is taken from every sample that finds the     *)
(* counter at its initial value or at one.                                   *)
CountedTwiceFirst(info, stamp) ==
  [count |-> (info.count + 1) % CounterModulus,
   first |-> IF info.count <= 1 THEN stamp ELSE info.first,
   last  |-> stamp]

(* What one sample does to the counters of its topic. *)
Counted(info, stamp) ==
  [count |-> (info.count + 1) % CounterModulus,
   first |-> IF info.count = 0 THEN stamp ELSE info.first,
   last  |-> stamp]

(* TopicRateCalculator::add_data, under the lock of data_by_topic_. *)
CountSample(d, stamp) ==
  rateData' = [x \in DOMAIN rateData \cup {d} |->
                 IF x = d THEN Counted(RateOf(d), stamp) ELSE rateData[x]]

(* get_topic_rate shows the quotient of these two, or infinity if the second *)
(* is zero.                                                                  *)
Quotient(info) == [samples |-> info.count, seconds |-> info.last - info.first]

-----------------------------------------------------------------------------
(* The counters after the samples of a history. *)
CountedAll(info, history) ==
  LET after[n \in 0..Len(history)] ==
        IF n = 0 THEN info ELSE Counted(after[n - 1], history[n])
  IN after[Len(history)]

(* The first sample since the counter last was zero, at first or by wrapping. *)
Window(samples) == ((samples - 1) \div CounterModulus) * CounterModulus + 1

(* The rate shown of a topic is that of the samples since the counter last   *)
(* was zero: their number and the seconds from the first of them to the      *)
(* last, whose timestamps need not grow, whatever was counted before.  (A    *)
(* counter that has just wrapped shows a rate of zero until the next sample.) *)
RateIsThatOfTheWindow ==
  \A d \in RatedTopics : RateOf(d).count = 0 =>
    \A h \in Histories :
      Quotient(CountedAll(RateOf(d), h)) = [samples |-> Len(h) % CounterModulus,
                                            seconds |-> h[Len(h)] - h[Window(Len(h))]]
=============================================================================
