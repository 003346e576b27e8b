SPECIFICATION DataSpec
CONSTANTS
  t1 = t1  t2 = t2  k1 = k1  u = u  a = a  b = b
  Topics = {t1, t2}
  Types = {k1, u}
  KeyedTypes = {k1}
  Handles = {h1}
  NilHandle = nil
  Writers = {w1}
  Tracks = {a, b}
  RatedTopics = {a, b}
  TopicOf <- MCTopicOf
  TypeOf <- MCTypeOf
  MaxInstances = 1
  NoType = NoType
  Stamps = {0}
  CounterModulus = 2
  MaxSamples = 4
  Histories <- MCHistories
  MaxCommands = 2
INVARIANT
  PrintEndsWithoutCrash
