SPECIFICATION KeysSpec
CONSTANTS
  t1 = t1  t2 = t2  k1 = k1  k2 = k2  u = u  a = a  b = b  c = c  d = d
  Topics = {t1, t2}
  Types = {k1, k2, u}
  KeyedTypes = {k1, k2}
  Handles = {h1, h2, h3}
  NilHandle = nil
  Writers = {w1, w2}
  Tracks = {a, b, c, d}
  TopicOf <- MCTopicOf
  TypeOf <- MCTypeOf
  MaxInstances = 1
  NoType = NoType
SYMMETRY Symmetry
INVARIANTS
  TypeOK
  NoOrphanInstance
  BoundedByFeeders
  KeyFieldsBeforeInstances
  FieldsDescribeTheInstances
PROPERTY
  ImplementsTracker
