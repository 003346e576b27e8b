SPECIFICATION FilterSpec
CONSTANTS
  spy = spy  p = p  w = w  topic = topic  f = f  in = in  out = out
  Participants = {spy, p}
  Endpoints = {w}
  DataWriters = {w}
  Owner <- MCOwner
  SpyParticipant = spy
  QoS = {in, out}
  MaxAnnouncements = 3
  Topics = {topic}
  TopicOf <- MCTopicOf
  Patterns = {f}
  Matching <- MCMatching
  Expressions = {x}
  NoExpression = NoExpression
  MaxFilterCommands = 2
INVARIANTS
  FilterTypeOK
  ReadersAgree
  DictionaryInForce
  FilterDecides
PROPERTY
  OnlyActiveChanges
CHECK_DEADLOCK FALSE
