SPECIFICATION FilterSpec
CONSTANTS
  spy = spy  p = p  w = w  topic = topic  f = f  in = in  out = out
  Participants = {spy, p}
  Endpoints = {w}
  DataWriters = {w}
  Owner <- MCOwner
  SpyParticipant = spy
  QoS = {in, out}
  MaxAnnouncements = 4
  Topics = {topic}
  TopicOf <- MCTopicOf
  Patterns = {f}
  Matching <- MCMatching
  Expressions = {x}
  NoExpression = NoExpression
  MaxFilterCommands = 2
INVARIANT
  RemovedTopicFilterIsGone
CHECK_DEADLOCK FALSE
