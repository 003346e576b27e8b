SPECIFICATION ModelSpec
CONSTANTS
  spy = spy  p = p  own = own  v = v  w = w  t = t
  Participants = {spy, p}
  Endpoints = {own, v, w}
  DataWriters = {v, w}
  Owner <- MCOwner
  SpyParticipant = spy
  QoS = {q1}
  MaxAnnouncements = 5
  Topics = {t}
  TopicOf <- MCTopicOf
  Handles = {h1, h2}
  Room = 1
  MaxUnread = 1
INVARIANT
  DepartedHaveNoInstances
CHECK_DEADLOCK FALSE
