SPECIFICATION QuerySpec
CONSTANTS
  spy = spy  p = p  w = w  r = r  v = v
  typed = typed  other = other  third = third  square = square  circle = circle
  Participants = {spy, p}
  Endpoints = {w, r, v}
  DataWriters = {w, v}
  Owner <- MCOwner
  SpyParticipant = spy
  QoS = {q1}
  MaxAnnouncements = 5
  Topics = {typed, other, third}
  NameOf <- MCNameOf
  TopicOf <- MCTopicOf
  WithIdl = {w}
  Filters <- MCFilters
INVARIANTS
  QueryTypeOK
  NothingPresentMissed
  NothingPastShown
CHECK_DEADLOCK FALSE
