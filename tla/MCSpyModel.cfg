SPECIFICATION ModelSpec
CONSTANTS
  spy = spy  p = p  own = own  v = v  w = w  t = t
  Participants = {spy, p}
  Endpoints = {own, v, w}
  DataWriters = {v, w}
  Owner <- MCOwner
  SpyParticipant = spy
  QoS = {q1, q2}
  MaxAnnouncements = 4
  Topics = {t}
  TopicOf <- MCTopicOf
  Handles = {h1}
  Room = 1
  MaxUnread = 2
INVARIANTS
  ModelTypeOK
  LastAnnouncementWins
  OwnEntitiesNeverShown
  OnlyLateSamplesLinger
PROPERTIES
  NobodyForgottenAlive
  DepartedForgotten
  DatabaseCatchesUp
CHECK_DEADLOCK FALSE
