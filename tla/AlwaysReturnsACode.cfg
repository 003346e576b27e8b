SPECIFICATION ProcessSpec
CONSTANTS
  MaxDomainId = 2
  LongMax = 4
  NoFlag = NoFlag
  NoNumber = NoNumber
  Unset = Unset
  square = square  rpc = rpc  internal = internal  reliable = reliable
  UserTopics = {square}
  RpcTopics = {rpc}
  InternalTopics = {internal}
  Profiles = {reliable}
  NoTag = NoTag
  DefaultThreads = 1
  MaxWords = 3
  CommandLines <- MCCommandLines
  Files <- MCFiles
  NoFile = NoFile
  MaxEdits = 2
INVARIANTS
  AlwaysReturnsACode
CHECK_DEADLOCK FALSE
