SPECIFICATION Spec
CONSTANTS
  MIN_READ = 1
  Junk = Junk
  MaxSz <- SmallMaxSz
  Header = 1
  SockSize = 1
  PipeSize = 1
  Keeps <- AnyKeeps
  Loads <- AllLoads
INVARIANTS
  TypeOK
  OutputInOrder
  InputInOrder
  OutputComplete
  NoClosedFd
  RoomToRead
  CwdAnswered
PROPERTIES
  ExitsWithBackend
  ExitsWithoutChild
  StreamsFlow
CHECK_DEADLOCK FALSE
