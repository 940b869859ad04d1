SPECIFICATION Spec
CONSTANTS
  MIN_READ = 1
  Junk = Junk
  MaxSz <- SmallMaxSz
  Header = 1
  SockSize = 1
  PipeSize = 1
  Keeps <- AnyKeeps
  Loads <- OddLoads
PROPERTIES
  ExitsAlways
CHECK_DEADLOCK FALSE
