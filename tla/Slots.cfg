SPECIFICATION Spec
CONSTANTS
  MAX_SLOTS = 4
  MIN_SLOTS_FREE = 2
  FILE_ALLOC_CHUNK = 3
  MaxAllocs = 2
  Lists = {"queue", "scripts"}
  Singly = {"scripts"}
  Ranks = {0, 1}
  MaxDoubleFrees = 1
INVARIANTS
  TypeOK
  WellLinked
  FreeList
  FreeSeen
  RoomInFile
PROPERTIES
  ImplementsSlotLists
CHECK_DEADLOCK FALSE
