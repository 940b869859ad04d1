SPECIFICATION Spec
CONSTANTS
  MAX_SHORT_STR = 3
  SIZEOF_INT = 2
  SPEEDY_REALLOC_MULT = 2
  MIN_ALLOC = 2
  NULL = NULL
  Garbage = Garbage
  d1 = d1
  d2 = d2
  d3 = d3
  p1 = p1
  p2 = p2
  Dirs = {d1, d2, d3}
  Mode <- MCMode
  Paths = {p1, p2}
  Home <- MCHome
  Scripts = {s1, s2}
  Ids = {c1, c2, c3}
  Payloads <- MCPayloads
  Equals = 61
  Nil = Nil
  Gone = Gone
  Junk = Junk
  None = None
  Foreign = Foreign
  HasCwd = {TRUE, FALSE}
  Plain = p1
  MaxOdd = 1
SYMMETRY Symmetric
INVARIANTS
  TypeOK
  NoDangling
  RightDirectory
  RequestArrives
  NeverRunsPart
