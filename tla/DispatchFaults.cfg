CONSTANTS
  Frontends = {c1, c2}
  Backends = {b1, b2, b3}
  Parents = {m1, m2}
  Groups = {g1, g2}
  Nil = Nil
  MaxBackends = 1
  MaxRuns = 0
  MaxEdits = 1
  MaxFaults = 2
  MaxTimeouts = 0
  MaxIdles = 1
SYMMETRY Symmetry
SPECIFICATION Spec
INVARIANTS
  SlotsOwned
  ValidFirst
  NoEarlySignal
  Paired
  StatusComes
  StartingEnds
  MaxBackendsKept
CHECK_DEADLOCK FALSE
