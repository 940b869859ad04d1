CONSTANTS
  Frontends = {c1, c2}
  Backends = {b1, b2}
  Parents = {m1, m2}
  Groups = {g1, g2}
  Nil = Nil
  MaxBackends = 1
  MaxRuns = 1
  MaxEdits = 1
  MaxFaults = 0
  MaxTimeouts = 0
  MaxIdles = 0
SYMMETRY Symmetry
SPECIFICATION Spec
INVARIANT KillsOwnParent
CHECK_DEADLOCK FALSE
