CONSTANTS
  Frontends = {c1, c2}
  Backends = {b1, b2}
  Parents = {m1}
  Groups = {g1}
  Nil = Nil
  MaxBackends = 1
  MaxRuns = 1
  MaxEdits = 0
  MaxFaults = 0
  MaxTimeouts = 1
  MaxIdles = 0
SYMMETRY Symmetry
SPECIFICATION Spec
INVARIANT NoLostRequest
CHECK_DEADLOCK FALSE
