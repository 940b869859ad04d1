CONSTANTS
  Frontends = {c1, c2, c3}
  Backends = {b1, b2}
  Parents = {m1}
  Groups = {g1}
  Nil = Nil
  MaxBackends = 2
  MaxRuns = 2
  MaxEdits = 0
  MaxFaults = 0
  MaxTimeouts = 1
  MaxIdles = 1
SYMMETRY Symmetry
SPECIFICATION Spec
INVARIANTS
  TypeOK
  WaitingFirst
  HeadIsTold
  OneConnection
CHECK_DEADLOCK FALSE
