CONSTANTS
  Frontends = {c1, c2}
  Backends = {b1, b2}
  Parents = {m1, m2}
  Groups = {g1, g2}
  Nil = Nil
  MaxBackends = 1
  MaxRuns = 0
  MaxEdits = 0
  MaxFaults = 1
  MaxTimeouts = 1
  MaxIdles = 0
SPECIFICATION FairSpec
PROPERTY Served
CHECK_DEADLOCK FALSE
