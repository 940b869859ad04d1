CONSTANTS
  Procs = {p1, p2}
  Files = {f1, f2, f3}
  NoProc = NoProc
  NoFile = NoFile
  MaxTries = 2
SYMMETRY Symmetry
VIEW LiveState
SPECIFICATION Spec
INVARIANTS
  TypeOK
  MutualExclusion
  NoTornRead
  EntersLiveFile
  IInv
PROPERTIES
  HaveSlotsProtects
  ImplementsSlotStore
