SPECIFICATION Spec
CONSTANTS
  a1 = a1
  a2 = a2
  none = none
  Addr <- MCAddr
  NoAddr = none
  MaxConns = 3
  MaxInc = 2
  DeadTicks = 1
  GcTicks = 2
  CooldownTicks = 1
SYMMETRY AddrSymmetry
INVARIANTS EntriesFit BindingSafe
PROPERTIES DemigrateIsFinal
