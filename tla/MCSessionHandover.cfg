\* Two addresses with two connections each.
CONSTANTS
  i1 = i1
  i2 = i2
  none = none
  Ip <- MCIp
  NoIp <- none
  PerIp = 2
  RepreemptTicks = 2
  LockoutTicks = 3
SPECIFICATION FairSpec
INVARIANTS
  RolesFit
  HandoverSafe
PROPERTIES
  EveryClientIsServed
