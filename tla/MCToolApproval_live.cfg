SPECIFICATION FairSpec
CONSTANTS
  s1 = s1
  s2 = s2
  Sessions <- MCSessions
  Calls <- FewCalls
  Modes = {"auto"}
  Bypass = FALSE
  MaxPrompts = 2
  MaxGates = 2
  MaxCrashes = 0
PROPERTY
  GateSettles
CHECK_DEADLOCK FALSE
