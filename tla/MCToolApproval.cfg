SPECIFICATION Spec
CONSTANTS
  s1 = s1
  s2 = s2
  Sessions <- MCSessions
  Calls <- MCCalls
  Modes = {"auto"}
  Bypass = FALSE
  MaxPrompts = 2
  MaxGates = 2
  MaxCrashes = 1
INVARIANTS
  TypeOK
  AnswerIsForItsPrompt
  PolicyFloor
  EditLockHeldOnce
  PendingIsResolvable
PROPERTY
  KeepsContract
CHECK_DEADLOCK FALSE
