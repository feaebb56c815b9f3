SPECIFICATION CkSpec
CONSTANTS
  Turns = {t1, t2}
  TreeCount = 2
  LinkedTrees = {1, 2}
  MaxWrites = 1
  MaxTurnFaults = 1
  MaxTurnCrashes = 1
INVARIANTS TurnIsCheckpointed
CHECK_DEADLOCK FALSE
