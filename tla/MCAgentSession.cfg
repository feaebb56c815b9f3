SPECIFICATION FairSpec
CONSTANTS
  MaxHosts = 2
  MaxBoots = 3
  AutoResume = TRUE
INVARIANTS
  TypeOK
  EntryMatchesRow
PROPERTIES
  FinishedIsFinal
  BootReconciles
  BootCompletes
CHECK_DEADLOCK FALSE
