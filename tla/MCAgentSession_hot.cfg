SPECIFICATION Spec
CONSTANTS
  MaxHosts = 2
  MaxBoots = 3
  AutoResume = TRUE
PROPERTY
  FailedAdoptionReadsCrashed
CHECK_DEADLOCK FALSE
