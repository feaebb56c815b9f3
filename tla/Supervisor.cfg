SPECIFICATION SupSpec
CONSTANTS
  MaxSeconds = 130
  MaxHealthy = 0
INVARIANTS EleventhCrashFails
CHECK_DEADLOCK FALSE
