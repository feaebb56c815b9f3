SPECIFICATION SchedSpec
CONSTANTS
  Schedules = {"i1"}
  MaxRuns = 2
  MaxScFaults = 0
  MaxScCrashes = 1
INVARIANTS OpenRunIsWatched
CHECK_DEADLOCK FALSE
