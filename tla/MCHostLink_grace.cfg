SPECIFICATION FairSpec
CONSTANTS
  MaxConns = 1
  FailingModes = {"pty", "pipe"}
  Capacity = 2
  ChunkSizes = {1, 2}
  MaxChunks = 2
  GraceOutlastsTasks = TRUE
PROPERTY
  GraceEndsHost
CHECK_DEADLOCK FALSE
