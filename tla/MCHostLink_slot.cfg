SPECIFICATION FairSpec
CONSTANTS
  MaxConns = 1
  FailingModes = {}
  Capacity = 1
  ChunkSizes = {1}
  MaxChunks = 1
  GraceOutlastsTasks = TRUE
PROPERTY
  DroppedConnectionReleased
CHECK_DEADLOCK FALSE
