SPECIFICATION Spec
CONSTANTS
  MaxConns = 2
  FailingModes = {"pty", "pipe"}
  Capacity = 2
  ChunkSizes = {1, 2}
  MaxChunks = 2
  GraceOutlastsTasks = FALSE
INVARIANTS
  TypeOK
  NoSilentLoss
  WatermarkGapFree
  RingAccounting
  SlotHeldOnce
  ExitOnDisk
PROPERTY
  KeepsOutput
CHECK_DEADLOCK FALSE
