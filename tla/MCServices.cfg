SPECIFICATION ServicesSpec
CONSTANTS
  Creators = {c1, c2}
  RepoCount = 2
  Composers = 2
  MaxCreates = 3
  MaxDamage = 1
  MaxWcCrashes = 1
  Schedules = {i1, i2}
  MaxRuns = 2
  MaxScFaults = 1
  MaxScCrashes = 1
  Clients = {w1, w2}
  RingCap = 2
  ByteBound = FALSE
  Weights = {1}
  LiveCap = 2
  MaxEvents = 4
  MaxAttaches = 3
  MaxIncarnations = 1
  Readers = {r1, r2}
  Deliveries = {h1}
  Ttl = 1
  MaxClock = 2
  MaxChanges = 1
  MaxVcsFaults = 1
  Events = {e1, e2}
  Devices = {d1, d2}
  Window = 0
  MaxNow = 1
  MaxPushFaults = 1
  QueueCap = 2
  MaxLines = 2
  RetentionDays = 1
  MaxDays = 2
  MaxAppends = 6
  MaxIoFaults = 1
  MaxRestarts = 1
  Cores = {k1, k2, k3}
  NoCore = NoCore
  MaxInodes = 3
  MaxStarts = 4
  Turns = {t1, t2}
  TreeCount = 2
  LinkedTrees = {}
  MaxWrites = 1
  MaxTurnFaults = 1
  MaxTurnCrashes = 1
  Phones = {f1, f2}
  Attempts = {a1, a2}
  TokenCap = 2
  TokenTtl = 1
  MaxTokens = 3
  MaxMoments = 2
  MaxDevFaults = 1
  MaxDevBoots = 1
  Talkers = {u1, u2}
  Rules = {commit}
  COMMIT_RULE = commit
  DEDUP_TTL = 2
  ChannelCap = 1
  MaxSgClock = 3
  MaxSaid = 2
  MaxTalks = 1
INVARIANTS
  ServicesTypeOK  OneOpenRun ActiveStaysArmed NothingSkipped
  StalenessBounded OneDeviceActs WrittenIsKept OneCoreUntilAStop
  CheckpointRestorable RevokedIsRefused SuppressedIsShown
PROPERTY
  StreamsKeepContract
CONSTRAINT ServicesBound
CHECK_DEADLOCK FALSE
