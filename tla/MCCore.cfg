SPECIFICATION CoreSpec
CONSTANTS
  WaSessions = {"s1", "s2", "s3"}
  Askers = {"s3"}
  Together = {{"s1", "s2"}, {"s3"}}
  MaxUserOps = 1
  MaxWaBoots = 1
  PrRepos = {1, 2}
  MergeCalls = {"m1", "m2"}
  MaxPrCalls = 2
  MaxPrFaults = 1
  Clones = {"x", "y"}
  Areas = {"a1", "a2"}
  ConeSets = {"all", "src"}
  RepoCalls = {"q1", "q2"}
  NoCall = "-"
  PREWARM_CONCURRENCY = 1
  MaxRepoFaults = 1
  MaxRepoCrashes = 1
  MaxSeconds = 130
  MaxHealthy = 1
INVARIANTS CoreTypeOK ArchiveLeavesNoOldSession MergesOnGreen ConesAgree
PROPERTIES LiveSessionIsWatched MergeReturns CallsEnd
CHECK_DEADLOCK FALSE
