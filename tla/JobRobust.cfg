SPECIFICATION FairSpec
CONSTANTS
  Files <- ThreeFiles
  DayOf <- LateDayOf
  Keys <- SlotsAB
  KeysOf <- ThreeKeysOf
  VerdictOf <- OneAborts
  Window = 0
  Epoch = 0
  Disturbances = {"late", "connect", "transfer", "lost", "config", "write", "ack", "provenance", "archive", "torn", "standalone", "delete", "crash"}
  MaxDisturbances = 2
INVARIANTS
  ArchiveAndLogAreTrue
PROPERTIES
  RunIsChronological
  EventuallyArchived
  RunsEndAndDrain
