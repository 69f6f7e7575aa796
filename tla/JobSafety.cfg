SPECIFICATION Spec
CONSTANTS
  Files <- FourFiles
  DayOf <- FourDayOf
  Keys <- SlotsAB
  KeysOf <- FourKeysOf
  VerdictOf <- OneRejected
  Window = 1
  Epoch = 0
  Disturbances = {"late", "transfer", "lost", "write", "ack", "archive", "crash"}
  MaxDisturbances = 3
INVARIANTS
  ArchivedIsTraceable
PROPERTIES
  SourceKept
  NeverIngestArchived
  ImplementsAtLeastOnce
