SPECIFICATION Spec
CONSTANTS
  Entries = {e1, e2, e3}
  NoEntry = none
  RETRY_ATTEMPTS = 3
INVARIANTS
  IncomingIsSound
  NothingGivenUpEarly
PROPERTIES
  RetriesStop
  ImplementsFetchPhase
CHECK_DEADLOCK FALSE
