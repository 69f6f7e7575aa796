SPECIFICATION Spec
CONSTANTS
  Slots <- TwoSlots
  Calls <- FourCalls
  RowsOf <- FourRowsOf
  LogCalls = {2}
  MaxFaults = 4
INVARIANTS
  StoreIsWhole
  ConnectionIsClean
PROPERTIES
  CallsEnd
  ImplementsAtomicStore
CHECK_DEADLOCK FALSE
