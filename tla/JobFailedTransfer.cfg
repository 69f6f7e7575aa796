SPECIFICATION Spec
CONSTANTS
  Files <- TwoFiles
  DayOf <- EightDaysApart
  Keys <- SlotA
  KeysOf <- TwoKeysOf
  VerdictOf <- BothStore
  Window = 14
  Epoch = 0
  Disturbances = {"transfer"}
  MaxDisturbances = 1
INVARIANTS
  NewestDeliveryWins
