SPECIFICATION FairSpec
CONSTANTS
  Files <- SevenFiles
  HeaderOf <- SevenHeaders
  MeterIds <- TwoMeters
  Customers <- TwoCustomers
  Slots <- OneSlot
  Lists <- FourLists
  TrueRole <- Roles2
  EnergyOf <- SevenEnergies
  DayOf <- SevenDays
  Window = 1
  MaxEdits = 1
  MaxStops = 1
INVARIANTS
  OneOwnerPerReading
  EnergyIsAttributedOnce
  GenuineIsKept
PROPERTIES
  RefusedHeals
CHECK_DEADLOCK FALSE
