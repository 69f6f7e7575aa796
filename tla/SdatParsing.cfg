SPECIFICATION Spec
CONSTANTS
    Documents <- Texts
    Instants <- TwoHours
    MaxFiles = 3
INVARIANTS
    ReadingsAreRight
    StoredIsComplete
    OrdinaryFaultsAreLeftOut
CHECK_DEADLOCK FALSE
