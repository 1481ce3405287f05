CONSTANTS
  Samples <- Int16
  MaxTrips = 2
SPECIFICATION Spec
INVARIANT CloseToOriginal
PROPERTY OnlyTheFirstLoses
