CONSTANTS
  MaxFd = 8
  Options <- MCOptions
  MaxSignals = 2
  ClientNames <- MCClientNames
SPECIFICATION Spec
INVARIANTS NothingLeftOpen OneClientPerName NumbersAreTrue
PROPERTIES SignalsHeeded LogSettles
