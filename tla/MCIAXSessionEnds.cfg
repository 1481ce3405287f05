CONSTANTS
  RetryTimeout = 2
  PingTimeout = 2
  SeqNumbers = 10
  RingLength = 2
  Elapsed = {0, 1}
  Calls = {1, 2}
  Challenges = {"c1", "c2"}
  Sizes = {}
  Blocks = {}
  MiniLength = 1
  Worlds <- EndWorlds
  MaxRepeats = 1
SPECIFICATION SessionSpec
PROPERTIES RegistersOrNever HangupIsFinal
