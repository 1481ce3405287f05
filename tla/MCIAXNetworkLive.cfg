CONSTANTS
  RetryTimeout = 3
  PingTimeout = 4
  SeqNumbers = 2
  RingLength = 2
  Elapsed = {0, 2}
  Calls = {1}
  Challenges = {"c1"}
  Sizes = {1}
  Blocks = {0, 1, 2}
  MiniLength = 1
SPECIFICATION Spec
PROPERTIES NewRepeats RegReqRepeats CallKeptAlive
