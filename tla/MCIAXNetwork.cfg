CONSTANTS
  RetryTimeout = 3
  PingTimeout = 4
  SeqNumbers = 3
  RingLength = 3
  Elapsed = {0, 2}
  Calls = {1, 2}
  Challenges = {"c1"}
  Sizes = {1}
  Blocks = {0, 1, 2}
  MiniLength = 1
SPECIFICATION Spec
INVARIANTS TypeOK TimerDiscipline AnswersOnlyChallenges
PROPERTIES CallIdentity NumbersFollow EveryReceiptAcknowledged QuietWhenDisconnected
