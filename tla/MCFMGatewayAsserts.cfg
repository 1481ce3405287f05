CONSTANTS
  RingLength = 20
  BlockLength = 3
  WrappedCount = 2147483647
  PingTimeout = 4
  SeqNumbers = 3
  FrameLength = 2
  CallsignLength = 2
  DatagramLength = 17
  Elapsed = {0, 1, 3}
  SleepTime = 1
  FromRepeater <- MCFromRepeater
  FromPeer <- MCFromPeer
SPECIFICATION Spec
PROPERTY NoTransmissionAborts
