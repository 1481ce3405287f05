CONSTANTS
  Length = 12
  SampleRates = {5000, 8000, 12000, 24000}
  HasSrc = TRUE
  HasSquelch = TRUE
  ArrayLength = 6
  BlockLength = 3
  FromPeer <- MCFromPeer
  FromLoop <- MCFromLoop
  Converter = {0, 100}
SPECIFICATION Spec
INVARIANTS WithinArrays KeepsPace
PROPERTY BytesInOrder
