CONSTANTS
  Lines <- MCLines
  MaxLines = 3
  OtherHeaders = {"[Elsewhere]"}
  Numeral <- MCNumeral
  BufferSize = 12
  Unsigned = 1000
SPECIFICATION Spec
INVARIANT MeansWhatItSays
