CONSTANTS
  Length = 4
  Elements = {0, 1, 2}
  Zero = 0
  MaxChunk = 5
  Chunks <- MCChunks
  Counts <- MCCounts
SPECIFICATION Spec
INVARIANT TypeOK
PROPERTIES NothingVanishes ImplementsQueue
