SPECIFICATION Spec
CONSTANTS
  Files = {"long", "short"}
  Lengths <- LengthsMC
  ChunkSize = 2
  TagLen = 2
  MaxCounter = 1
  MaxPieces = 3
  Foreign = Foreign
  Malformed = Malformed
  Noise = Noise
CHECK_DEADLOCK FALSE
INVARIANTS
  NonceUsedOnce
  ReleasedIsPrefix
  OkMeansWhole
  IntactOpens
