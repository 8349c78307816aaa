\* Parts of one small printing read back.
SPECIFICATION Spec
CONSTANTS
  Radix = 8
  Word = 16
  Block = 5
  HeaderParity = 5
  LengthBytes = 1
  MaxParity = 4
  Check <- CheckMC
  ByteBits = 3
  SymbolBits = 2
  Words <- WordsMC
  WordBits = 2
  Enough = 2
  SumBits <- SumBitsMC
  Digest <- DigestMC
  Alphabets <- AlphabetsMC
  Documents <- DocumentsMC
  Heading = 9
  Strays <- StraysMC
  MaxAgain = 2
  Copies = {c1}
  Capacities = {10}
  Parities = {2}
  MaxSymbols = 12
  MaxSlips = 0
  MaxTwice = 0
INVARIANT NothingIsInvented
CHECK_DEADLOCK FALSE
