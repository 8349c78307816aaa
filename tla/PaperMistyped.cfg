\* One wrong letter in a text under error correction.
SPECIFICATION Spec
CONSTANTS
  Radix = 8
  Word = 16
  Block = 5
  HeaderParity = 5
  LengthBytes = 1
  MaxParity = 4
  Check <- CheckMC
  ByteBits = 3
  SymbolBits = 2
  Words <- WordsMC
  WordBits = 2
  Enough = 2
  SumBits <- SumBitsMC
  Digest <- DigestMC
  Alphabets <- AlphabetsMC
  Documents <- DocumentsMC
  Heading = 9
  Strays <- StraysMC
  MaxAgain = 2
  Copies = {c1}
  Capacities = {9}
  Parities = {2}
  MaxSymbols = 8
  MaxSlips = 1
  MaxTwice = 0
INVARIANT OneWrongLetterNeverLies
CHECK_DEADLOCK FALSE
