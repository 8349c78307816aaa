\* Two printings, Base32 text with up to two slips, phrases with up to two.
SPECIFICATION Spec
CONSTANTS
  Radix = 8
  Word = 16
  Block = 5
  HeaderParity = 5
  LengthBytes = 1
  MaxParity = 4
  Check <- CheckMC
  ByteBits = 3
  SymbolBits = 2
  Words <- WordsMC
  WordBits = 2
  Enough = 2
  SumBits <- SumBitsMC
  Digest <- DigestMC
  Alphabets <- AlphabetsMC
  Documents <- DocumentsMC
  Heading = 9
  Strays <- StraysMC
  MaxAgain = 2
  Copies = {c1, c2}
  Capacities = {9, 10, 13}
  Parities = {1, 3, 4, 5}
  MaxSymbols = 7
  MaxSlips = 2
  MaxTwice = 18
SYMMETRY Symmetry
INVARIANTS
  TypeOK
  LossWithinTheBoundReads
  PartsAreCoherent
  GuardedTextIsCorrected
  OnlySpacingIsFree
  PhrasesAreCanonical
CHECK_DEADLOCK FALSE
