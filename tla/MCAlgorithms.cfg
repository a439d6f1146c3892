SPECIFICATION Spec
CHECK_DEADLOCK FALSE
CONSTANTS
  HalfBits = 1
  P = 199
  B = 103
  G <- MCG
  N = 193
  MAX_TRIES = 3
  tok = tok
  tik = tik
  Name = {tok, tik}
  Delimiter = Delimiter
  KeyBytes = 3
  PointerBytes = 2
  Nullptr = Nullptr
  Crash = Crash
  Overread = Overread
  SizeBits = 4
  IntBits = 3
  Subsidy = 3
  Interval = 2
  BlockLen = 5
  LengthAt = 3
  ByteBits = 2
  HashLen = 2
  Operands <- MCOperands
  Multiplicands <- MCMultiplicands
  OddModuli <- MCOddModuli
  Keys <- MCKeys
  Hashes <- MCHashes
  Draws <- MCDraws
  Zs <- MCZs
  Payloads <- MCPayloads
  Tails <- MCTails
  KeyPairs <- MCKeyPairs
  Texts <- MCTexts
  Ledgers <- MCLedgers
  Messages <- MCMessages
INVARIANTS
  WordsAreIntegers
  CurveIsTheGroup
  
  MoneyIsKept
  HashesAreStandard
