SPECIFICATION Spec
CONSTANTS
  Words <- MCWords
  DigitValue <- MCDigitValue
  LongMax = 127
  Idents <- MCIdents
  IntValue <- MCIntValue
  BinLits <- MCBinLits
  IntModulus = 8
  NoOffset = 255
  OffsetModulus = 256
  SymtabMax = 5
  MaxRegs = 2
  MaxSignals = 2
  MaxHandlers = 2
  DefaultRegion = 8
  Cut <- MCCut
  LintRegs = 3
  MaxWarns = 20
  MagicMax = 0
  Strict = TRUE
  Sources <- MCDrivers
  Mistyped = {}
  MaxEdits = 0
  EditTokens <- MCEditTokens
  Glyphs <- MCGlyphs
  NoResult = NoResult
INVARIANTS
  AccessReported
CHECK_DEADLOCK FALSE
