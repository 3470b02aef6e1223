SPECIFICATION Spec
CONSTANTS
  Words <- MCWords
  DigitValue <- MCDigitValue
  LongMax = 127
  Idents <- MCIdents
  IntValue <- MCIntValue
  BinLits <- MCBinLits
  IntModulus = 8
  NoOffset = 255
  OffsetModulus = 256
  SymtabMax = 5
  MaxRegs = 2
  MaxSignals = 2
  MaxHandlers = 2
  DefaultRegion = 8
  Cut <- MCCut
  LintRegs = 2
  MaxWarns = 7
  MagicMax = 0
  Strict = TRUE
  Sources <- MCSources
  Mistyped <- SlipHeaders
  MaxEdits = 1
  EditTokens <- MCEditTokens
  Glyphs <- MCGlyphs
  NoResult = NoResult
INVARIANTS
  TokensTileText
  NumbersRead
  HeaderKept
  OffsetsWritten
  NamesDistinct
  OverlapsWarned
  ScannedAsParsed
  LintFindsWrites
  TestsMatchHandlers
PROPERTY
  FrontEndSpec
CHECK_DEADLOCK FALSE
