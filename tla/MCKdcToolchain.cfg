SPECIFICATION Spec
CONSTANTS
  Idents <- MCIdents
  IntValue <- MCIntValue
  Registers = {"A", "B", "L"}
  MaxSteps = 40
  Cut <- MCCut
  MaxVRegs = 3
  MaxDepth = 6
  MaxIterations = 3
  ULongModulus = 256
  WordModulus = 256
  Sources <- MCDrivers
  Mistyped <- MCSentences
  MaxEdits = 2
  EditTokens <- MCEditTokens
  NotRun = NotRun
INVARIANTS
  AcceptedIsWhole
  ReadAsWritten
  GeneratedKeepsMeaning
  SimulatedKeepsMeaning
  TableMatchesTrace
PROPERTY
  DriverSpec
CHECK_DEADLOCK FALSE
