SPECIFICATION Spec
CONSTANTS
  Idents <- MCIdents
  IntValue <- MCIntValue
  Registers = {"A", "B", "L"}
  MaxSteps = 40
  Cut <- MCCut
  MaxVRegs = 3
  MaxDepth = 6
  MaxIterations = 3
  ULongModulus = 256
  WordModulus = 256
  Sources <- MCPrograms
  Mistyped = {}
  MaxEdits = 0
  EditTokens = {}
  NotRun = NotRun
INVARIANTS
  BranchesExclusive
CHECK_DEADLOCK FALSE
