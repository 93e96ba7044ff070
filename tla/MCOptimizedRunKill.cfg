CONSTANTS
  Programs <- KillPrograms
  FlagSets <- OnlyDefault
  NumPhysical = 5
  Gaps = {0}
  WordBits = 4
  UpperUnit = 4
  RegisterDepth = 5
  MemoryDepth = 8
  MaxProgramSize = 60
  ValueBits = 8
  MaxEvents = 12
  MaxSteps = 90
  Inputs <- KillInputs
SPECIFICATION RunSpec
INVARIANT BehaviourKept
