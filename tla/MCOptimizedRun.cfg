CONSTANTS
  Programs <- MCPrograms
  FlagSets <- LeaveOneOut
  NumPhysical = 5
  Gaps = {0}
  WordBits = 4
  UpperUnit = 4
  RegisterDepth = 5
  MemoryDepth = 8
  MaxProgramSize = 60
  ValueBits = 8
  MaxEvents = 12
  MaxSteps = 90
  Inputs <- MCInputs
SPECIFICATION RunSpec
INVARIANTS TypeOK AllocationSound LabelsResolve BehaviourKept
