CONSTANTS
  Programs <- MCPrograms
  Inputs <- MCInputs
  WordBits = 16
  UpperUnit = 128
  UnrollLimit = 6
  TriggerMask <- MCTriggerMask
  Limit <- MCLimit
  Latency = 3
  Curve <- MCCurve
  FrequencyUnit = 300
  PhaseBits = 5
  MaxEvents = 200
  MaxSteps = 600
  MaxRounds = 40
SPECIFICATION Spec
INVARIANTS TypeOK BranchesResolve OperandsComputed TreeDescribesCode
 
CHECK_DEADLOCK FALSE
