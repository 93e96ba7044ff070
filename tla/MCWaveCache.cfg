CONSTANTS
  a = a
  b = b
  Unset = Unset
  Waves <- MCWaves
  WaveBytes <- MCWaveBytes
  UsedSets <- MCUsedSets
  LockedWaves <- MCLockedWaves
  BranchCounts <- MCBranchCounts
  Size = 8
  Page = 2
  MaxSlots = 3
  MaxDepth = 3
SPECIFICATION Spec
INVARIANTS
  TypeOK
  AtMostOneActive
  ResidentIntact
  FullMeansFull
PROPERTIES
  EvictsOnlyEvictable
CHECK_DEADLOCK FALSE
