CONSTANTS
  Grain = 2
  Line = 4
  Lines = 8
  CheckLines = 4
  FixedLines = 2
  Base = 32
  Limit = 159
  Sizes = {2, 4, 6, 12, 20}
  MaxWaves = 6
  Unused = Unused
SPECIFICATION Spec
INVARIANTS MemoryTiled ResidentTogether ReloadSparesFixed RefusedForAReason
CHECK_DEADLOCK FALSE
