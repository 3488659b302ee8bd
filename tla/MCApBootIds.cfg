CONSTANTS
  NAps = 2
  LapicId <- MCLapicId
  pages = 4
  Boards = {}
  Pins = {}
SPECIFICATION ProcessorsSpec
INVARIANTS
  PercpuIdIsLapicId
\* The processors stay in their roles.
CHECK_DEADLOCK FALSE
