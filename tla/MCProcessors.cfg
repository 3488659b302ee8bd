CONSTANTS
  NAps = 2
  LapicId <- MCLapicId
  pages = 4
  Boards <- MCBoards
  Pins <- MCPins
SPECIFICATION ProcessorsSpec
INVARIANTS
  CoresKept
  MixedUpOnlyByOverlap
  ProcessorListRight
PROPERTIES
  EveryProcessorSettles
\* The processors stay in their roles, and the loader hands over.
CHECK_DEADLOCK FALSE
