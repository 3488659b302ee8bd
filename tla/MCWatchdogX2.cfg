CONSTANTS
  NAps = 1
  Hard = {}
  Sils = {0, 2, 4}
  ANGER_LIMIT = 200
  ANGER_WARN = 100
  ANGER_STEP = 10
  X2Apic = TRUE
  Prompt = TRUE
SPECIFICATION Spec
INVARIANTS
  NoFalseAlarm
\* The machine restarts after a panic.
CHECK_DEADLOCK FALSE
