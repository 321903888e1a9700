SPECIFICATION Spec
CONSTANTS
  Periods = {0, 1, 3}
  MaxWork = 4
  MaxLatency = 2
  MaxExcess = 6
INVARIANTS
  OnSchedule
  StopIsPrompt
PROPERTIES
  CatchesUp
