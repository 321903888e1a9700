SPECIFICATION Spec
CONSTANTS
  MaxRuns = 2
  Budget = 2
PROPERTIES
  StopEndsRun
  CallsReturn
