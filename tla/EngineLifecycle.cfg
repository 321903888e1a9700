SPECIFICATION Spec
CONSTANTS
  MaxRuns = 3
  Budget = 2
INVARIANTS
  TypeOK
  AtMostOneRtLoop
  NoThreadOutlivesRun
  JoinTargetsValid
PROPERTIES
  StopIsNotLost
  SupervisorSpec
