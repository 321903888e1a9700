SPECIFICATION Spec
CONSTANTS
  Budget = 2
  Capacity = 4
INVARIANTS
  TypeOK
  StopLatency
PROPERTIES
  StepsGoOn
  ChannelSpec
