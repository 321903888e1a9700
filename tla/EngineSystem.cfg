SPECIFICATION Spec
CONSTANTS
  Budget = 2
  Capacity = 2
  Connections = {c1}
  MaxCommands = 4
  MaxNodes = 1
INVARIANTS
  PauseIsABarrier
  NoGhostValues
  AnswersAreFinal
PROPERTIES
  RequestsAreAnswered
