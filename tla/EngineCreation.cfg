SPECIFICATION CreationSpec
CONSTANTS
  None = None
  Engines = {"old", "new"}
  DefaultBudget = 2
  MaxBudget = 1
INVARIANTS
  CreatedIsComplete
  ProbeIsAlive
