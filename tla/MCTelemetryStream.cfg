SPECIFICATION Spec
CONSTANTS
  n1 = n1
  n2 = n2
  None = None
  Nodes = {n1, n2}
  MaxSamples = 2
  Capacity = 3
  MaxCycles = 3
SYMMETRY NodeSymmetry
INVARIANTS
  LossesAreTold
  FramesAreOrdered
  GaplessIsComplete
