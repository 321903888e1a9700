SPECIFICATION Spec
CONSTANTS
  n1 = n1
  n2 = n2
  n3 = n3
  NoNode = NoNode
  Zero = n1
  Nodes = {n1, n2, n3}
  Ids = {0, 1}
  Existing = {0}
  Capacity = 2
SYMMETRY NodeSymmetry
INVARIANTS
  TypeOK
  SlotsAreNotWasted
  PublishesWhatIsWanted
PROPERTIES
  MapSpec
