SPECIFICATION Spec
CONSTANTS
  Names = {"sine", "probe"}
  MaxLoads = 3
  MaxNodes = 3
INVARIANTS
  NodesHaveTheirModule
  NothingLeaks
  LoadIsWhole
