SPECIFICATION ResultsSpec
CONSTANTS
  Names = {1, 2}
  Connections = {1}
  ResultCapacity = 3
  MaxCommands = 5
  MaxNodes = 3
INVARIANTS
  ViewCatchesUp
  RoomIsEnough
