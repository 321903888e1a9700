SPECIFICATION Spec
CONSTANTS
  Queues = {"commands", "telemetry"}
  MaxLives = 2
INVARIANTS
  TypeOK
  EngineIsFurnished
  NothingIsLeftBehind
PROPERTIES
  SleeperIsWoken
