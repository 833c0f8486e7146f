\* Presents of both routes and both pipelines, with every wait that may expire.
SPECIFICATION Spec
CONSTANTS
  MaxPresents = 3
  MaxPipelines = 2
  Modes = {"recovery", "on12"}
  Descs <- SomeDescs
  HostKeys = {0, 1}
  Captures <- SomeCaptures
  Faults = {"timeout", "slow", "create", "stage", "process", "evaluate", "host", "build", "record", "signal11"}
CONSTRAINT Unlapsed
VIEW Relative
INVARIANTS NothingUsedTwice
PROPERTIES PresentsOwnFrame NativeHistoryFollows
CHECK_DEADLOCK FALSE
