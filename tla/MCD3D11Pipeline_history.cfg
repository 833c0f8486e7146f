CONSTANTS
  SettingsSet <- MCSettings
  Supplies <- MCSupplies
  Trackers <- MCTrackers
  Starts <- MCStarts
  Extents = {1, 2}
  Faults = {"upload", "resources", "view", "depth", "execute", "evaluate", "backpressure"}
  NvofHardware = TRUE
  MaxPresents = 3
SPECIFICATION Spec
INVARIANTS HistoriesFollow  GuidesOfOneFrame
CHECK_DEADLOCK FALSE
