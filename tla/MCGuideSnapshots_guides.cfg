\* Two threads of the game on one queue, with two slots.
SPECIFICATION Spec
CONSTANTS
  Threads = {t1, t2}
  Queues = {1}
  Lists = {1, 2}
  Slots = 2
  Tags <- SomeTags
  Modes = {"SnapshotOnly", "Full"}
  Faults = {"resource", "signal"}
  Step = 1500
  MaxTags = 2
  MaxFrames = 2
  MaxTime = 2000
SYMMETRY Symmetry
INVARIANTS SnapshotsHoldTheirFrame
PROPERTIES GoneStaysGone
CHECK_DEADLOCK FALSE
