\* Two games, the user and the poll contend for the block.
CONSTANTS
  Pids = {1, 2}
  Window <- HelperAndGame
  Slots = 2
  Tries = 2
  Disabled = {1}
  Budgets <- Scenarios
  GraceMs = 1
SPECIFICATION Spec
CHECK_DEADLOCK FALSE
INVARIANTS TypeOK SettingsWhole TablesWhole OneSlotPerPid StatusesKept
PROPERTIES NoPingPong
