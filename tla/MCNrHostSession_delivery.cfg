\* Every frame of a session in which no wait expires.
SPECIFICATION FairSpec
CONSTANTS
  MaxPresents = 2
  Textures = {color}
  Sizes = {1, 2}
  Presets = {1, 2}
  Faults <- FatalFaults
  ResetOnTemporalGap = TRUE
PROPERTIES EveryPresentNeural
