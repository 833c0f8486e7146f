\* Nobody sleeps for ever, no request stays unanswered, no host is orphaned.
SPECIFICATION FairSpec
CONSTANTS
  MaxPresents = 2
  Textures = {color}
  Sizes = {1}
  Presets = {1}
  Faults <- StrandingFaults
  ResetOnTemporalGap = TRUE
PROPERTIES PresentReturns PendingCompletes HostNotOrphaned
