\* Everything for three calls of evaluate; four while the queue limit changes.
CONSTANTS
  FrameSlots = 2
  InitialFrameSlots = 1
  Plans <- MCPlans
SPECIFICATION Spec
CONSTRAINT Unlapsed
INVARIANTS TypeOK BarriersMatch
PROPERTIES ShowsWhatItReports EvaluatesOwnGuides NoReuseInFlight EvaluateReturns
