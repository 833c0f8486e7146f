\* One swapchain that was there before the hooks.
SPECIFICATION Spec
CONSTANTS
  Threads = {t1, t2}
  Chains = {s1}
  Native = {}
  Queues = {q1, q2}
  Large = {}
  Marks <- SomeMarks
  Inputs <- SomeInputs
  Stable = 2
  Steady = 1
  Kinds = {"plain"}
  MaxCalls = 4
  MaxLists = 2
  MaxEvents = 0
SYMMETRY Symmetry
INVARIANTS OnlyOnProvenQueue
CHECK_DEADLOCK FALSE
