\* Two threads, a swapchain of D3D12 and one of D3D11.
SPECIFICATION Spec
CONSTANTS
  Threads = {t1, t2}
  Chains = {s1, s2}
  Native = {s2}
  Queues = {q1, q2}
  Large = {s1}
  Marks <- SomeMarks
  Inputs <- SomeInputs
  Stable = 2
  Steady = 1
  Kinds = {"plain", "test"}
  MaxCalls = 4
  MaxLists = 2
  MaxEvents = 2
SYMMETRY Symmetry
INVARIANTS CleanFirst
PROPERTIES WorksOnShownQueue
CHECK_DEADLOCK FALSE
