\* The exact-frame protocol and the handle transfer under expired waits and
\* failures.
SPECIFICATION Spec
CONSTANTS
  MaxPresents = 3
  Textures = {color, output}
  Sizes = {1, 2}
  Presets = {1}
  Faults <- LiveFaults
  ResetOnTemporalGap = TRUE
INVARIANTS TypeOK TexturesExclusive ExactComposite AllocatorIdle NeuralMeansEvaluated HandlesOwned
PROPERTIES FenceMonotone HistoryUnbroken KeepsPromise
SYMMETRY TextureSymmetry
