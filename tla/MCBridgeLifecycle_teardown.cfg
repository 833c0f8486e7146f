\* Every call may fail, and threads may stay in the functions they called.
SPECIFICATION FairSpec
CONSTANTS
  Threads = {t1, t2}
  Injectors = {i1, i2}
  Faults <- AllFaults
INVARIANTS TypeOK TeardownExclusive
PROPERTIES DetachClosesHooks DetachEnds StartIsRepaired
