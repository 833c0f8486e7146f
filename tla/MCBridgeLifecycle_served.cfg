\* A start after a detach to resident: the property the run refutes.
SPECIFICATION FairSpec
CONSTANTS
  Threads = {t1}
  Injectors = {i1, i2}
  Faults <- ResidentFaults
PROPERTIES StartIsServed
