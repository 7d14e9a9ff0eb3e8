\* Two inputs and a child, one step and one correction, every fault and a restart.
CONSTANTS
  Inputs = {i1, i2}
  Children = {c1}
  None = None
  Faults = {"prepare", "break", "crash"}
  MaxSteps = 1
  MaxCorrections = 1
  MaxRedirects = 1
  MaxRetries = 1
  MaxResults = 1
  MaxCrashes = 1
SPECIFICATION FairSpec
INVARIANT TurnIsAccounted
PROPERTY NothingIsDropped
PROPERTY TurnsEnd
CHECK_DEADLOCK TRUE
