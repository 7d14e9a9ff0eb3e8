\* Four batches and three requests of scripts; two siblings; one command,
\* a buffer of one character and one job slot.
CONSTANTS
  Batches <- Emitted
  Requests <- Scripted
  Capacities = {1, 2}
  MaxRequests = 2
  MaxCancels = 2
  Siblings = {c1, c2}
  Root = Root
  None = None
  Shapes <- Commands
  MaxProcs = 1
  MaxBytes = 5
  MAX_JOBS = 1
  BUFFER_LIMIT = 1
  Promotes = TRUE
SPECIFICATION AllSpec
INVARIANT CallsAreContained
INVARIANT ResultsAreTruthful
INVARIANT JobsAreAccounted
PROPERTY EverythingComesBack
CHECK_DEADLOCK FALSE
