\* Two requests in two turns with a retry; six messages and four passes;
\* histories of four messages on five endpoints; two requests to a worker.
CONSTANTS
  MaxRetries = 1
  MaxRequests = 2
  MaxTurns = 2
  Recent = 3
  MinimumRecent = 1
  Budget = 8
  Line = 6
  Sizes = {1, 3}
  MaxSegments = 2
  FollowUps = TRUE
  MaxMessages = 6
  MaxPasses = 4
  Endpoints <- FiveEndpoints
  MaxLength = 4
  MaxCalls = 2
  Streams <- ThreeStreams
  Fragments = 3
  Requests = {1, 2}
  Operations = {"intercept", "render"}
  Services = {1}
  OwnTools = TRUE
  MAX_CONCURRENT = 1
SPECIFICATION Spec
INVARIANT RequestsEndClean
PROPERTY OneDisposition
INVARIANT EvictionIsWhole
 
 
CHECK_DEADLOCK FALSE
