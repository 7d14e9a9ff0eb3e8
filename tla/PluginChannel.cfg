\* Two requests, one slot, a plugin with tools of its own.
CONSTANTS
  Requests = {1, 2}
  Operations = {"invoke", "intercept", "render"}
  Services = {}
  OwnTools = TRUE
  MAX_CONCURRENT = 1
SPECIFICATION FairSpec
PROPERTY CancelledCallsReturn
CHECK_DEADLOCK FALSE
