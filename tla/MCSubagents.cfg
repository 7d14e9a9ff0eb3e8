\* Two children, one or two slots, every fault and a restart.
CONSTANTS
  Children = {c1, c2}
  Root = Root
  None = None
  Limits = {1, 2}
  MaxRetained = 2
  Faults = {"save", "cancel", "crash"}
  MaxInputs = 2
  MaxCrashes = 1
SPECIFICATION Spec
SYMMETRY InterchangeableChildren
PROPERTY WordIsKept
INVARIANT GroupIsAccounted
CHECK_DEADLOCK FALSE
