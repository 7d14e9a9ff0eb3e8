\* Three skill files and all hooks; two plugins with three generation numbers,
\* one chain and one call in flight, one management request; two flows and two
\* grants.
CONSTANTS
  Files <- MCFiles
  Configured = {"UserPromptSubmit", "PreToolUse", "PermissionRequest", "Stop"}
  MAX_REDIRECTS = 1
  MaxEpoch = 1
  a = a
  b = b
  Plugins = {a, b}
  g1 = g1
  g2 = g2
  g3 = g3
  Gens = {g1, g2, g3}
  Chained = {chain}
  CallSlots = {call}
  Order <- Order2
  WithActions = {b}
  Kinds <- MCKinds
  MaxRequests <- OneEach
  Flows = {f, g}
  MaxGrants = 2
SYMMETRY Interchangeable
SPECIFICATION Spec
INVARIANT GatesHold
INVARIANT PluginsArePinned
PROPERTY OutcomesAreHonest
PROPERTY GrantsAreKept
CHECK_DEADLOCK TRUE
