\* Two processes over two sessions, three catalog releases, two keys and one
\* entry; one stored image and two routes; one plugin theme.
CONSTANTS
  Documents <- Catalogs
  Files <- Configs
  Models <- Models2
  Bare <- BareNames
  NoDocument = NoDocument
  Apis = {"responses"}
  Procs = {"p1", "p2"}
  Published <- Releases
  Bundled <- Shipped
  MaxFaults = 1
  MaxFetches = 3
  Entries = {"a"}
  ApiKeys = {"k1", "k2"}
  Themes = {"dark", "light"}
  Shortcuts = {"f1", "f2"}
  MaxEdits = 1
  MaxOps = 3
  MigratesAlone = TRUE
  Contents = {"c"}
  Routes = {"r", "s"}
  HasVision = TRUE
  Overlaps = FALSE
  MaxImages = 2
  MaxRetries = 1
  MaxSwitches = 1
  MaxCrashes = 1
  Terminal = "light"
  Presets = {"plain", "vim"}
  Texts = {"mine"}
  Styles = {"default"}
  Records = {"standard", "card"}
  MaxKeys = 3
  MaxOpens = 2
  MaxEvents = 1
  u1 = u1
  u2 = u2
  Sessions = {u1, u2}
  MaxRecords = 2
  MaxStarts = 2
  MaxSweeps = 1
SYMMETRY InterchangeableSessions
SPECIFICATION Spec
INVARIANT ChoicesAreKept
INVARIANT CatalogIsCurrent
 
 
 
INVARIANT SessionsAreOwned
PROPERTY StoresOnlyMoveOn
CHECK_DEADLOCK FALSE
