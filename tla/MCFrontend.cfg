\* Three submitted lines and one restored; one approval, one browser and one
\* dialog; panes of three and four rows over two writes; five things said;
\* three agents.
CONSTANTS
  MaxInputs = 3
  Kinds = {"image", "command"}
  HeldAtStart = {1}
  Openers = {"browser", "dialog"}
  Exclusive = {"browser"}
  Patient = {"dialog"}
  MaxAsks = 2
  PaneRows = {3, 4}
  AppRows = {1, 2}
  MAX_REPLAY = 1
  MaxWrites = 2
  MaxSaid = 5
  MaxFails = 1
  Texts = {"a", "b"}
  MaxKeys = 4
  MaxScans = 2
  MaxOpens = 2
  Children = {"a", "b", "c"}
  ParentOf <- MCParents
  Past = {"c"}
  MaxLoads = 3
  MaxPicks = 4
  LoadsAlone = TRUE
  MaxLines = 2
  Apart = TRUE
  MaxSent = 4
SPECIFICATION Spec
 
INVARIANT TheRowIsShared
INVARIANT ScreenIsKept
INVARIANT OutputIsInOrder
INVARIANT MenusAreCurrent
 
INVARIANT TypingSurvivesStartup
CHECK_DEADLOCK TRUE
