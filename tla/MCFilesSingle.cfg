\* As MCFiles: is a call of a batch placed where it would be placed alone?
CONSTANTS
  Messages = {m1}
  Summary = Summary
  Resumed = Resumed
  Texts = {t1, t2}
  TornKinds = {"cut"}
  MaxHistory = 1
  MaxMessages = 2
  MaxCompactions = 2
  None = None
  a1 = a1
  a2 = a2
  x = x
  y = y
  Agents = {a1, a2}
  LineTexts = {x, y}
  FilesAtStart <- MCFilesAtStart
  NewLines <- MCNewLines
  ReadRanges <- MCReadRanges
  Targets <- MCTargets
  MaxViews <- MCViews
  MaxBatches <- MCBatches
  MaxCalls <- MCCalls
  MaxDrift = 2
  MaxLines = 4
  MaxEdits = 2
  MaxOutside = 1
SPECIFICATION FilesSpec
INVARIANT BatchAgreesWithSingle
CHECK_DEADLOCK TRUE
