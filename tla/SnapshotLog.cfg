\* An append may also stop between a record and its newline.
CONSTANTS
  Messages = {m1}
  Summary = Summary
  Resumed = Resumed
  Texts = {t1, t2}
  TornKinds = {"cut", "split", "whole"}
  MaxHistory = 1
  MaxMessages = 2
  MaxCompactions = 2
  None = None
SPECIFICATION Spec
INVARIANT SaveIsExact
CHECK_DEADLOCK TRUE
