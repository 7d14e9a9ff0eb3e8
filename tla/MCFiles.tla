------------------------------- MODULE MCFiles -------------------------------
(* What the program keeps on disk: the log of a session, and the files agents   *)
(* edit.  Neither touches the other, so a behaviour moves one of them.         *)
EXTENDS SnapshotLog, FileEdits, TLC

CONSTANTS a1, a2, x, y

VARIABLE part

\* a1 plans through views while a2 edits by exact text; a file of two equal lines.
MCFilesAtStart == {<<x, y, y>>}
MCNewLines == {<<>>, <<x>>}
MCReadRanges == {<<1, 3>>}
MCTargets == {<<1, 1>>, <<2, 2>>, <<2, 3>>}
MCViews == a1 :> 2 @@ a2 :> 0
MCBatches == a1 :> 1 @@ a2 :> 1
MCCalls == a1 :> 2 @@ a2 :> 1

FilesInit == part \in {"log", "edits"} /\ Init /\ EditsInit
FilesNext ==
    \/ part = "log" /\ Next /\ UNCHANGED <<part, editVars>>
    \/ part = "edits" /\ EditsNext /\ UNCHANGED <<part, vars>>
    \* agents come to rest once their batches are used up
    \/ part = "edits" /\ UNCHANGED <<part, vars, editVars>>
FilesSpec == FilesInit /\ [][FilesNext]_<<part, vars, editVars>>
==============================================================================
