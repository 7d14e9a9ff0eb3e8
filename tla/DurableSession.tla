--------------------------- MODULE DurableSession ---------------------------
(***************************************************************************)
(* What saving a session promises, with no log, delta or marker: durable   *)
(* is always some state the session was captured in, whole; a save         *)
(* replaces it at one point or not at all; a crash costs what was not yet  *)
(* persisted and nothing else; a reload resumes what is durable.           *)
(***************************************************************************)
CONSTANTS Capture(_),   \* what a snapshot of a session holds
          Resume(_),    \* the session a snapshot reloads to
          Nothing       \* no durable state, no capture in flight

VARIABLES live, captured, durable, up

vars == <<live, captured, durable, up>>

Init == captured = Nothing /\ durable = Nothing /\ up = TRUE

\* The session goes on, whether or not a capture is being written.
Work == up /\ UNCHANGED <<captured, durable, up>>

BeginSave ==
  /\ up
  /\ captured = Nothing
  /\ captured' = Capture(live)
  /\ UNCHANGED <<live, durable, up>>

Persist ==
  /\ up
  /\ captured # Nothing
  /\ durable' = captured
  /\ captured' = Nothing
  /\ UNCHANGED <<live, up>>

SaveFails ==
  /\ up
  /\ captured' = Nothing
  /\ UNCHANGED <<live, durable, up>>

Die == up /\ up' = FALSE /\ captured' = Nothing /\ UNCHANGED durable

Reload ==
  /\ ~up
  /\ up' = TRUE
  /\ IF durable = Nothing THEN TRUE ELSE live' = Resume(durable)
  /\ UNCHANGED <<captured, durable>>

Next == Work \/ BeginSave \/ Persist \/ SaveFails \/ Die \/ Reload

Spec == Init /\ [][Next]_vars
=============================================================================
