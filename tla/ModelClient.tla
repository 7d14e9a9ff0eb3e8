------------------------------ MODULE ModelClient ------------------------------
(***************************************************************************)
(* The requests one agent sends to its model (model/client.py,             *)
(* model/interception.py, the three wires in model/).  A logical request   *)
(* passes the plugins that intercept model.request, is sent as one or more *)
(* provider attempts, each a child task, and ends in one way only.  The    *)
(* user may claim the attempt in flight to have it sent again, the turn    *)
(* may be cancelled and the client closed, at any time.                    *)
(***************************************************************************)
EXTENDS Naturals

CONSTANTS MaxRetries,   \* MODEL_REQUEST_RETRIES
          MaxRequests,  \* bound on logical requests
          MaxTurns      \* bound on turns

VARIABLES
  wire,      \* the protocol the provider speaks, and whether it streams
  turn,      \* [n |-> round_count, cancelling |-> the turn's task is being cancelled]
  request,   \* the logical request: number, phase, outcome, matched by a plugin, retry_of
  link,      \* _retry_of and _last_request
  attempt,   \* attempts of this request so far
  serial,    \* provider attempts so far; the newest is the one in flight
  task,      \* the child task: how far it is and how it ended
  control,   \* _attempt and _attempt_claimed, shared with the UI thread
  cancels,   \* attempts whose cancellation is scheduled on the loop
  stream,    \* what the stream of the attempt has shown
  core,      \* the operation receipt's core, in memory
  disk,      \* the same in the last saved snapshot
  closed,    \* close() has been called
  replaced   \* history: <<turn, request>> the user had sent again

receipt == <<core, disk>>
vars == <<wire, turn, request, link, attempt, serial, task, control, cancels, stream, receipt, closed, replaced>>

Wires == {"chat", "responses", "anthropic", "unstreamed"}
Silent == [text |-> FALSE, textDone |-> FALSE, handoff |-> FALSE, promoted |-> FALSE, handed |-> 0, cut |-> FALSE]
NoTask == [pc |-> "none", out |-> "none"]
NoLink == [turn |-> 0, request |-> 0, last |-> 0]
Released == [held |-> FALSE, claimed |-> FALSE]

Init ==
  /\ wire \in Wires
  /\ turn = [n |-> 1, cancelling |-> FALSE]
  /\ request = [n |-> 0, phase |-> "idle", outcome |-> "none", matched |-> FALSE, retry_of |-> 0]
  /\ link = NoLink /\ attempt = 0 /\ serial = 0 /\ task = NoTask /\ control = Released
  /\ cancels = {} /\ stream = Silent /\ core = "none" /\ disk = "none"
  /\ closed = FALSE /\ replaced = {}

In(phase) == request.phase = phase

------------------------------------------------------------------------------
(* The logical request *)

\* _attempt_request creates the child and publishes it under the lock.
StartAttempt ==
  /\ serial' = serial + 1
  /\ task' = [pc |-> "running", out |-> "none"]
  /\ control' = [held |-> TRUE, claimed |-> FALSE]
  /\ stream' = Silent

NoAttempt == UNCHANGED <<serial, task, control, stream>>

RetryOfMut == link.request   \* Mutant: a claim outlives the turn it was made in

\* A retry links only within the turn that claimed it.
RetryOf == IF link.turn = turn.n THEN link.request ELSE 0

\* request() and logical_request(): without a matching interceptor it is sent
\* at once; otherwise it gets a receipt that says nothing has run.
Begin ==
  /\ In("idle") /\ ~turn.cancelling /\ ~closed /\ request.n < MaxRequests
  /\ \E matched \in BOOLEAN :
       /\ request' = [n |-> request.n + 1, phase |-> IF matched THEN "intercept" ELSE "wait",
                      outcome |-> "none", matched |-> matched, retry_of |-> RetryOf]
       /\ link' = [NoLink EXCEPT !.last = IF matched THEN request.n + 1 ELSE 0]
       /\ IF matched THEN NoAttempt /\ attempt' = 0 ELSE StartAttempt /\ attempt' = 1
       /\ core' = IF matched THEN "not_run" ELSE "none"
       /\ disk' = "none"
  /\ UNCHANGED <<wire, turn, cancels, closed, replaced>>

\* The one way a logical request ends; a replaced one is remembered for the
\* request that is rebuilt from it.
End(outcome) ==
  /\ request' = [request EXCEPT !.phase = "idle", !.outcome = outcome]
  /\ link' = IF outcome = "retry" THEN [link EXCEPT !.turn = turn.n, !.request = link.last] ELSE link
  /\ replaced' = IF outcome = "retry" /\ link.last # 0 THEN replaced \cup {<<turn.n, link.last>>} ELSE replaced

\* A plugin fails, names a route that is not accepted, refuses, or answers itself.
PluginEnds ==
  /\ In("intercept")
  /\ \E outcome \in {"error", "refused", "replaced"} : End(outcome)
  /\ UNCHANGED <<wire, turn, attempt, serial, task, control, cancels, stream, receipt, closed>>

\* core(): the receipt says started and is saved before anything is sent.
Continue ==
  /\ In("intercept")
  /\ request' = [request EXCEPT !.phase = "saving"]
  /\ core' = "started"
  /\ UNCHANGED <<wire, turn, link, attempt, serial, task, control, cancels, stream, disk, closed, replaced>>

SendMut ==   \* Mutant: the checkpoint is started and not awaited
  /\ In("saving")
  /\ request' = [request EXCEPT !.phase = "wait"]
  /\ attempt' = 1 /\ StartAttempt
  /\ UNCHANGED <<wire, turn, link, cancels, core, disk, closed, replaced>>

Send ==
  /\ In("saving")
  /\ request' = [request EXCEPT !.phase = "wait"]
  /\ disk' = core
  /\ attempt' = 1 /\ StartAttempt
  /\ UNCHANGED <<wire, turn, link, cancels, core, closed, replaced>>

SaveFails ==
  /\ In("saving") /\ core' = "failed" /\ End("error")
  /\ UNCHANGED <<wire, turn, attempt, serial, task, control, cancels, stream, disk, closed>>

\* After the provider answered, the plugin keeps, replaces or refuses the
\* answer, or fails.
Deliver ==
  /\ In("after") /\ ~turn.cancelling
  /\ \E outcome \in {"answer", "replaced", "refused", "error"} : End(outcome)
  /\ UNCHANGED <<wire, turn, attempt, serial, task, control, cancels, stream, receipt, closed>>

\* Any other save of the session carries the receipt along.
Save ==
  /\ request.matched /\ disk # core /\ disk' = core
  /\ UNCHANGED <<wire, turn, request, link, attempt, serial, task, control, cancels, stream, core, closed, replaced>>

------------------------------------------------------------------------------
(* The provider attempt: a stream, and the total-response deadline around it *)

Running == task.pc = "running"
Attempt(next) ==
  /\ Running /\ wire # "unstreamed" /\ stream' = next
  /\ UNCHANGED <<wire, turn, request, link, attempt, serial, task, control, cancels, receipt, closed, replaced>>

PromoteMut(s) ==   \* Mutant: only the end of the text hands it off
  IF s.textDone /\ s.handoff /\ s.text /\ ~s.promoted /\ ~stream.textDone
  THEN [s EXCEPT !.promoted = TRUE, !.handed = @ + 1] ELSE s

\* Finished text and a tool boundary arrive in either order; the second of
\* them hands the text off, once.
Promote(s) ==
  IF s.textDone /\ s.handoff /\ s.text /\ ~s.promoted
  THEN [s EXCEPT !.promoted = TRUE, !.handed = @ + 1] ELSE s

Text == /\ ~stream.textDone /\ ~stream.text
        /\ Attempt([stream EXCEPT !.text = TRUE])

\* Chat has no event for finished text.
TextDone == /\ wire # "chat" /\ stream.text /\ ~stream.textDone
            /\ Attempt(Promote([stream EXCEPT !.textDone = TRUE]))

\* A tool block, local or the provider's, begins or its arguments stream.
ToolSeen == Attempt(IF wire = "chat" THEN [stream EXCEPT !.handoff = TRUE]
                    ELSE Promote([stream EXCEPT !.handoff = TRUE]))

\* Ends the attempt: its lease is over and its client is being closed.
Leave(out, s) ==
  /\ task' = [pc |-> "closing", out |-> out]
  /\ stream' = s
  /\ UNCHANGED <<wire, turn, request, link, attempt, serial, control, cancels, receipt, closed, replaced>>

\* finish_reason=tool_calls, response.completed or message_stop: on chat and
\* responses it also proves the text final.
Answered ==
  /\ Running
  /\ wire = "anthropic" /\ stream.text => stream.textDone
  /\ Leave("answer", IF wire \in {"chat", "responses"} THEN Promote([stream EXCEPT !.textDone = stream.text]) ELSE stream)

\* The stream stops without its terminal event, or on chat with another
\* finish_reason: responses raises ModelStreamIncomplete, the others take what
\* they have.
StreamEnds ==
  /\ Running /\ wire # "unstreamed"
  /\ Leave(IF wire = "responses" THEN "transient" ELSE "answer", [stream EXCEPT !.cut = TRUE])

\* An error as retryable_error classes it; the total deadline, a truncated
\* generation and account failures are permanent.
Fails == Running /\ \E out \in {"transient", "permanent"} : Leave(out, stream)

\* The client closed, the result recorded: the child is done.
Finish ==
  /\ task.pc = "closing" /\ task' = [task EXCEPT !.pc = "done"]
  /\ UNCHANGED <<wire, turn, request, link, attempt, serial, control, cancels, stream, receipt, closed, replaced>>

------------------------------------------------------------------------------
(* Cancellation, from three sides *)

\* task.cancel() as the child meets it: a second one interrupts the close.
Cancelled(t) ==
  CASE t.pc = "running" -> [pc |-> "closing", out |-> "cancelled"]
    [] t.pc = "closing" -> [pc |-> "done", out |-> "cancelled"]
    [] OTHER -> t

\* retry_active_request, on the UI thread: the claim is made under the lock,
\* the cancellation reaches the loop later.
Claim ==
  /\ control.held /\ task.pc # "done" /\ ~control.claimed
  /\ control' = [control EXCEPT !.claimed = TRUE]
  /\ cancels' = cancels \cup {serial}
  /\ UNCHANGED <<wire, turn, request, link, attempt, serial, task, stream, receipt, closed, replaced>>

CancelArrives ==
  /\ \E a \in cancels :
       /\ cancels' = cancels \ {a}
       /\ task' = IF a = serial THEN Cancelled(task) ELSE task
  /\ UNCHANGED <<wire, turn, request, link, attempt, serial, control, stream, receipt, closed, replaced>>

CancelTurn ==
  /\ ~turn.cancelling /\ turn' = [turn EXCEPT !.cancelling = TRUE]
  /\ UNCHANGED <<wire, request, link, attempt, serial, task, control, cancels, stream, receipt, closed, replaced>>

\* Where the receipt stands when the request is abandoned.
Abandoned == IF In("after") THEN "completed" ELSE IF core = "started" THEN "failed" ELSE core

CancelDeliveredMut ==   \* Mutant: the cancelled request does not wait for its attempt
  /\ turn.cancelling /\ request.phase \in {"intercept", "saving", "backoff", "after", "wait"}
  /\ End("cancelled") /\ core' = Abandoned /\ task' = Cancelled(task)
  /\ UNCHANGED <<wire, turn, attempt, serial, control, cancels, stream, disk, closed>>

\* The turn's cancellation is raised where its task waits; an attempt in
\* flight is cancelled with it and waited for.
CancelDelivered ==
  /\ turn.cancelling
  /\ \/ /\ request.phase \in {"intercept", "saving", "backoff", "after"}
        /\ End("cancelled") /\ core' = Abandoned /\ UNCHANGED task
     \/ /\ In("wait")
        /\ request' = [request EXCEPT !.phase = "reap"]
        /\ task' = Cancelled(task)
        /\ UNCHANGED <<link, replaced, core>>
  /\ UNCHANGED <<wire, turn, attempt, serial, control, cancels, stream, disk, closed>>

Close ==
  /\ ~closed /\ closed' = TRUE
  /\ task' = IF control.held THEN Cancelled(task) ELSE task
  /\ UNCHANGED <<wire, turn, request, link, attempt, serial, control, cancels, stream, receipt, replaced>>

------------------------------------------------------------------------------
(* What an attempt that ended means *)

DispositionMut ==   \* Mutant: an attempt that answered is not asked whether it was claimed
  IF In("reap") \/ turn.cancelling THEN "cancelled"
  ELSE IF task.out = "cancelled" THEN IF control.claimed THEN "retry" ELSE "cancelled"
  ELSE IF task.out = "transient" /\ attempt <= MaxRetries THEN "again"
  ELSE IF task.out \in {"transient", "permanent"} THEN "error" ELSE "answer"

\* The turn's cancellation first, then the claim, then what the child says.
Disposition ==
  IF In("reap") \/ turn.cancelling THEN "cancelled"
  ELSE IF control.claimed THEN "retry"
  ELSE IF task.out = "cancelled" THEN "cancelled"
  ELSE IF task.out = "transient" /\ attempt <= MaxRetries THEN "again"
  ELSE IF task.out \in {"transient", "permanent"} THEN "error" ELSE "answer"

Settle ==
  /\ request.phase \in {"wait", "reap"} /\ task.pc = "done"
  /\ control' = Released
  /\ CASE Disposition = "again" ->
            /\ request' = [request EXCEPT !.phase = "backoff"]
            /\ attempt' = attempt + 1
            /\ UNCHANGED <<link, replaced, core>>
       [] Disposition = "answer" /\ request.matched ->
            /\ request' = [request EXCEPT !.phase = "after"]
            /\ core' = "completed"
            /\ UNCHANGED <<link, replaced, attempt>>
       [] OTHER -> /\ End(Disposition)
                   /\ core' = IF request.matched THEN "failed" ELSE core
                   /\ UNCHANGED attempt
  /\ UNCHANGED <<wire, turn, serial, task, cancels, stream, disk, closed>>

\* The backoff of retry_delay is over.
Again ==
  /\ In("backoff") /\ ~turn.cancelling
  /\ request' = [request EXCEPT !.phase = "wait"]
  /\ StartAttempt
  /\ UNCHANGED <<wire, turn, link, attempt, cancels, receipt, closed, replaced>>

NextTurn ==
  /\ In("idle") /\ turn.n < MaxTurns
  /\ turn' = [n |-> turn.n + 1, cancelling |-> FALSE]
  /\ UNCHANGED <<wire, request, link, attempt, serial, task, control, cancels, stream, receipt, closed, replaced>>

------------------------------------------------------------------------------
Next ==
  \/ Begin \/ PluginEnds \/ Continue \/ Send \/ SaveFails \/ Deliver \/ Save
  \/ Text \/ TextDone \/ ToolSeen \/ Answered \/ StreamEnds \/ Fails \/ Finish
  \/ Claim \/ CancelArrives \/ CancelTurn \/ CancelDelivered \/ Close
  \/ Settle \/ Again \/ NextTurn

Spec == Init /\ [][Next]_vars

------------------------------------------------------------------------------
(* Properties *)

\* A request ends one way, whatever raced: the answer of an attempt the user
\* claimed is thrown away even when it arrived before the cancellation, a
\* cancelled turn gets neither an answer nor a resend, and nobody is told of a
\* cancellation that did not happen (client.py:474-487).
DispositionsAreKeptApart ==
  [][/\ request.phase = "wait" /\ request'.phase \in {"after", "idle"} /\ (request'.phase = "after" \/ request'.outcome = "answer")
          => ~control.claimed /\ ~turn.cancelling
     /\ request'.phase = "idle" /\ request'.outcome = "retry" /\ request.phase # "idle" => control.claimed /\ ~turn.cancelling
     /\ request'.phase = "idle" /\ request'.outcome = "cancelled" /\ request.phase # "idle" => turn.cancelling \/ closed]_vars

\* No attempt outlives the request that sent it, and none is left for the user
\* to claim: not after a cancellation, an error, or between two retries
\* (client.py:461-466).
NothingOutlivesItsRequest ==
  request.phase \notin {"wait", "reap"} => task.pc \in {"none", "done"} /\ ~control.held

\* A crash at any moment finds no receipt that claims a request was never sent
\* when the provider may have got it (interception.py:178).
ReceiptsCoverSending ==
  request.matched /\ attempt > 0 => disk \in {"started", "completed", "failed"}

\* A request is said to replace another only if the user had that one sent
\* again in the same turn (client.py:353).
RetriesAreLinked ==
  request.retry_of # 0 => \E n \in 1..turn.n : <<n, request.retry_of>> \in replaced
                           /\ (request.phase # "idle" => n = turn.n)

\* When a streamed response with text and tools is complete, its text has been
\* handed to the transcript, exactly once, whichever came first
\* (responses.py:196, anthropic.py:286, chat.py:258).
TextIsHandedOffOnce ==
  [][Running /\ task'.pc = "closing" /\ task'.out = "answer" /\ wire # "unstreamed" /\ ~stream'.cut
       => stream'.handed = (IF stream.text /\ stream.handoff THEN 1 ELSE 0)]_vars
==============================================================================
