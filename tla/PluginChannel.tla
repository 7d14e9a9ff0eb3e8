----------------------------- MODULE PluginChannel -----------------------------
(***************************************************************************)
(* The request channel to one plugin generation: the host's requests with  *)
(* their deadline, cancellation and teardown (plugins/process.py), the     *)
(* calls and continuations the worker makes inside them                    *)
(* (plugins/hostcalls.py), and the worker's own loop (plugins/worker.py).  *)
(*                                                                         *)
(* Plugin code may do whatever Python lets it: answer late or never, leave *)
(* tasks behind that go on calling the host.  Frames are unordered: what   *)
(* tasks of one worker write has no order to rely on.                      *)
(***************************************************************************)
EXTENDS Integers, FiniteSets

CONSTANTS Requests, \* identities of requests, numbers from 1
          Operations, \* what they may ask for: "invoke", "intercept", "render"
          Services, \* identities of host calls
          OwnTools, \* whether the work below next() may call the same plugin again
          MAX_CONCURRENT

VARIABLES
    req,      \* a request: what it asks for, below whose next() (0: none), how far it is, its future
    task,     \* the worker's task for it: "none", "running", "unwinding" or "over"
    used,     \* next() was called, by request
    frames,   \* what the worker has written and the host not read
    service,  \* a host call: its parent and how far it is
    next,     \* the continuation of a request: "none", "ready", "running", "cancelled" or "over"
    error,    \* the generation failed
    process,  \* whether the worker's process lives
    reader,   \* whether _read runs
    lock,     \* who holds _close_lock: a request, the owner of the generation, or nobody
    stage,    \* how far that close is
    closed,   \* _closed_once
    retiring  \* the owner's close: "no", "close" or "done"

vars == <<req, task, used, frames, service, next, error, process, reader, lock, stage, closed, retiring>>

Owner == 0
Nobody == -1
NoRequest == [op |-> "none", by |-> 0, step |-> "none", future |-> "none"]
NoService == [parent |-> 0, step |-> "none"]

Frame(kind, r, c) == [kind |-> kind, req |-> r, call |-> c]
Effectful == {"invoke", "intercept"}

worker == <<task, used>>
teardown == <<lock, stage, closed, retiring>>

-----------------------------------------------------------------------------
(* Who waits for what.                                                     *)

Pending(r) == req[r].step \in {"sent", "grace", "close"} /\ req[r].future = "pending"

\* Mutant: any request the worker names will do.
Admitted_mut(r) == req[r].op \in Effectful
\* A host call belongs to a request in progress that may have effects.
Admitted(r) == Pending(r) /\ req[r].op \in Effectful

Called == {c \in Services : service[c].step \in {"running", "cancelled"}}
CallsOf(r) == {c \in Called : service[c].parent = r}
Active(r) == next[r] \in {"running", "cancelled"}
Below(r) == {q \in Requests : req[q].by = r /\ req[q].step \notin {"none", "returned"}}

CancelServices(those) == service' = [c \in Services |-> IF c \in those /\ service[c].step = "running" THEN [service[c] EXCEPT !.step = "cancelled"] ELSE service[c]]
CancelNext(those) ==
    next' = [r \in Requests |-> IF r \notin those THEN next[r] ELSE IF next[r] = "running" THEN "cancelled"
                                ELSE IF next[r] = "ready" THEN "over" ELSE next[r]]

Goes(r, step) == req' = [req EXCEPT ![r].step = step]

-----------------------------------------------------------------------------
(* The host's requests.                                                    *)

\* request: the frame is written, unless the generation failed. By is the
\* continuation whose task makes the request, if any.
Request(r, op, by) ==
    /\ req[r] = NoRequest /\ \A q \in Requests : q < r => req[q] # NoRequest
    /\ by # 0 => OwnTools /\ next[by] = "running" /\ Below(by) = {}
    /\ IF error \/ ~process
       THEN /\ req' = [req EXCEPT ![r] = [op |-> op, by |-> by, step |-> "unwind", future |-> "failed"]]
            /\ UNCHANGED <<task, next>>
       ELSE /\ req' = [req EXCEPT ![r] = [op |-> op, by |-> by, step |-> "sent", future |-> "pending"]]
            /\ task' = [task EXCEPT ![r] = "running"]
            /\ next' = IF op = "intercept" THEN [next EXCEPT ![r] = "ready"] ELSE next
    /\ UNCHANGED <<used, frames, service, error, process, reader, teardown>>

Answered(r) ==
    /\ req[r].step = "sent" /\ req[r].future # "pending" /\ Goes(r, "unwind")
    /\ UNCHANGED <<worker, frames, service, next, error, process, reader, teardown>>

\* The deadline stands still while the work below next() runs.
TimesOut(r) ==
    /\ req[r].step = "sent" /\ Pending(r) /\ ~Active(r)
    /\ error' = TRUE /\ Goes(r, "close")
    /\ UNCHANGED <<worker, frames, service, next, process, reader, teardown>>

\* A cancellation asks the worker to cancel its task, and gives it a moment.
Cancelled(r) ==
    /\ req[r].step = "sent" /\ Goes(r, "grace")
    /\ task' = IF ~error /\ process /\ task[r] = "running" THEN [task EXCEPT ![r] = "unwinding"] ELSE task
    /\ UNCHANGED <<used, frames, service, next, error, process, reader, teardown>>
UserCancels(r) == req[r].by = 0 /\ Cancelled(r)
GraceOver(r) ==
    /\ req[r].step = "grace"
    /\ Goes(r, IF req[r].future = "pending" \/ error THEN "close" ELSE "unwind")
    /\ UNCHANGED <<worker, frames, service, next, error, process, reader, teardown>>

\* Mutant: the calls of a finished request are left to end by themselves.
Settles_mut(r) == {}
\* The finally clause cancels and joins what the worker began inside the request.
Settles(r) == CallsOf(r)

Unwind(r) ==
    /\ req[r].step = "unwind" /\ Goes(r, "joining")
    /\ CancelServices(Settles(r)) /\ CancelNext({r})
    /\ UNCHANGED <<worker, frames, error, process, reader, teardown>>
Returned(r) ==
    /\ req[r].step = "joining" /\ Settles(r) = {} /\ ~Active(r)
    /\ req' = [req EXCEPT ![r] = [@ EXCEPT !.by = 0, !.step = "returned", !.future = "none"]]
    /\ UNCHANGED <<worker, frames, service, next, error, process, reader, teardown>>

-----------------------------------------------------------------------------
(* Host calls and continuations.                                           *)

ServiceEnds(c) ==
    /\ c \in Called /\ service' = [service EXCEPT ![c].step = "over"]
    /\ UNCHANGED <<req, worker, frames, next, error, process, reader, teardown>>

\* The continuation's task ends with the work below it, whether that is done or
\* cancelled; a cancellation reaches the request it waits for first.
NextEnds(r) ==
    /\ Active(r) /\ Below(r) = {} /\ next' = [next EXCEPT ![r] = "over"]
    /\ UNCHANGED <<req, worker, frames, service, error, process, reader, teardown>>
BelowCancelled(q) ==
    /\ req[q].by # 0 /\ next[req[q].by] = "cancelled"
    /\ \/ Cancelled(q)
       \/ /\ req[q].step = "close" /\ lock # q /\ Goes(q, "unwind")
          /\ UNCHANGED <<worker, frames, service, next, error, process, reader, teardown>>

-----------------------------------------------------------------------------
(* The worker.                                                             *)

\* respond: every end of the handler is an answer, once.
Respond(r) ==
    /\ process /\ task[r] \in {"running", "unwinding"}
    /\ task' = [task EXCEPT ![r] = "over"] /\ frames' = frames \cup {Frame("reply", r, 0)}
    /\ UNCHANGED <<req, used, service, next, error, process, reader, teardown>>

\* Continuation.__call__: once, before the handler has returned.
CallNext(r) ==
    /\ process /\ req[r].op = "intercept" /\ task[r] \in {"running", "unwinding"} /\ ~used[r]
    /\ used' = [used EXCEPT ![r] = TRUE] /\ frames' = frames \cup {Frame("continue", r, 0)}
    /\ UNCHANGED <<req, task, service, next, error, process, reader, teardown>>

\* call_host, also from what a handler left behind: a task keeps the context it
\* was made in.
CallHost(r, c) ==
    /\ process /\ req[r].op \in Effectful /\ task[r] \in {"running", "unwinding", "over"}
    /\ service[c] = NoService
    /\ service' = [service EXCEPT ![c] = [parent |-> r, step |-> "asked"]]
    /\ frames' = frames \cup {Frame("service", r, c)}
    /\ UNCHANGED <<req, worker, next, error, process, reader, teardown>>

\* It ends by itself: a crash, os._exit, a signal.
Die ==
    /\ process /\ process' = FALSE /\ task' = [r \in Requests |-> IF task[r] = "none" THEN "none" ELSE "over"]
    /\ UNCHANGED <<req, used, frames, service, next, error, reader, teardown>>

-----------------------------------------------------------------------------
(* The reader.                                                             *)

ReadReply(r) ==
    /\ reader /\ Frame("reply", r, 0) \in frames /\ frames' = frames \ {Frame("reply", r, 0)}
    /\ req' = IF Pending(r) THEN [req EXCEPT ![r].future = "answered"] ELSE req
    /\ UNCHANGED <<worker, service, next, error, process, reader, teardown>>
ReadService(r, c) ==
    /\ reader /\ Frame("service", r, c) \in frames /\ frames' = frames \ {Frame("service", r, c)}
    /\ service' = [service EXCEPT ![c].step = IF Admitted(r) /\ Cardinality(Called) < MAX_CONCURRENT THEN "running" ELSE "over"]
    /\ UNCHANGED <<req, worker, next, error, process, reader, teardown>>
ReadContinue(r) ==
    /\ reader /\ Frame("continue", r, 0) \in frames /\ frames' = frames \ {Frame("continue", r, 0)}
    /\ next' = IF next[r] = "ready" /\ Admitted(r) THEN [next EXCEPT ![r] = "running"] ELSE next
    /\ UNCHANGED <<req, worker, service, error, process, reader, teardown>>

\* Mutant: the end of the stream is noted, those who wait are not told.
FailPending_mut == req
\* Every request without an answer fails.
FailPending == [r \in Requests |-> IF Pending(r) THEN [req[r] EXCEPT !.future = "failed"] ELSE req[r]]

\* The stream ends, or the drain of a close cancels the reader.
ReaderEnds ==
    /\ reader /\ ((~process /\ frames = {}) \/ stage = "drain")
    /\ reader' = FALSE /\ frames' = {} /\ error' = TRUE
    /\ req' = FailPending
    /\ CancelServices(Services) /\ CancelNext(Requests)
    /\ UNCHANGED <<worker, process, teardown>>

-----------------------------------------------------------------------------
(* close.                                                                  *)

\* Parking, a reload, disable or the end of the session.
Retire ==
    /\ retiring = "no" /\ retiring' = "close"
    /\ UNCHANGED <<req, worker, frames, service, next, error, process, reader, lock, stage, closed>>

Wants(t) == IF t = Owner THEN retiring = "close" ELSE req[t].step = "close"
Leaves(t) ==
    IF t = Owner THEN retiring' = "done" /\ UNCHANGED req ELSE Goes(t, "unwind") /\ UNCHANGED retiring

\* The lock is taken: what is closed is closed; otherwise everything under way on
\* the host's side is cancelled, to be joined.
Acquire(t) ==
    /\ lock = Nobody /\ Wants(t)
    /\ IF closed THEN Leaves(t) /\ UNCHANGED <<lock, stage, service, next>>
       ELSE lock' = t /\ stage' = "join" /\ CancelServices(Services) /\ CancelNext(Requests) /\ UNCHANGED <<req, retiring>>
    /\ UNCHANGED <<worker, frames, error, process, reader, closed>>
Joined ==
    /\ stage = "join"
    /\ \A c \in Services : service[c].step # "cancelled"
    /\ \A r \in Requests : next[r] # "cancelled"
    /\ stage' = "ask"
    /\ UNCHANGED <<req, worker, frames, service, next, error, process, reader, lock, closed, retiring>>

\* The worker is asked to shut down, which cancels its tasks, for a second at most.
Ask ==
    /\ stage = "ask" /\ stage' = "kill"
    /\ task' = IF ~error /\ process THEN [r \in Requests |-> IF task[r] = "running" THEN "unwinding" ELSE task[r]] ELSE task
    /\ UNCHANGED <<req, used, frames, service, next, error, process, reader, lock, closed, retiring>>

\* Mutant: a worker that has failed is taken for gone.
Kills_mut == ~error
\* Its group is killed, whatever it answered.
Kills == TRUE
Kill ==
    /\ stage = "kill" /\ stage' = "drain"
    /\ process' = (process /\ ~Kills)
    /\ task' = [r \in Requests |-> IF task[r] = "none" \/ ~Kills THEN task[r] ELSE "over"]
    /\ UNCHANGED <<req, used, frames, service, next, error, reader, lock, closed, retiring>>
Drained ==
    /\ stage = "drain" /\ ~reader
    /\ stage' = "none" /\ lock' = Nobody /\ closed' = TRUE /\ Leaves(lock)
    /\ UNCHANGED <<worker, frames, service, next, error, process, reader>>

Init ==
    /\ req = [r \in Requests |-> NoRequest] /\ task = [r \in Requests |-> "none"] /\ used = [r \in Requests |-> FALSE]
    /\ frames = {} /\ service = [c \in Services |-> NoService] /\ next = [r \in Requests |-> "none"]
    /\ error = FALSE /\ process = TRUE /\ reader = TRUE
    /\ lock = Nobody /\ stage = "none" /\ closed = FALSE /\ retiring = "no"

Next ==
    \/ ReaderEnds \/ Die \/ Retire \/ Joined \/ Ask \/ Kill \/ Drained
    \/ \E t \in Requests \cup {Owner} : Acquire(t)
    \/ \E c \in Services : ServiceEnds(c)
    \/ \E r \in Requests :
         \/ \E op \in Operations, by \in Requests \cup {0} : Request(r, op, by)
         \/ Answered(r) \/ TimesOut(r) \/ UserCancels(r) \/ GraceOver(r) \/ Unwind(r) \/ Returned(r)
         \/ NextEnds(r) \/ BelowCancelled(r) \/ Respond(r) \/ CallNext(r)
         \/ ReadReply(r) \/ ReadContinue(r)
         \/ \E c \in Services : CallHost(r, c) \/ ReadService(r, c)
Spec == Init /\ [][Next]_vars

\* The event loop goes on with whatever task can run; the host's own work below
\* next() and its services end. Plugin code need not do anything.
HostSteps(r) ==
    \/ Answered(r) \/ GraceOver(r) \/ Unwind(r) \/ Returned(r) \/ NextEnds(r) \/ BelowCancelled(r) \/ Acquire(r)
FairSpec ==
    /\ Spec /\ WF_vars(ReaderEnds) /\ WF_vars(Joined) /\ WF_vars(Ask) /\ WF_vars(Kill) /\ WF_vars(Drained)
    /\ \A r \in Requests : WF_vars(HostSteps(r))
    /\ \A c \in Services : WF_vars(ServiceEnds(c))

-----------------------------------------------------------------------------
\* What a worker makes the host do ends before the request it was done for
\* returns, and nothing begins for one that has (hostcalls.py:1-6).
HostWorkBelongsToACall ==
    /\ \A c \in Called : req[service[c].parent].step # "returned"
    /\ \A r \in Requests : Active(r) => req[r].step # "returned"

\* After the teardown nobody waits for an answer, and neither the process nor
\* anything it asked for is left (process.py:228-231).
ClosedIsQuiet ==
    closed => ~process /\ ~reader /\ \A r \in Requests : ~Pending(r)

\* "Cancellation must never strand the host's turn" (process.py:157).
CancelledCallsReturn == \A r \in Requests : (req[r].step = "grace") ~> (req[r].step = "returned")
=============================================================================
