----------------------------- MODULE ToolRunner -----------------------------
(***************************************************************************)
(* One agent's tool runner (wizolt/agent/runner.py): the batches of calls  *)
(* a model emits, their segments, approvals, workers and cancellation, and *)
(* ToolScript, whose script runs on a thread of its own and reaches the    *)
(* runner through a gateway (wizolt/tools/toolscript.py).                  *)
(*                                                                         *)
(* A call is its kind.  What it prints, reads or writes is left out, and   *)
(* so is whether a tool's output is good; hooks, plans and the display are *)
(* part of the step they belong to.  Everything but a script's own steps   *)
(* happens on the event loop.                                              *)
(***************************************************************************)
EXTENDS Naturals, Sequences, FiniteSets

CONSTANTS Batches,        \* sequences of kinds a model may emit
          Requests,       \* what a script may ask: [calls, many], many for call_many
          Capacities,     \* values of max_parallel_tools
          MaxRequests,    \* bound: requests of the scripts of one batch
          MaxCancels      \* bound: cancellations of one batch

VARIABLES pc,       \* where run() is
          work,     \* the calls of the batch, and of the nested request being served
          out,      \* indices of the calls answered, in the order of their messages
          observed, \* indices of the calls whose observation follows the messages
          refused,  \* state["refused"]
          capacity, \* permits of the batch's semaphore
          cancels,  \* cancellations of the batch's task
          hurried,  \* one of them while the gateway was closing
          script,   \* the script's thread
          request,  \* its request to the gateway
          answer,   \* what its future holds
          asked,    \* requests it has made
          gate      \* the gateway admits requests

vars == <<pc, work, out, observed, refused, capacity, cancels, hurried, script, request, answer, asked, gate>>

Frames == {"batch", "nested"}

Kinds == {"read",     \* a file is read on a worker
          "fetch",    \* a native read-only call, on the loop
          "edit",     \* a planned edit: asks, writes on a worker
          "write",    \* any other tool that mutates: asks, native
          "look",     \* produces an observation
          "wrapped",  \* a write that an interceptor matches
          "script", "unknown", "builtin"}

\* _build_call refuses scripts in scripts, and names no tool has.
NestedKinds == Kinds \ {"script", "unknown", "builtin"}

ASSUME WellFormed ==
    /\ Batches \subseteq Seq(Kinds)
    /\ Requests \subseteq [calls : Seq(NestedKinds), many : BOOLEAN]
    /\ Capacities \subseteq Nat \ {0}

\* Mutant: edits are planned apart, so they may overlap.
ParallelSafeEdits(kind) == kind \in {"read", "fetch", "edit"}

ParallelSafe(kind) == kind \in {"read", "fetch"}
EditBarrier(kind) == kind \notin {"read", "fetch", "edit"}
MayAsk(kind) == kind \in {"edit", "write", "wrapped", "script"}
Mutates(kind) == MayAsk(kind)

Final == {"ok", "failed", "refused", "skipped", "cancelled"}
Live == {"running", "stopping", "breaking"}

\* Of a call: its status, whether its body has begun, whether the user declined it; of an
\* intercepted one, the state of its receipt in memory (core) and in the log (disk).
NoReceipt == "none"

Fresh(calls, many) ==
    [calls |-> calls, many |-> many, at |-> 1, end |-> 0, parallel |-> FALSE, cancelled |-> FALSE,
     st |-> [i \in DOMAIN calls |-> "waiting"],
     ran |-> [i \in DOMAIN calls |-> FALSE],
     declined |-> [i \in DOMAIN calls |-> FALSE],
     core |-> [i \in DOMAIN calls |-> NoReceipt],
     disk |-> [i \in DOMAIN calls |-> NoReceipt]]

Empty == Fresh(<<>>, FALSE)

Init ==
    /\ pc = "idle" /\ work = [f \in Frames |-> Empty]
    /\ out = <<>> /\ observed = <<>> /\ refused = FALSE
    /\ capacity \in Capacities /\ cancels = 0 /\ hurried = FALSE
    /\ script = "none" /\ request = "none" /\ answer = "none" /\ asked = 0 /\ gate = FALSE

\* executor.shutdown(wait=True) holds the event loop until the script's thread is done.
LoopIsFree == pc # "joining"

Indices(f) == DOMAIN work[f].calls
Kind(f, i) == work[f].calls[i]
Status(f, i) == work[f].st[i]
Set(f, i, s) == work' = [work EXCEPT ![f].st[i] = s]

\* The frame's task goes on: the batch's while run() runs, a request's while it is served.
Active(f) ==
    /\ LoopIsFree /\ ~work[f].cancelled
    /\ IF f = "batch" THEN pc = "running" ELSE request = "serving"

ScriptVars == <<script, request, answer, asked, gate>>
BatchVars == <<pc, out, observed, refused, capacity, cancels, hurried>>
Elsewhere == UNCHANGED <<BatchVars, ScriptVars>>

-----------------------------------------------------------------------------
(* Segments.                                                               *)

\* The calls from i to end may overlap, and the next one may not; end = i - 1 if the first may not.
ParallelSegment(calls, i, end) ==
    /\ \A k \in i .. end : ParallelSafe(calls[k])
    /\ end < Len(calls) => ~ParallelSafe(calls[end + 1])

\* The calls up to the next barrier are one segment; a barrier is a segment of its own.
SerialSegment(calls, i, end) ==
    IF EditBarrier(calls[i]) THEN end = i
    ELSE /\ \A k \in i .. end : ~EditBarrier(calls[k])
         /\ end < Len(calls) => EditBarrier(calls[end + 1])

\* run(): one batch, with a semaphore and a gateway of its own.
Begin(calls) ==
    /\ pc \in {"idle", "returned", "cancelled"}
    /\ pc' = "running"
    /\ work' = [work EXCEPT !["batch"] = Fresh(calls, FALSE), !["nested"] = Empty]
    /\ out' = <<>> /\ observed' = <<>> /\ refused' = FALSE
    /\ capacity' \in Capacities /\ cancels' = 0 /\ hurried' = FALSE
    /\ script' = "none" /\ request' = "none" /\ answer' = "none" /\ asked' = 0 /\ gate' = TRUE

AtSegment(f) == Active(f) /\ work[f].at = work[f].end + 1 /\ work[f].at \in Indices(f)

OpenParallel(f, end) ==
    work' = [work EXCEPT ![f].end = end, ![f].parallel = TRUE,
                         ![f].st = [i \in Indices(f) |-> IF i \in work[f].at .. end THEN "queued" ELSE @[i]]]

OpenSerial(f, end) == work' = [work EXCEPT ![f].end = end, ![f].parallel = FALSE]

\* Mutant: a call skipped after a refusal gets no message.
SkipSilently ==
    /\ AtSegment("batch") /\ refused
    /\ work' = [work EXCEPT !["batch"].st[work["batch"].at] = "skipped", !["batch"].at = @ + 1, !["batch"].end = @ + 1]
    /\ UNCHANGED <<pc, out, observed, refused, capacity, cancels, hurried, ScriptVars>>

\* _run_batch after a refusal: every call that is left is answered "Skipped".
Skip ==
    /\ AtSegment("batch") /\ refused
    /\ work' = [work EXCEPT !["batch"].st[work["batch"].at] = "skipped", !["batch"].at = @ + 1, !["batch"].end = @ + 1]
    /\ out' = Append(out, work["batch"].at)
    /\ UNCHANGED <<pc, observed, refused, capacity, cancels, hurried, ScriptVars>>

\* _run_batch: a provider's own function is echoed.
Echo ==
    /\ AtSegment("batch") /\ ~refused /\ Kind("batch", work["batch"].at) = "builtin"
    /\ work' = [work EXCEPT !["batch"].st[work["batch"].at] = "ok", !["batch"].at = @ + 1, !["batch"].end = @ + 1]
    /\ out' = Append(out, work["batch"].at)
    /\ UNCHANGED <<pc, observed, refused, capacity, cancels, hurried, ScriptVars>>

\* _run_batch: two or more calls that may overlap, or the calls up to the next barrier, one by one.
OpenSegment ==
    /\ AtSegment("batch") /\ ~refused /\ Kind("batch", work["batch"].at) # "builtin"
    /\ LET calls == work["batch"].calls
           i == work["batch"].at
       IN \E parallel \in i - 1 .. Len(calls) :
            /\ ParallelSegment(calls, i, parallel)
            /\ IF parallel > i /\ capacity > 1 THEN OpenParallel("batch", parallel)
               ELSE \E end \in i .. Len(calls) : SerialSegment(calls, i, end) /\ OpenSerial("batch", end)
    /\ Elsewhere

\* run_nested: the same for a script's request, one call after the other; no refusal ends it.
OpenNested ==
    /\ AtSegment("nested")
    /\ LET calls == work["nested"].calls
           i == work["nested"].at
       IN \E parallel \in i - 1 .. Len(calls) :
            /\ ParallelSegment(calls, i, parallel)
            /\ IF work["nested"].many /\ parallel > i THEN OpenParallel("nested", parallel) ELSE OpenSerial("nested", i)
    /\ Elsewhere

-----------------------------------------------------------------------------
(* One call.  The statuses of an intercepted call: "wrapping" its handler, *)
(* "recording" that the tool starts, then run_one's own, "recorded" when   *)
(* the outcome is in its receipt, "relaying" back in the handler.          *)

\* What run_one does before anything runs: it refuses the call, asks, or admits it.
Admissions(kind) ==
    IF kind = "unknown" THEN {"failed"}
    ELSE {"failed", "queued"} \cup (IF MayAsk(kind) THEN {"asking"} ELSE {})

\* The next call of a serial segment.
Start(f) ==
    /\ Active(f) /\ work[f].at <= work[f].end /\ Status(f, work[f].at) = "waiting"
    /\ LET i == work[f].at
       IN IF Kind(f, i) = "wrapped"
            THEN work' = [work EXCEPT ![f].st[i] = "wrapping", ![f].core[i] = "not_run"]
            ELSE \E s \in Admissions(Kind(f, i)) : Set(f, i, s)
    /\ Elsewhere

\* confirm: the user agrees ...
Approve(f, i) == Active(f) /\ Status(f, i) = "asking" /\ Set(f, i, "queued") /\ Elsewhere

\* ... or declines.
Decline(f, i) ==
    /\ Active(f) /\ Status(f, i) = "asking"
    /\ work' = [work EXCEPT ![f].declined[i] = TRUE,
                            ![f].st[i] = IF Kind(f, i) = "wrapped" THEN "recorded" ELSE "refused",
                            ![f].core[i] = IF @ = "started" THEN "not_run" ELSE @]
    /\ Elsewhere

\* Calls whose worker holds a permit; a cancelled one holds it until the worker ends.
Holders(f) == {i \in Indices(f) : Kind(f, i) = "read" /\ Status(f, i) \in Live}

\* The body begins; a read takes a permit for its worker first, a script a thread of its own.
Execute(f, i) ==
    /\ Active(f) /\ Status(f, i) = "queued"
    /\ Kind(f, i) = "read" => Cardinality(Holders("batch")) + Cardinality(Holders("nested")) < capacity
    /\ work' = [work EXCEPT ![f].st[i] = "running", ![f].ran[i] = TRUE]
    /\ script' = IF Kind(f, i) = "script" THEN "computing" ELSE script
    /\ UNCHANGED <<BatchVars, request, answer, asked, gate>>

\* The body ends by itself; a script does with its thread.  Only an observation depends on whether
\* a body succeeds.
End(f, i) ==
    /\ Active(f) /\ Status(f, i) = "running"
    /\ Kind(f, i) = "script" => script = "ended"
    /\ IF Kind(f, i) = "wrapped"
         THEN work' = [work EXCEPT ![f].st[i] = "recorded", ![f].core[i] = "completed"]
         ELSE \E s \in {"ok"} \cup (IF Kind(f, i) = "look" THEN {"failed"} ELSE {}) : Set(f, i, s)
    /\ script' = IF Kind(f, i) = "script" THEN "none" ELSE script
    /\ UNCHANGED <<BatchVars, request, answer, asked, gate>>

\* A body that was told to stop has ended: a worker when it is done, a native call after its
\* teardown.
Stopped(f, i) ==
    /\ LoopIsFree /\ Status(f, i) \in {"stopping", "breaking"}
    /\ work' = [work EXCEPT ![f].st[i] = IF @ = "breaking" THEN "failed" ELSE "cancelled",
                            ![f].core[i] = IF @ = "started" THEN "interrupted" ELSE @,
                            ![f].disk[i] = IF @ = "started" THEN "interrupted" ELSE @]
    /\ Elsewhere

Wrapped(f, i, s) == Active(f) /\ Kind(f, i) = "wrapped" /\ Status(f, i) = s /\ Elsewhere

\* The handler answers or refuses in the tool's place, or breaks; the tool does not run.
AnswerInstead(f, i) ==
    /\ Wrapped(f, i, "wrapping")
    /\ \E s \in {"ok", "failed"} : work' = [work EXCEPT ![f].st[i] = s, ![f].disk[i] = "not_run"]

\* The handler calls next(): the receipt says the tool starts, and a save begins.
CallNext(f, i) ==
    /\ Wrapped(f, i, "wrapping")
    /\ work' = [work EXCEPT ![f].st[i] = "recording", ![f].core[i] = "started"]

\* Mutant: the tool does not wait for the save of its receipt.
AdmitUnrecorded(f, i) ==
    /\ Wrapped(f, i, "recording")
    /\ \E s \in Admissions("write") :
          work' = [work EXCEPT ![f].st[i] = IF s = "failed" THEN "recorded" ELSE s,
                               ![f].core[i] = IF s = "failed" THEN "not_run" ELSE @]

\* The save is done; run_one begins.
AdmitRecorded(f, i) ==
    /\ Wrapped(f, i, "recording")
    /\ \E s \in Admissions("write") :
          work' = [work EXCEPT ![f].st[i] = IF s = "failed" THEN "recorded" ELSE s,
                               ![f].core[i] = IF s = "failed" THEN "not_run" ELSE @,
                               ![f].disk[i] = "started"]

\* The handler or its process fails before the tool is done: what next() started is cancelled and
\* awaited, and the call has failed.
HandlerBreaks(f, i) ==
    /\ \E s \in {"recording", "asking", "queued", "running"} : Wrapped(f, i, s)
    /\ LET s == Status(f, i)
           core == IF s \in {"asking", "queued"} THEN "not_run" ELSE "started"
       IN work' = [work EXCEPT ![f].st[i] = IF s = "running" THEN "breaking" ELSE "failed",
                               ![f].core[i] = core, ![f].disk[i] = core]

\* The actual outcome is saved before the handler has its result.
Relay(f, i) ==
    /\ Wrapped(f, i, "recorded")
    /\ work' = [work EXCEPT ![f].st[i] = "relaying", ![f].disk[i] = work[f].core[i]]

\* The handler returns a result, its own or the tool's, or it breaks.
Settle(f, i) ==
    /\ Wrapped(f, i, "relaying")
    /\ \E s \in {IF work[f].declined[i] THEN "refused" ELSE "ok", "failed"} : Set(f, i, s)

\* Mutant: the refusal of a call is not remembered.
PublishUnrefused(f) ==
    /\ Active(f) /\ work[f].at <= work[f].end
    /\ LET i == work[f].at
           last == IF work[f].parallel THEN work[f].end ELSE i
       IN /\ \A k \in i .. last : Status(f, k) \in Final
          /\ work' = [work EXCEPT ![f].at = last + 1]
          /\ IF f = "nested" THEN UNCHANGED <<out, observed, refused>>
             ELSE /\ out' = out \o [k \in 1 .. last - i + 1 |-> i + k - 1]
                  /\ observed' = IF Kind(f, i) = "look" /\ Status(f, i) = "ok" THEN Append(observed, i) ELSE observed
                  /\ UNCHANGED refused
    /\ UNCHANGED <<pc, capacity, cancels, hurried, ScriptVars>>

\* run_serial after each call, run_parallel after the last: messages in the order of the calls.
Publish(f) ==
    /\ Active(f) /\ work[f].at <= work[f].end
    /\ LET i == work[f].at
           last == IF work[f].parallel THEN work[f].end ELSE i
       IN /\ \A k \in i .. last : Status(f, k) \in Final
          /\ work' = [work EXCEPT ![f].at = last + 1]
          /\ IF f = "nested" THEN UNCHANGED <<out, observed, refused>>
             ELSE /\ out' = out \o [k \in 1 .. last - i + 1 |-> i + k - 1]
                  /\ observed' = IF Kind(f, i) = "look" /\ Status(f, i) = "ok" THEN Append(observed, i) ELSE observed
                  /\ refused' = (refused \/ Status(f, i) = "refused")
    /\ UNCHANGED <<pc, capacity, cancels, hurried, ScriptVars>>

AllPublished(f) == work[f].at = Len(work[f].calls) + 1

Return ==
    /\ Active("batch") /\ AllPublished("batch")
    /\ pc' = "returned" /\ gate' = FALSE
    /\ UNCHANGED <<work, out, observed, refused, capacity, cancels, hurried, script, request, answer, asked>>

-----------------------------------------------------------------------------
(* ToolScript: the script's thread and the gateway.                        *)

\* call or call_many: the thread posts the request and blocks.  A script that has caught its
\* cancellation comes here like any other: the tracer that raised it is gone.
Submit(r) ==
    /\ script = "computing" /\ asked < MaxRequests
    /\ script' = "blocked" /\ request' = "posted" /\ answer' = "none" /\ asked' = asked + 1
    /\ work' = [work EXCEPT !["nested"] = Fresh(r.calls, r.many)]
    /\ UNCHANGED <<BatchVars, gate>>

\* The future has a result or an exception, which the script may catch.
Resume ==
    /\ script = "blocked" /\ answer # "none"
    /\ script' = "computing" /\ answer' = "none"
    /\ UNCHANGED <<work, BatchVars, request, asked, gate>>

\* The script returns, fails, or is stopped by its budget or the cancellation token.
ScriptEnds ==
    /\ script = "computing"
    /\ script' = "ended"
    /\ UNCHANGED <<work, BatchVars, request, answer, asked, gate>>

\* Mutant: a closed gateway drops the request.
AcceptOrDrop ==
    /\ LoopIsFree /\ request = "posted"
    /\ request' = IF gate THEN "accepted" ELSE "none"
    /\ UNCHANGED <<work, BatchVars, script, answer, asked, gate>>

\* _accept: a task is made for the request, or a closed gateway answers it.
Accept ==
    /\ LoopIsFree /\ request = "posted"
    /\ request' = IF gate THEN "accepted" ELSE "none"
    /\ answer' = IF gate THEN answer ELSE "cancelled"
    /\ UNCHANGED <<work, BatchVars, script, asked, gate>>

\* _serve begins ...
Serve ==
    /\ LoopIsFree /\ request = "accepted"
    /\ request' = "serving"
    /\ UNCHANGED <<work, BatchVars, script, answer, asked, gate>>

\* Mutant: the first call to end is enough.
OneHasStopped(f) == \E i \in Indices(f) : Status(f, i) # "stopping"

NoneStops(f) == \A i \in Indices(f) : Status(f, i) # "stopping"

\* ... and answers, with results or with its own cancellation.
Answer ==
    /\ LoopIsFree /\ request = "serving"
    /\ IF work["nested"].cancelled THEN NoneStops("nested") ELSE AllPublished("nested")
    /\ request' = "none"
    /\ answer' = IF work["nested"].cancelled THEN "cancelled" ELSE "given"
    /\ UNCHANGED <<work, BatchVars, script, asked, gate>>

-----------------------------------------------------------------------------
(* Cancellation.                                                           *)

\* A cancelled frame: what runs is told to stop, everything else of it ends at once.  The receipt
\* of a tool that never began says so, except while that it starts is being saved.
Stop(w) ==
    LET ends == {"asking", "queued", "wrapping", "recording", "recorded", "relaying"}
        Core(i) == IF w.st[i] \in {"asking", "queued"} /\ w.core[i] = "started" THEN "not_run" ELSE w.core[i]
    IN [w EXCEPT !.cancelled = TRUE,
                 !.st = [i \in DOMAIN @ |-> IF @[i] \in ends THEN "cancelled"
                                            ELSE IF @[i] \in {"running", "breaking"} THEN "stopping" ELSE @[i]],
                 !.core = [i \in DOMAIN @ |-> Core(i)],
                 !.disk = [i \in DOMAIN @ |-> IF w.st[i] \in ends THEN Core(i) ELSE @[i]]]

ScriptRuns == \E i \in Indices("batch") : Kind("batch", i) = "script" /\ Status("batch", i) = "running"

\* The batch's task is cancelled in anything but a script.
CancelCalls ==
    /\ Active("batch") /\ ~ScriptRuns /\ cancels < MaxCancels
    /\ cancels' = cancels + 1
    /\ work' = [work EXCEPT !["batch"] = Stop(@)]
    /\ UNCHANGED <<pc, out, observed, refused, capacity, hurried, ScriptVars>>

\* run()'s task unwinds once everything it started has ended.
Unwind ==
    /\ pc = "running" /\ work["batch"].cancelled /\ NoneStops("batch")
    /\ pc' = "cancelled" /\ gate' = FALSE
    /\ UNCHANGED <<work, out, observed, refused, capacity, cancels, hurried, script, request, answer, asked>>

\* _run_script is cancelled: it closes the gateway, which cancels the request being served.
\* A task that has not begun is cancelled without a word.
CancelScript ==
    /\ pc = "running" /\ ~work["batch"].cancelled /\ ScriptRuns /\ cancels < MaxCancels
    /\ cancels' = cancels + 1 /\ gate' = FALSE
    /\ IF request \in {"accepted", "serving"}
         THEN /\ pc' = "closing"
              /\ request' = IF request = "accepted" THEN "lost" ELSE "serving"
              /\ work' = [work EXCEPT !["nested"] = Stop(@)]
              /\ UNCHANGED answer
         ELSE /\ pc' = "winding"
              /\ request' = "none"
              /\ answer' = IF request = "posted" THEN "cancelled" ELSE answer
              /\ UNCHANGED work
    /\ UNCHANGED <<out, observed, refused, capacity, hurried, script, asked>>

\* Another cancellation reaches close() while it waits.
CancelClose ==
    /\ pc = "closing" /\ cancels < MaxCancels
    /\ cancels' = cancels + 1 /\ hurried' = TRUE
    /\ UNCHANGED <<pc, work, out, observed, refused, capacity, ScriptVars>>

\* close() ends by answering whoever still waits, unless it was cancelled itself: then
\* _run_script is left for its `finally`.
Closed ==
    /\ pc = "closing" /\ request # "serving"
    /\ IF hurried THEN pc' = "joining" /\ UNCHANGED <<request, answer>>
       ELSE /\ pc' = "winding" /\ request' = "none"
            /\ answer' = IF request = "none" THEN answer ELSE "cancelled"
    /\ UNCHANGED <<work, out, observed, refused, capacity, cancels, hurried, script, asked, gate>>

\* The script's thread is done, and the cancellation goes on.
Join ==
    /\ pc \in {"winding", "joining"} /\ script = "ended"
    /\ pc' = "cancelled" /\ script' = "none"
    /\ work' = [work EXCEPT !["batch"] = [Stop(@) EXCEPT !.st[work["batch"].at] = "cancelled"]]
    /\ UNCHANGED <<out, observed, refused, capacity, cancels, hurried, request, answer, asked, gate>>

-----------------------------------------------------------------------------
UserAnswers == \E f \in Frames : \E i \in Indices(f) : Approve(f, i) \/ Decline(f, i)

Cancelling == CancelCalls \/ CancelScript \/ CancelClose

\* What goes on without the user.
Progress ==
    \/ \E f \in Frames :
        \/ Start(f) \/ Publish(f)
        \/ \E i \in Indices(f) :
            \/ Execute(f, i) \/ End(f, i) \/ Stopped(f, i)
            \/ AnswerInstead(f, i) \/ CallNext(f, i) \/ AdmitRecorded(f, i)
            \/ HandlerBreaks(f, i) \/ Relay(f, i) \/ Settle(f, i)
    \/ Skip \/ Echo \/ OpenSegment \/ OpenNested \/ Return
    \/ (\E r \in Requests : Submit(r)) \/ Resume \/ ScriptEnds
    \/ Accept \/ Serve \/ Answer
    \/ Unwind \/ Closed \/ Join

Next == (\E calls \in Batches : Begin(calls)) \/ UserAnswers \/ Cancelling \/ Progress

Spec == Init /\ [][Next]_vars

\* Bodies, handlers and saves end, and a script makes finitely many requests; the user may never
\* answer.
FairSpec == Spec /\ WF_vars(Progress)

-----------------------------------------------------------------------------
(* Properties.                                                             *)

Over == pc \in {"idle", "returned", "cancelled"}

\* run() and _run_batch: a batch that is not cancelled has one message for each of its calls, in their
\* order, whatever was refused, skipped, overlapped or nested; observations of the calls that made one
\* follow in the same order.
ResultsMatchCalls ==
    pc = "returned" =>
        LET calls == work["batch"].calls
            Looked(i) == calls[i] = "look" /\ Status("batch", i) = "ok"
        IN /\ out = [i \in DOMAIN calls |-> i]
           /\ {observed[n] : n \in DOMAIN observed} = {i \in DOMAIN calls : Looked(i)}
           /\ \A m, n \in DOMAIN observed : m < n => observed[m] < observed[n]
           /\ \A i \in DOMAIN calls : Status("batch", i) \in Final \ {"cancelled"}

\* The segmentation and the script boundary: a tool that changes something never runs beside another
\* call, and a script's nested calls run only while the script waits for them.
EffectsRunAlone ==
    /\ \A f \in Frames : \A i, j \in Indices(f) :
          i # j /\ Status(f, i) \in Live /\ Status(f, j) \in Live => ~Mutates(Kind(f, i))
    /\ (\E i \in Indices("nested") : Status("nested", i) \in Live) => script = "blocked" /\ ScriptRuns

\* _run_in_executor, _execute_readonly_segment, _run_script and close(): when run() is over, however it
\* ended, nothing it started is left: no worker, no script, no request and no question to the user.
NothingOutlives ==
    Over => /\ \A f \in Frames : \A i \in Indices(f) : Status(f, i) \in Final \cup {"waiting"}
            /\ script = "none" /\ request = "none"

\* state["refused"]: once the user has declined a call, no call of a later segment of the batch runs.
\* (An interceptor that breaks on the declined call hides that it was, see RefusalStopsTheBatch.)
RefusalStopsLaterSegments ==
    \A i, j \in Indices("batch") :
        i < j /\ work["batch"].declined[i] /\ Status("batch", i) # "failed" /\ work["batch"].ran[j] =>
            \A k \in i .. j : ~EditBarrier(Kind("batch", k))

\* The two halves of containment, run_calls' segmentation and run()'s `finally`: effects run alone,
\* and nothing a batch started is left when run() is over (agent/runner.py:200-330, :600-700).
CallsAreContained == EffectsRunAlone /\ NothingOutlives

\* "A declined confirmation short-circuits the rest of the batch" (runner.py:180).
\* Not kept: the Reads of the same segment still run (runner.py:678); later segments
\* are stopped, which RefusalStopsLaterSegments says.
RefusalStopsTheBatch ==
    \A i, j \in Indices("batch") : i < j /\ work["batch"].declined[i] => ~work["batch"].ran[j]

\* run_intercepted: at any moment a crash may come, the log never says that a tool which has begun did not
\* run, nor that one which has not begun did: the receipt is saved before the tool and after it.
ReceiptsAreTruthful ==
    \A f \in Frames : \A i \in Indices(f) : Kind(f, i) = "wrapped" =>
        /\ work[f].ran[i] => work[f].disk[i] \notin {NoReceipt, "not_run"}
        /\ work[f].disk[i] \in {"completed", "interrupted"} => work[f].ran[i]

\* What the model and a restarted process are told of a batch is what happened: one result for each call,
\* nothing run after a refusal's segment, and no receipt that denies an effect or claims one.
ResultsAreTruthful == ResultsMatchCalls /\ RefusalStopsLaterSegments /\ ReceiptsAreTruthful

Asking == \E f \in Frames : \E i \in Indices(f) : Status(f, i) = "asking"

\* Permits, the gateway, the script's thread and cancellation never wait for each other: a batch comes to
\* its end or to a question, also with a single permit and a script whose nested calls need it, and a
\* cancelled one ends without the user, whatever runs, waits or is being asked.  (Not where run() holds the
\* loop itself, after a second cancellation.)
NeverStuck == []<>(Over \/ (Asking /\ cancels = 0) \/ ~LoopIsFree)

=============================================================================
