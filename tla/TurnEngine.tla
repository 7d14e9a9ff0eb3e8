----------------------------- MODULE TurnEngine -----------------------------
(***************************************************************************)
(* One agent's turns: Agent.run of wizolt/agent/engine.py, the follow-up   *)
(* queue of wizolt/session/__init__.py and the parts of its surroundings   *)
(* that act on them between two awaits: the TUI queueing, recalling and    *)
(* cancelling, child agents settling, other writers saving the session,    *)
(* and the process dying.                                                  *)
(*                                                                         *)
(* pc names the await the turn's task is suspended in, so an action is the *)
(* whole run from one await to the next.  A message is its kind and what   *)
(* it stands for; a transcript is only asked whether the agent has spoken. *)
(* A save is one step (SnapshotLog models how it reaches the disk).        *)
(* Compaction, which rewrites old messages, is left out.                   *)
(***************************************************************************)
EXTENDS Naturals, Sequences, FiniteSets

CONSTANTS Inputs,          \* texts a user may submit
          Children,        \* child agents of this agent
          None,            \* no request; a message that stands for nothing
          Faults,          \* which optional faults happen (see FaultKinds)
          MaxSteps,        \* settings.max_steps
          MaxCorrections,  \* MAX_TEXTUAL_TOOL_CORRECTIONS
          MaxRedirects,    \* Agent.MAX_STOP_REDIRECTS
          MaxRetries,      \* MODEL_REQUEST_RETRIES
          MaxResults,      \* bound: turns one child settles
          MaxCrashes       \* bound: process deaths

\* "prepare": building a request raises ModelError (the vision model fails, or
\* a plugin's context does not fit).  "break": anything else raises (a plugin
\* interceptor, a tool batch).  "crash": the process dies.
FaultKinds == {"prepare", "break", "crash"}

Kinds == {"user", "event", "correction", "assistant", "calls", "results", "stop_hook", "marker", "resumed"}
Messages == [kind : Kinds, of : Inputs \cup (Children \X (0..MaxResults)) \cup {None}]
QueueItems == [input : Inputs, held : BOOLEAN, inflight : BOOLEAN]
Requests == [pending : Seq(Inputs), turn : Seq(Messages)]

ASSUME TurnConstants ==
  /\ Faults \subseteq FaultKinds
  /\ {MaxSteps, MaxCorrections, MaxRedirects, MaxRetries, MaxResults, MaxCrashes} \subseteq Nat
  /\ IsFiniteSet(Children)
  /\ None \notin Inputs \cup Requests

VARIABLES
  pc,        \* the await the turn's task is in
  mode,      \* what the request in flight is for
  queue,     \* session.pending_user_inputs
  editor,    \* inputs not submitted yet
  recalled,  \* inputs taken back into the editor
  refused,   \* queued inputs whose admission was refused
  admitted,  \* queued inputs with an admission receipt
  opening,   \* the input that opens the turn
  turn,      \* turn_messages
  spoke,     \* transcript_messages holds something the agent said or did
  staged,    \* session._active_turn_messages
  history,   \* session.messages
  seen,      \* session.state.child_results_seen
  results,   \* number of the last result each child has published
  building,  \* the request prepare_request is assembling
  request,   \* the request prepared last in this request_step, or None
  claimed,   \* ModelClient._attempt_claimed
  learned,   \* the image route is known to be text-only
  budget,    \* counters of the turn: steps, corrections, redirects, retries
  answer,    \* whether the turn awaiting its Stop hooks has an answer text
  cancelled, \* the turn's task has a cancellation requested
  disk,      \* what the session log would load as
  sent,      \* the turn as the provider accepted it last
  crashes

inputVars   == <<editor, recalled, opening>>
admission   == <<refused, admitted>>
childVars   == <<seen, results>>
requestVars == <<building, request, claimed, learned>>
vars == <<pc, mode, queue, inputVars, admission, turn, spoke, staged, history, childVars,
          requestVars, budget, answer, cancelled, disk, sent, crashes>>

Message(kind) == [kind |-> kind, of |-> None]
UserMessage(i) == [kind |-> "user", of |-> i]
ResultEvent(c) == [kind |-> "event", of |-> <<c, results[c]>>]

UserMessages(inputs) == [k \in DOMAIN inputs |-> UserMessage(inputs[k])]

Locations == {"idle", "opening", "step", "request", "admit", "prepare", "attempt", "backoff",
              "observe", "tools", "hints", "stop", "closing", "down"}
Waiting == Locations \ {"idle", "closing", "down"}

InTurn(i) == \E k \in DOMAIN turn : turn[k] = UserMessage(i)
InHistory(i) == \E k \in DOMAIN history : history[k] = UserMessage(i)
Queued(i) == \E k \in DOMAIN queue : queue[k].input = i

\* The entries of s at the positions in I, in their order.
Enumerations(I) ==
  {order \in [1..Cardinality(I) -> I] :
     \A a, b \in 1..Cardinality(I) : a < b => order[a] < order[b]}

Selected(s, I) ==
  LET order == CHOOSE o \in Enumerations(I) : TRUE
  IN [k \in 1..Cardinality(I) |-> s[order[k]]]

ResultEvents(t) == Selected(t, {k \in DOMAIN t : t[k].kind = "event"})

-----------------------------------------------------------------------------
(* The session's queue and log.                                            *)

Released(q) == [k \in DOMAIN q |-> [q[k] EXCEPT !.inflight = FALSE]]

\* claim_user_inputs: everything that is not held back for the next turn.
Claimed(q) == [k \in DOMAIN q |-> [q[k] EXCEPT !.inflight = q[k].inflight \/ ~q[k].held]]

ClaimedInputs(q) ==
  LET free == Selected(q, {k \in DOMAIN q : ~q[k].held})
  IN [k \in DOMAIN free |-> free[k].input]

\* acknowledge_user_inputs.
Acknowledged(q, inputs) ==
  Selected(q, {n \in DOMAIN q : \A k \in DOMAIN inputs : inputs[k] # q[n].input})

\* What save_snapshot captures: the queue without its in-flight marks, the
\* history with the staged turn behind it, and the receipts.
Snapshot(q, stagedTurn, committed, receipts) ==
  [queue |-> Released(q), messages |-> committed \o stagedTurn, seen |-> receipts]

\* checkpoint_turn: stage a copy of the turn, then save.
Checkpoint(t) ==
  /\ turn' = t
  /\ staged' = t
  /\ disk' = Snapshot(queue', t, history, seen)
  /\ UNCHANGED history

\* finish_turn or the retract, and the save that follows either.
Commit(messages) ==
  /\ history' = history \o messages
  /\ turn' = <<>>
  /\ staged' = <<>>
  /\ spoke' = FALSE
  /\ disk' = Snapshot(queue', <<>>, history', seen)
  /\ pc' = "closing"

\* Mutant: calls without results stay as they are.
LeftUnanswered(t) == t

\* settle_unanswered_tool_calls: the only calls of a turn that can lack their
\* results are the ones it ends with.
Answered(t) ==
  IF t # <<>> /\ t[Len(t)].kind = "calls" THEN Append(t, Message("results")) ELSE t

\* Mutant: the claim survives the failed turn.
KeepsClaims(t, q) ==
  /\ queue' = q
  /\ Commit(Append(Answered(t), Message("marker")))

\* _run_turn's except Exception: release the claim, settle, mark, commit.
SettleFailed(t, q) ==
  /\ queue' = Released(q)
  /\ Commit(Append(Answered(t), Message("marker")))

\* Mutants: the prepared turn is not adopted; the queue is not acknowledged.
LiveTurn(r) == turn
Unacknowledged(r) == queue

\* The turn with the pending inputs of a request committed to it, and the queue
\* without them (accept_pending_inputs).
AcceptedTurn(r) == IF r # None /\ r.pending # <<>> THEN r.turn ELSE turn
AcceptedQueue(r) == IF r # None THEN Acknowledged(queue, r.pending) ELSE queue

-----------------------------------------------------------------------------
(* Opening a turn.                                                         *)

NoBudget == [step |-> 0, corrections |-> 0, redirects |-> 0, retries |-> 0]

Init ==
  /\ pc = "idle"
  /\ mode = "normal"
  /\ queue = <<>>
  /\ editor = Inputs
  /\ recalled = {}
  /\ refused = {}
  /\ admitted = {}
  /\ opening = None
  /\ turn = <<>>
  /\ spoke = FALSE
  /\ staged = <<>>
  /\ history = <<>>
  /\ seen = [c \in Children |-> 0]
  /\ results = [c \in Children |-> 0]
  /\ building = None
  /\ request = None
  /\ claimed = FALSE
  /\ learned = FALSE
  /\ budget = NoBudget
  /\ answer = FALSE
  /\ cancelled = FALSE
  /\ disk = [queue |-> <<>>, messages |-> <<>>, seen |-> seen]
  /\ sent = <<>>
  /\ crashes = 0

\* Agent.run up to its first await: startup hooks, interceptors, admission.
Open(i) ==
  /\ opening' = i
  /\ pc' = "opening"

SubmitIdle(i) ==
  /\ pc = "idle"
  /\ queue = <<>>
  /\ i \in editor
  /\ editor' = editor \ {i}
  /\ Open(i)
  /\ UNCHANGED <<mode, queue, recalled, admission, turn, spoke, staged, history, childVars,
                 requestVars, budget, answer, cancelled, disk, sent, crashes>>

\* take_pending_inputs and submit_next at a turn's end: a held input goes alone;
\* of a run of plain ones the first opens the turn and the others queue again.
FlushPending ==
  /\ pc = "idle"
  /\ \E n \in 1..Len(queue) :
       /\ \A k \in 1..n : ~queue[k].inflight
       /\ IF queue[1].held THEN n = 1
          ELSE /\ \A k \in 1..n : ~queue[k].held
               /\ n < Len(queue) => queue[n + 1].held
       /\ queue' = SubSeq(queue, n + 1, Len(queue)) \o SubSeq(queue, 2, n)
       /\ admitted' = admitted \ {queue[k].input : k \in 1..n}
       /\ refused' = refused \ {queue[k].input : k \in 1..n}
       /\ Open(queue[1].input)
  /\ UNCHANGED <<mode, editor, recalled, turn, spoke, staged, history, childVars,
                 requestVars, budget, answer, cancelled, disk, sent, crashes>>

\* The opening message is checkpointed before the first request.
OpenTurn ==
  /\ pc = "opening" /\ ~cancelled
  /\ spoke' = FALSE
  /\ UNCHANGED queue
  /\ Checkpoint(<<UserMessage(opening)>>)
  /\ pc' = "step"
  /\ UNCHANGED <<mode, inputVars, admission, childVars, requestVars, budget, answer,
                 cancelled, sent, crashes>>

\* PromptBlocked, or a cancellation before anything is committed: no turn.
NeverOpened ==
  /\ pc = "opening"
  /\ pc' = "closing"
  /\ UNCHANGED <<mode, queue, inputVars, admission, turn, spoke, staged, history, childVars,
                 requestVars, budget, answer, cancelled, disk, sent, crashes>>

-----------------------------------------------------------------------------
(* request_step and prepare_request.                                       *)

\* The head of the step loop: the save of the last checkpoint has returned.
NextStep ==
  /\ pc = "step" /\ ~cancelled
  /\ budget.step < MaxSteps
  /\ budget' = [budget EXCEPT !.step = @ + 1]
  /\ request' = None
  /\ pc' = "request"
  /\ UNCHANGED <<mode, queue, inputVars, admission, turn, spoke, staged, history, childVars,
                 building, claimed, learned, answer, cancelled, disk, sent, crashes>>

OutOfSteps ==
  /\ pc = "step" /\ ~cancelled
  /\ budget.step = MaxSteps
  /\ UNCHANGED queue
  /\ Commit(Append(turn, Message("assistant")))
  /\ UNCHANGED <<mode, inputVars, admission, childVars, requestVars, budget, answer,
                 cancelled, sent, crashes>>

\* receive_results: a receipt in a tool message acknowledges a result; every
\* other unseen result is appended and staged before any await.
Received ==
  [c \in Children |->
     IF results[c] > 0 /\ \E k \in DOMAIN turn :
          turn[k].kind = "results" /\ turn[k].of = <<c, results[c]>>
     THEN results[c] ELSE seen[c]]

Unseen == {c \in Children : results[c] # 0 /\ Received[c] # results[c]}

\* results_for lists the children in the order they were created.
EventOrders(S) ==
  {order \in [1..Cardinality(S) -> S] : \A a, b \in 1..Cardinality(S) : order[a] = order[b] => a = b}

\* Mutant: results are announced without a receipt.
ForgetsReceipts ==
  /\ pc = "request" /\ ~cancelled
  /\ \E order \in EventOrders(Unseen) :
       turn' = turn \o [k \in DOMAIN order |-> ResultEvent(order[k])]
  /\ staged' = turn'
  /\ seen' = Received
  /\ queue' = Claimed(queue)
  /\ building' = [pending |-> ClaimedInputs(queue), turn |-> turn']
  /\ pc' = "admit"
  /\ UNCHANGED <<mode, inputVars, admission, spoke, history, results, request, claimed,
                 learned, budget, answer, cancelled, disk, sent, crashes>>

BeginRequest ==
  /\ pc = "request" /\ ~cancelled
  /\ \E order \in EventOrders(Unseen) :
       turn' = turn \o [k \in DOMAIN order |-> ResultEvent(order[k])]
  /\ staged' = turn'
  /\ seen' = [c \in Children |-> results[c]]
  /\ queue' = Claimed(queue)
  /\ building' = [pending |-> ClaimedInputs(queue), turn |-> turn']
  /\ pc' = "admit"
  /\ UNCHANGED <<mode, inputVars, admission, spoke, history, results, request, claimed,
                 learned, budget, answer, cancelled, disk, sent, crashes>>

\* admit_followup, once per queue entry; a refused one is withheld.
Admit ==
  /\ pc = "admit" /\ ~cancelled
  /\ LET pending == {building.pending[k] : k \in DOMAIN building.pending}
     IN \E no \in SUBSET (pending \ admitted) :
          /\ refused' = refused \cup no
          /\ admitted' = admitted \cup pending
  /\ LET kept == {k \in DOMAIN building.pending : building.pending[k] \notin refused'}
     IN building' = [building EXCEPT !.turn = @ \o UserMessages(Selected(building.pending, kept))]
  /\ pc' = "prepare"
  /\ UNCHANGED <<mode, queue, inputVars, turn, spoke, staged, history, childVars, request,
                 claimed, learned, budget, answer, cancelled, disk, sent, crashes>>

Send(m) ==
  /\ mode' = m
  /\ claimed' = FALSE
  /\ budget' = [budget EXCEPT !.retries = 0]
  /\ pc' = "attempt"

Prepared ==
  /\ pc = "prepare" /\ ~cancelled
  /\ request' = building
  /\ Send("normal")
  /\ UNCHANGED <<queue, inputVars, admission, turn, spoke, staged, history, childVars,
                 building, learned, answer, cancelled, disk, sent, crashes>>

\* A ModelError out of prepare_request commits the request prepared before it,
\* if this step had one.
PrepareFails ==
  /\ "prepare" \in Faults
  /\ pc = "prepare" /\ ~cancelled
  /\ SettleFailed(AcceptedTurn(request), AcceptedQueue(request))
  /\ UNCHANGED <<mode, inputVars, admission, childVars, requestVars, budget, answer,
                 cancelled, sent, crashes>>

\* Any other exception releases the claim.
Breaks ==
  /\ "break" \in Faults
  /\ pc \in {"admit", "prepare", "attempt", "tools", "hints"} /\ ~cancelled
  /\ SettleFailed(turn, queue)
  /\ UNCHANGED <<mode, inputVars, admission, childVars, requestVars, budget, answer,
                 cancelled, sent, crashes>>

-----------------------------------------------------------------------------
(* The request in flight: ModelClient.request under request_step,          *)
(* _send_image_fallback and correct_textual_tool_calls.                    *)

\* Mutant: transport retries are not counted.
RetriesForever ==
  /\ pc = "attempt" /\ ~cancelled /\ ~claimed
  /\ pc' = "backoff"
  /\ UNCHANGED <<mode, queue, inputVars, admission, turn, spoke, staged, history, childVars,
                 requestVars, budget, answer, cancelled, disk, sent, crashes>>

\* A transient failure waits before the same messages are sent again.
AttemptFailsOnce ==
  /\ pc = "attempt" /\ ~cancelled /\ ~claimed
  /\ budget.retries < MaxRetries
  /\ budget' = [budget EXCEPT !.retries = @ + 1]
  /\ pc' = "backoff"
  /\ UNCHANGED <<mode, queue, inputVars, admission, turn, spoke, staged, history, childVars,
                 requestVars, answer, cancelled, disk, sent, crashes>>

BackoffEnds ==
  /\ pc = "backoff" /\ ~cancelled
  /\ pc' = "attempt"
  /\ UNCHANGED <<mode, queue, inputVars, admission, turn, spoke, staged, history, childVars,
                 requestVars, budget, answer, cancelled, disk, sent, crashes>>

\* ModelRequestRetry: the claimed attempt publishes nothing.  A normal request
\* is prepared again; an image fallback or a correction is resent as it was.
AttemptRetried ==
  /\ pc = "attempt" /\ ~cancelled /\ claimed
  /\ IF mode = "normal"
     THEN pc' = "request" /\ UNCHANGED <<mode, budget>> /\ claimed' = FALSE
     ELSE Send(mode)
  /\ UNCHANGED <<queue, inputVars, admission, turn, spoke, staged, history, childVars,
                 building, request, learned, answer, cancelled, disk, sent, crashes>>

\* ModelError for good: the follow-ups of a request were part of it.
AttemptFails ==
  /\ pc = "attempt" /\ ~cancelled /\ ~claimed
  /\ IF mode = "correction" THEN SettleFailed(turn, queue)
     ELSE SettleFailed(AcceptedTurn(request), AcceptedQueue(request))
  /\ UNCHANGED <<mode, inputVars, admission, childVars, requestVars, budget, answer,
                 cancelled, sent, crashes>>

\* An image rejection on a route nobody knew to be text-only: the images are
\* described first, and the converted request replaces the rejected one.
ImageRejected ==
  /\ pc = "attempt" /\ ~cancelled /\ ~claimed
  /\ mode = "normal" /\ ~learned
  /\ learned' = TRUE
  /\ pc' = "observe"
  /\ UNCHANGED <<mode, queue, inputVars, admission, turn, spoke, staged, history, childVars,
                 building, request, claimed, budget, answer, cancelled, disk, sent, crashes>>

Observed ==
  /\ pc = "observe" /\ ~cancelled
  /\ Send("fallback")
  /\ UNCHANGED <<queue, inputVars, admission, turn, spoke, staged, history, childVars,
                 building, request, learned, answer, cancelled, disk, sent, crashes>>

ObserveFails ==
  /\ pc = "observe" /\ ~cancelled
  /\ SettleFailed(AcceptedTurn(request), AcceptedQueue(request))
  /\ UNCHANGED <<mode, inputVars, admission, childVars, requestVars, budget, answer,
                 cancelled, sent, crashes>>

-----------------------------------------------------------------------------
(* What the turn does with a response: t is the turn it answers, q the     *)
(* queue without the inputs that turn has accepted.                        *)

\* A paused provider turn is resumed by sending it back.
Paused(t, q) ==
  /\ queue' = q
  /\ spoke' = TRUE
  /\ Checkpoint(Append(t, Message("assistant")))
  /\ pc' = "step"
  /\ UNCHANGED <<budget, answer, mode, claimed>>

\* Textual tool markup: a correction joins the turn before it is sent.
Corrected(t, q) ==
  /\ budget.corrections < MaxCorrections
  /\ queue' = q
  /\ Checkpoint(Append(t, Message("correction")))
  /\ mode' = "correction"
  /\ claimed' = FALSE
  /\ budget' = [budget EXCEPT !.retries = 0, !.corrections = @ + 1]
  /\ pc' = "attempt"
  /\ UNCHANGED <<spoke, answer>>

\* An empty answer, or markup once too often: ModelError.
Unusable(t, q) ==
  /\ SettleFailed(t, q)
  /\ UNCHANGED <<budget, answer, mode, claimed>>

\* An answer text without calls: the Stop hooks are asked first.
Concludes(t, q) ==
  /\ queue' = q
  /\ turn' = t
  /\ answer' = TRUE
  /\ pc' = "stop"
  /\ UNCHANGED <<spoke, staged, history, disk, budget, mode, claimed>>

\* The calls join the live turn, not its staged copy, before they run.
Calls(t, q, location) ==
  /\ queue' = q
  /\ turn' = Append(t, Message("calls"))
  /\ spoke' = TRUE
  /\ pc' = location
  /\ UNCHANGED <<staged, history, disk, budget, answer, mode, claimed>>

Responds(t, q) ==
  \/ Paused(t, q)
  \/ Corrected(t, q)
  \/ Unusable(t, q)
  \/ Concludes(t, q)
  \/ Calls(t, q, "tools")
  \/ Calls(t, q, "hints")

\* request_step's acceptance, and whatever the response makes of the turn.
RequestAnswered ==
  /\ pc = "attempt" /\ ~cancelled /\ ~claimed
  /\ mode # "correction"
  /\ sent' = AcceptedTurn(request)
  /\ Responds(AcceptedTurn(request), AcceptedQueue(request))
  /\ UNCHANGED <<inputVars, admission, childVars, building, request, learned, cancelled, crashes>>

\* Mutant: a correction is taken out of the turn once it is answered.
CorrectionForgotten ==
  /\ pc = "attempt" /\ ~cancelled /\ ~claimed
  /\ mode = "correction"
  /\ sent' = turn
  /\ Responds(SubSeq(turn, 1, Len(turn) - 1), queue)
  /\ UNCHANGED <<inputVars, admission, childVars, building, request, learned, cancelled, crashes>>

CorrectionAnswered ==
  /\ pc = "attempt" /\ ~cancelled /\ ~claimed
  /\ mode = "correction"
  /\ sent' = turn
  /\ Responds(turn, queue)
  /\ UNCHANGED <<inputVars, admission, childVars, building, request, learned, cancelled, crashes>>

-----------------------------------------------------------------------------
(* Tool batches and the end of a turn.                                     *)

\* The tool messages of a batch; one of them may be the Subagent tool showing
\* the latest result of a child, with its receipt.
BatchResults ==
  {Message("results")} \cup
  {[kind |-> "results", of |-> <<c, results[c]>>] : c \in {d \in Children : results[d] > 0}}

ToolsFinish ==
  /\ pc = "tools" /\ ~cancelled
  /\ UNCHANGED queue
  /\ \E batch \in BatchResults : Checkpoint(Append(turn, batch))
  /\ pc' = "step"
  /\ UNCHANGED <<mode, inputVars, admission, spoke, childVars, requestVars, budget, answer,
                 cancelled, sent, crashes>>

\* finish_with_next_hints: hints without text or suggestions go on.
HintsFail ==
  /\ pc = "hints" /\ ~cancelled
  /\ UNCHANGED queue
  /\ Checkpoint(Append(turn, Message("results")))
  /\ pc' = "step"
  /\ UNCHANGED <<mode, inputVars, admission, spoke, childVars, requestVars, budget, answer,
                 cancelled, sent, crashes>>

HintsFinish ==
  /\ pc = "hints" /\ ~cancelled
  /\ turn' = Append(turn, Message("results"))
  /\ answer' \in BOOLEAN
  /\ pc' = "stop"
  /\ UNCHANGED <<mode, queue, inputVars, admission, spoke, staged, history, childVars,
                 requestVars, budget, cancelled, disk, sent, crashes>>

WithAnswer == IF answer THEN Append(turn, Message("assistant")) ELSE turn

StopRedirects ==
  /\ pc = "stop" /\ ~cancelled
  /\ budget.redirects < MaxRedirects
  /\ UNCHANGED queue
  /\ Checkpoint(Append(WithAnswer, Message("stop_hook")))
  /\ spoke' = (spoke \/ answer)
  /\ budget' = [budget EXCEPT !.redirects = @ + 1]
  /\ pc' = "step"
  /\ UNCHANGED <<mode, inputVars, admission, childVars, requestVars, answer, cancelled, sent, crashes>>

StopAllows ==
  /\ pc = "stop" /\ ~cancelled
  /\ UNCHANGED queue
  /\ Commit(WithAnswer)
  /\ UNCHANGED <<mode, inputVars, admission, childVars, requestVars, budget, answer,
                 cancelled, sent, crashes>>

AlwaysRetracts(t) == Commit(ResultEvents(turn))

\* settle_interrupted_turn: a turn in which the agent has not spoken is
\* retracted, all but the child results delivered in it.
SettleInterrupted(t) ==
  IF spoke THEN Commit(Append(Answered(t), Message("marker")))
  ELSE Commit(ResultEvents(turn))

\* Mutant: an interrupt keeps the claim.
InterruptedClaimed ==
  /\ cancelled
  /\ pc \in Waiting \ {"opening"}
  /\ UNCHANGED queue
  /\ SettleInterrupted(turn)
  /\ UNCHANGED <<mode, inputVars, admission, childVars, requestVars, budget, answer,
                 cancelled, sent, crashes>>

Interrupted ==
  /\ cancelled
  /\ pc \in Waiting \ {"opening"}
  /\ queue' = Released(queue)
  /\ \/ SettleInterrupted(turn)
     \/ /\ pc \in {"tools", "hints"}        \* the batch ended before it noticed
        /\ \E batch \in BatchResults : SettleInterrupted(Append(turn, batch))
  /\ UNCHANGED <<mode, inputVars, admission, childVars, requestVars, budget, answer,
                 cancelled, sent, crashes>>

\* What lives on the stack of a turn's task.
NoTask ==
  /\ mode' = "normal"
  /\ opening' = None
  /\ building' = None
  /\ request' = None
  /\ claimed' = FALSE
  /\ budget' = NoBudget
  /\ answer' = FALSE
  /\ cancelled' = FALSE
  /\ sent' = <<>>

\* The finally of Agent.run: the last save, then no turn is active.
Close ==
  /\ pc = "closing"
  /\ disk' = Snapshot(queue, staged, history, seen)
  /\ pc' = "idle"
  /\ NoTask
  /\ UNCHANGED <<queue, editor, recalled, admission, turn, spoke, staged, history,
                 childVars, learned, crashes>>

-----------------------------------------------------------------------------
(* Everybody else.                                                         *)

\* A submission while a turn runs: queued, then saved by the one consumer.
Enqueue(i) ==
  /\ pc \notin {"idle", "down"}
  /\ i \in editor
  /\ editor' = editor \ {i}
  /\ \E held \in BOOLEAN : queue' = Append(queue, [input |-> i, held |-> held, inflight |-> FALSE])
  /\ disk' = Snapshot(queue', staged, history, seen)
  /\ UNCHANGED <<pc, mode, recalled, opening, admission, turn, spoke, staged, history,
                 childVars, requestVars, budget, answer, cancelled, sent, crashes>>

\* recall_pending_input, then retry_active_request: only an attempt in flight
\* can be claimed.  The save of the shorter queue comes later.
Recall ==
  /\ pc \notin {"idle", "down"}
  /\ queue # <<>>
  /\ LET item == queue[Len(queue)]
         rest == SubSeq(queue, 1, Len(queue) - 1)
     IN /\ recalled' = recalled \cup {item.input}
        /\ queue' = IF item.inflight THEN Released(rest) ELSE rest
        /\ claimed' = (claimed \/ (item.inflight /\ pc = "attempt"))
  /\ UNCHANGED <<pc, mode, editor, opening, admission, turn, spoke, staged, history, childVars,
                 building, request, learned, budget, answer, cancelled, disk, sent, crashes>>

Cancel ==
  /\ pc \in Waiting
  /\ ~cancelled
  /\ cancelled' = TRUE
  /\ UNCHANGED <<pc, mode, queue, inputVars, admission, turn, spoke, staged, history, childVars,
                 requestVars, budget, answer, disk, sent, crashes>>

\* Any other save of the session: a recall's, a command's, a tool receipt's.
OtherSave ==
  /\ pc # "down"
  /\ disk' = Snapshot(queue, staged, history, seen)
  /\ UNCHANGED <<pc, mode, queue, inputVars, admission, turn, spoke, staged, history, childVars,
                 requestVars, budget, answer, cancelled, sent, crashes>>

ChildSettles(c) ==
  /\ pc # "down"
  /\ results[c] < MaxResults
  /\ results' = [results EXCEPT ![c] = @ + 1]
  /\ UNCHANGED <<pc, mode, queue, inputVars, admission, turn, spoke, staged, history, seen,
                 requestVars, budget, answer, cancelled, disk, sent, crashes>>

Crash ==
  /\ "crash" \in Faults
  /\ pc # "down"
  /\ crashes < MaxCrashes
  /\ crashes' = crashes + 1
  /\ pc' = "down"
  /\ NoTask
  /\ learned' = FALSE
  /\ queue' = <<>>
  /\ turn' = <<>> /\ spoke' = FALSE /\ staged' = <<>> /\ history' = <<>>
  /\ seen' = [c \in Children |-> 0]
  /\ UNCHANGED <<editor, recalled, admission, results, disk>>

\* SessionSnapshotStore.load: the staged turn is history now; the receipts of
\* admissions are as old as the save they were in.
Resume ==
  /\ pc = "down"
  /\ history' = Append(disk.messages, Message("resumed"))
  /\ queue' = disk.queue
  /\ seen' = disk.seen
  /\ \E kept \in SUBSET (admitted \cap {disk.queue[k].input : k \in DOMAIN disk.queue}) :
       /\ admitted' = kept
       /\ refused' = refused \cap kept
  /\ pc' = "idle"
  /\ UNCHANGED <<mode, inputVars, turn, spoke, staged, results, requestVars, budget, answer,
                 cancelled, disk, sent, crashes>>

-----------------------------------------------------------------------------

EngineStep ==
  \/ FlushPending \/ OpenTurn \/ NeverOpened \/ NextStep \/ OutOfSteps
  \/ BeginRequest \/ Admit \/ Prepared \/ PrepareFails \/ Breaks
  \/ AttemptFailsOnce \/ BackoffEnds \/ AttemptRetried \/ AttemptFails
  \/ ImageRejected \/ Observed \/ ObserveFails
  \/ RequestAnswered \/ CorrectionAnswered
  \/ ToolsFinish \/ HintsFail \/ HintsFinish
  \/ StopRedirects \/ StopAllows \/ Interrupted \/ Close

Environment ==
  \/ \E i \in Inputs : SubmitIdle(i) \/ Enqueue(i)
  \/ Recall \/ Cancel \/ OtherSave
  \/ \E c \in Children : ChildSettles(c)
  \/ Crash \/ Resume

Next == EngineStep \/ Environment

Spec == Init /\ [][Next]_vars

\* The loop runs a task that is ready, and a provider attempt, a tool batch, a
\* hook and a save end: each is bounded by a timeout of its own.
Fairness == WF_vars(EngineStep)
FairSpec == Spec /\ Fairness

-----------------------------------------------------------------------------
(* Properties.                                                             *)

TypeOK ==
  /\ pc \in Locations
  /\ mode \in {"normal", "fallback", "correction"}
  /\ queue \in Seq(QueueItems)
  /\ editor \subseteq Inputs /\ recalled \subseteq Inputs
  /\ refused \subseteq Inputs /\ admitted \subseteq Inputs
  /\ opening \in Inputs \cup {None}
  /\ turn \in Seq(Messages) /\ staged \in Seq(Messages)
  /\ history \in Seq(Messages) /\ sent \in Seq(Messages)
  /\ seen \in [Children -> 0..MaxResults]
  /\ results \in [Children -> 0..MaxResults]
  /\ building \in Requests \cup {None} /\ request \in Requests \cup {None}
  /\ {claimed, learned, spoke, answer, cancelled} \subseteq BOOLEAN
  /\ budget \in [step : 0..MaxSteps, corrections : 0..MaxCorrections,
                 redirects : 0..MaxRedirects, retries : 0..MaxRetries]
  /\ disk \in [queue : Seq(QueueItems), messages : Seq(Messages), seen : [Children -> 0..MaxResults]]
  /\ crashes \in 0..MaxCrashes

\* A provider takes a message list only if every tool call is followed by its
\* result, and nothing but a call is.
Replayable(messages) ==
  \A k \in DOMAIN messages :
    /\ messages[k].kind = "calls" =>
         k < Len(messages) /\ messages[k + 1].kind = "results"
    /\ messages[k].kind = "results" => k > 1 /\ messages[k - 1].kind = "calls"

InFlight ==
  CASE pc # "attempt" -> <<>>
    [] pc = "attempt" /\ mode = "correction" -> turn
    [] OTHER -> request.turn

\* settle_unanswered_tool_calls (engine.py:641): however a turn ends, and
\* wherever the process dies, no later request and no resumed session carries
\* a call without its result.
CallsAreAnswered ==
  /\ Replayable(history)
  /\ Replayable(disk.messages)
  /\ Replayable(InFlight)

\* claim, acknowledge and release are one transaction: a queue entry is marked
\* in flight only while a request that carries it is being built or sent, so no
\* turn end leaves an entry that take_pending_inputs would skip for ever.
ClaimsEndWithTheRequest ==
  \A k \in DOMAIN queue : queue[k].inflight =>
    /\ pc \in {"request", "admit", "prepare", "attempt", "backoff", "observe"}
    /\ mode # "correction" \/ pc \in {"admit", "prepare"}
    /\ \E n \in DOMAIN building.pending : building.pending[n] = queue[k].input

Told == history \o turn

\* No two positions hold m.
Once(messages, m) ==
  \A j, k \in DOMAIN messages : messages[j] = m /\ messages[k] = m => j = k

\* Across retries, image fallbacks, failures, interrupts and restarts the model
\* is told each input at most once, and not while it still waits in the queue.
EachInputOnce ==
  \A i \in Inputs :
    /\ Once(Told, UserMessage(i))
    /\ Queued(i) => \A k \in DOMAIN Told : Told[k] # UserMessage(i)

\* An entry leaves the queue only into a turn, back to the editor, or because
\* its admission was refused ("a retry never swallows a follow-up").
QueuedInputsAreDelivered ==
  [][\A i \in Inputs : Queued(i) /\ ~Queued(i)' /\ pc' # "down" =>
       \/ InTurn(i)' \/ InHistory(i)'
       \/ i \in recalled' \/ opening' = i \/ i \in refused']_vars

Extends(longer, shorter) ==
  /\ Len(shorter) <= Len(longer)
  /\ SubSeq(longer, 1, Len(shorter)) = shorter

\* Within a turn the provider sees one growing list: what it accepted before
\* is a prefix of what it accepts next (corrections and follow-ups included).
ProviderSeesOnePrefix ==
  [][sent' # sent /\ sent' # <<>> => Extends(sent', sent)]_vars

EndsTurn == pc \in Waiting /\ pc' = "closing"

\* However a turn in which the agent has spoken ends, all the provider accepted
\* is in history, in the order it was sent.
SentIsSettled ==
  [][EndsTurn /\ spoke => Extends(history', history \o sent)]_vars

\* design/DESIGN.md:567: "An aborted turn keeps what it already sent; failure
\* settles history, it does not rewind it."
\* Not kept: a turn that has not spoken is retracted though its request was
\* answered (engine.py:627); SentIsSettled is what holds.
SentIsIrrevocable ==
  [][EndsTurn => Extends(history', history \o sent)]_vars

\* A message of the conversation announces result n of c.
Shows(messages, c, n) ==
  \E k \in DOMAIN messages : messages[k].of = <<c, n>>

\* A receipt for a child's result is kept only with the message that shows the
\* result to the model (results.py:4): in the conversation, and on disk.  Not kept: an
\* overflow while a follow-up is claimed accepts the earlier copy of the turn, without
\* the result that joined since (engine.py:456-457, 1066).
ReceiptsHaveEvents ==
  \A c \in Children :
    /\ seen[c] > 0 => Shows(history \o turn, c, seen[c])
    /\ disk.seen[c] > 0 => Shows(disk.messages, c, disk.seen[c])

\* Delivery on request boundaries announces each result at most once, also
\* when the turn that received it is retracted, fails or is lost in a crash.
ResultsAnnouncedOnce ==
  \A c \in Children : \A n \in 1..MaxResults :
    Once(Told, [kind |-> "event", of |-> <<c, n>>])

\* Calls, queue entries, inputs and results of children are each accounted for, whatever ends the turn
\* (agent/engine.py, agent/results.py).
TurnIsAccounted ==
  CallsAreAnswered /\ ClaimsEndWithTheRequest /\ EachInputOnce /\ ResultsAnnouncedOnce

\* What was queued leaves the queue only by being delivered, and what the provider has accepted
\* stands, within the turn and after it (session/__init__.py, agent/engine.py).
NothingIsDropped == QueuedInputsAreDelivered /\ ProviderSeesOnePrefix /\ SentIsSettled

\* Every turn ends: the model, the Stop hooks and the corrections cannot keep
\* it going, and neither can a cancellation that arrives at any await.
TurnEnds == (pc = "opening") ~> (pc \in {"idle", "down"})

\* A queued input does not stay in the queue for ever.
QueueDrains == \A i \in Inputs : Queued(i) ~> ~Queued(i)

\* Turns end and the queue empties (agent/engine.py).
TurnsEnd == TurnEnds /\ QueueDrains
=============================================================================
