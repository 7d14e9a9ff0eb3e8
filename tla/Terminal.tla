------------------------------ MODULE Terminal ------------------------------
(***************************************************************************)
(* The interactive runtime (ui/cli/runtime.py, ui/cli/loop.py and the      *)
(* input modes of ui/tui/app.py): who owns one submitted line from the key *)
(* press until a turn or a command starts on it.                           *)
(*                                                                         *)
(* Four actors share one event loop and interleave at its awaits: the key  *)
(* handlers (the user), the single consumer of accepted submissions, the   *)
(* driver that takes one input at a time, and the running turn, which      *)
(* claims queued follow-ups (the engine is module TurnEngine; here it only *)
(* claims, accepts and releases).  An input is the number of its           *)
(* acceptance, so numbers are typing order.  `gone` and `started` are      *)
(* history: what the user was told, or what began.                         *)
(***************************************************************************)
EXTENDS Integers, Sequences, FiniteSets, SequencesExt

CONSTANTS MaxInputs,     \* bound: how many lines the user submits
          Kinds,         \* the lines the user writes, of "text", "image", "command"
          Restored       \* how many held inputs a restored session may bring

VARIABLES mode,          \* TuiApp.input_mode: "CHAT", "DISPATCH" or "RUNNING"
          draft,         \* the kind of the line in the editor, or "none"
          accepting,     \* TuiRuntime.accepting
          submissions,   \* the FIFO of accepted submissions
          con,           \* the consumer: [at, id, next, snap]
          turnActive,    \* TuiRuntime.turn_active
          queue,         \* Session.pending_user_inputs: Seq of [id, next, inflight]
          pending,       \* TuiRuntime.pending, the driver's queue of inputs
          drv,           \* the driver: [at, id, cancel]
          cancelPending, \* TuiRuntime.cancel_pending
          shutdown,      \* the shutdown event
          starting,      \* CommandPresentation.starting
          stage,         \* how far _shutdown has come
          disk,          \* the inputs in the queue of the last written snapshot
          accepted,      \* how many lines were submitted
          kind,          \* kind[id]
          tabbed,        \* the inputs submitted with Tab
          started,       \* history: the inputs a turn or command began on, in order
          gone           \* history: gone[id], why an input left without starting

input == <<mode, draft, accepted, kind, tabbed>>
vars == <<mode, draft, accepting, submissions, con, turnActive, queue, pending, drv, cancelPending,
          shutdown, starting, stage, disk, accepted, kind, tabbed, started, gone>>

Ids == 1..MaxInputs
Idle == [at |-> "idle", id |-> 0, next |-> FALSE, snap |-> {}]
Waiting == [at |-> "wait", id |-> 0, cancel |-> FALSE]
Line(id, next) == [what |-> "line", id |-> id, next |-> next]
Order(what) == [what |-> what, id |-> 0, next |-> FALSE]
Queued(id, next) == [id |-> id, next |-> next, inflight |-> FALSE]
QueuedIds(q) == {q[i].id : i \in 1..Len(q)}

Init ==
    /\ mode = "CHAT" /\ draft = "none" /\ accepting = TRUE
    /\ submissions = <<>> /\ pending = <<>>
    /\ con = [Idle EXCEPT !.at = "unborn"]
    /\ drv = [Waiting EXCEPT !.at = "starting"]
    /\ turnActive = FALSE /\ cancelPending = FALSE
    /\ shutdown = FALSE /\ starting = TRUE /\ stage = "up"
    /\ accepted \in Restored                              \* a restored session's queue
    /\ queue = [id \in 1..accepted |-> Queued(id, TRUE)]
    /\ disk = 1..accepted /\ tabbed = 1..accepted
    /\ kind = [id \in Ids |-> "text"]
    /\ started = <<>>
    /\ gone = [id \in Ids |-> "no"]

-----------------------------------------------------------------------------
(* Queue operations.                                                       *)

\* CommandLoop.take_pending_inputs: the plain follow-ups leave together, a held input alone.
Takeable(q) == SelectSeq(q, LAMBDA item : ~item.inflight)
TakenCount(free) ==
    IF free = <<>> THEN 0
    ELSE IF free[1].next THEN 1
    ELSE Cardinality({n \in 1..Len(free) : \A i \in 1..n : ~free[i].next})
Taken(q) == SubSeq(Takeable(q), 1, TakenCount(Takeable(q)))
Left(q) == SelectSeq(q, LAMBDA item : \A i \in 1..Len(Taken(q)) : Taken(q)[i] # item)

\* Mutant: the other follow-ups taken with the first one are not put back.
Flush_mut(q, p) ==
    LET entered == Taken(q)
    IN  IF entered = <<>> THEN queue' = q /\ pending' = p
        ELSE pending' = Append(p, entered[1].id) /\ queue' = Left(q)
\* flush_pending and submit_next: the first goes to the driver, the others back to the session.
Flush(q, p) ==
    LET entered == Taken(q)
    IN  IF entered = <<>> THEN queue' = q /\ pending' = p
        ELSE /\ pending' = Append(p, entered[1].id)
             /\ queue' = Left(q) \o [i \in 1..(Len(entered) - 1) |-> Queued(entered[i + 1].id, FALSE)]

\* reset_turn: back to the chat prompt.
ResetTurn == mode' = "CHAT" /\ cancelPending' = FALSE

-----------------------------------------------------------------------------
(* Key handlers.                                                           *)

\* submit_accepted: refused once shutdown has closed admission.
SubmitAccepted(order) == submissions' = IF accepting THEN Append(submissions, order) ELSE submissions

\* The line that Enter or Tab sends: the draft in the editor, or a new one.
Write(k) ==
    /\ accepted < MaxInputs
    /\ k = IF draft = "none" THEN k ELSE draft
    /\ draft' = "none"
    /\ accepted' = accepted + 1
    /\ kind' = [kind EXCEPT ![accepted + 1] = k]

\* _accept at the chat prompt, then submit_chat.
EnterChat(k) ==
    /\ mode = "CHAT" /\ stage # "down"
    /\ Write(k)
    /\ SubmitAccepted(Line(accepted + 1, FALSE))
    /\ gone' = IF accepting THEN gone ELSE [gone EXCEPT ![accepted + 1] = "unsent"]
    /\ mode' = IF starting /\ ~turnActive THEN "CHAT" ELSE "DISPATCH"
    /\ UNCHANGED <<accepting, con, turnActive, queue, pending, drv, cancelPending, shutdown, starting,
                   stage, disk, tabbed, started>>

\* _submit_running and submit_running: a slash command runs now or is refused by name (the
\* queue-safe ones only read), anything else is a live follow-up.
EnterRunning(k) ==
    /\ mode = "RUNNING" /\ stage # "down"
    /\ Write(k)
    /\ IF k = "command" THEN UNCHANGED submissions ELSE SubmitAccepted(Line(accepted + 1, FALSE))
    /\ gone' = IF k = "command" THEN [gone EXCEPT ![accepted + 1] = "told"]
               ELSE IF accepting THEN gone ELSE [gone EXCEPT ![accepted + 1] = "unsent"]
    /\ UNCHANGED <<mode, accepting, con, turnActive, queue, pending, drv, cancelPending, shutdown,
                   starting, stage, disk, tabbed, started>>

\* Tab while working: submit_next_turn.
TabRunning(k) ==
    /\ mode = "RUNNING" /\ stage # "down"
    /\ Write(k)
    /\ SubmitAccepted(Line(accepted + 1, TRUE))
    /\ tabbed' = tabbed \cup {accepted + 1}
    /\ gone' = IF accepting THEN gone ELSE [gone EXCEPT ![accepted + 1] = "unsent"]
    /\ UNCHANGED <<mode, accepting, con, turnActive, queue, pending, drv, cancelPending, shutdown,
                   starting, stage, disk, started>>

\* Mutant: the line is copied to the editor and stays queued.
WithoutLast_mut(q) == [i \in 1..Len(q) |-> [q[i] EXCEPT !.inflight = FALSE]]
\* Up or Ctrl-P while working: recall_pending_input moves the newest queued line to the editor,
\* and releases the claim of the others when the running request had taken it.
WithoutLast(q) ==
    IF q[Len(q)].inflight THEN [i \in 1..(Len(q) - 1) |-> [q[i] EXCEPT !.inflight = FALSE]]
    ELSE SubSeq(q, 1, Len(q) - 1)
Recall ==
    /\ mode = "RUNNING" /\ queue # <<>> /\ stage # "down"
    /\ LET id == queue[Len(queue)].id
       IN  /\ draft' = kind[id]
           /\ gone' = [gone EXCEPT ![id] = "recalled"]
    /\ queue' = WithoutLast(queue)
    /\ SubmitAccepted(Order("write"))
    /\ UNCHANGED <<mode, accepting, con, turnActive, pending, drv, cancelPending, shutdown, starting,
                   stage, disk, accepted, kind, tabbed, started>>

\* Ctrl-C: a draft absorbs it; otherwise interrupt() cancels the command or the turn.
CtrlC ==
    /\ stage # "down"
    /\ IF draft # "none"
       THEN draft' = "none" /\ UNCHANGED <<mode, cancelPending, drv>>
       ELSE /\ mode # "CHAT" /\ ~cancelPending
            /\ cancelPending' = TRUE
            /\ mode' = "RUNNING"
            /\ drv' = [drv EXCEPT !.cancel = drv.at \in {"command", "turn"}]
            /\ UNCHANGED draft
    /\ UNCHANGED <<accepting, submissions, con, turnActive, queue, pending, shutdown, starting, stage,
                   disk, accepted, kind, tabbed, started, gone>>

\* Ctrl-D on an empty chat prompt: request_exit.
CtrlD ==
    /\ mode = "CHAT" /\ draft = "none" /\ ~shutdown
    /\ shutdown' = TRUE
    /\ SubmitAccepted(Order("write"))
    /\ UNCHANGED <<mode, draft, accepting, con, turnActive, queue, pending, drv, cancelPending,
                   starting, stage, disk, accepted, kind, tabbed, started, gone>>

\* Ctrl-\ at any time, or the application ended under the runtime: force_exit, _run_application.
AppEnds ==
    /\ ~shutdown
    /\ shutdown' = TRUE
    /\ drv' = [drv EXCEPT !.cancel = drv.at = "turn"]
    /\ UNCHANGED <<mode, draft, accepting, submissions, con, turnActive, queue, pending, cancelPending,
                   starting, stage, disk, accepted, kind, tabbed, started, gone>>

-----------------------------------------------------------------------------
(* The consumer of accepted submissions.                                   *)

\* _admit_input refuses: the draft goes back to the editor unless another one is being typed.
Refuse(id) ==
    /\ gone' = [gone EXCEPT ![id] = "refused"]
    /\ draft' = IF draft = "none" THEN kind[id] ELSE draft

\* An admitted line: to the driver when no turn is active, else to the session's queue and a save.
Place(id, next) ==
    IF ~turnActive
    THEN /\ pending' = Append(pending, id)
         /\ con' = Idle
         /\ UNCHANGED queue
    ELSE /\ queue' = Append(queue, Queued(id, next))
         /\ con' = [Idle EXCEPT !.at = "save", !.snap = QueuedIds(queue) \cup {id}]
         /\ UNCHANGED pending

\* One submission at a time.  Only an image suspends in admission.
ConsumerFree == con.at = "idle"

Consume ==
    /\ submissions # <<>> /\ ConsumerFree
    /\ submissions' = Tail(submissions)
    /\ LET order == Head(submissions)
       IN  CASE order.what = "boundary" ->
                  /\ con' = [Idle EXCEPT !.at = "boundary", !.snap = QueuedIds(queue)]
                  /\ UNCHANGED <<queue, pending, draft, gone>>
             [] order.what = "write" ->
                  /\ con' = [Idle EXCEPT !.at = "save", !.snap = QueuedIds(queue)]
                  /\ UNCHANGED <<queue, pending, draft, gone>>
             [] order.what = "line" /\ kind[order.id] = "image" ->
                  /\ con' = [Idle EXCEPT !.at = "admit", !.id = order.id, !.next = order.next]
                  /\ UNCHANGED <<queue, pending, draft, gone>>
             [] OTHER ->
                  \/ Place(order.id, order.next) /\ UNCHANGED <<draft, gone>>
                  \/ Refuse(order.id) /\ UNCHANGED <<con, queue, pending>>     \* a stale @agents.md:
    /\ UNCHANGED <<mode, accepting, turnActive, drv, cancelPending, shutdown, starting, stage, disk,
                   accepted, kind, tabbed, started>>

\* The image's copy is stored, or the file vanished.
Admitted ==
    /\ con.at = "admit"
    /\ \/ Place(con.id, con.next) /\ UNCHANGED <<draft, gone>>
       \/ Refuse(con.id) /\ con' = Idle /\ UNCHANGED <<queue, pending>>
    /\ UNCHANGED <<mode, accepting, submissions, turnActive, drv, cancelPending, shutdown, starting,
                   stage, disk, accepted, kind, tabbed, started>>

Saved ==
    /\ con.at = "save"
    /\ disk' = con.snap
    /\ con' = Idle
    /\ UNCHANGED <<mode, draft, accepting, submissions, turnActive, queue, pending, drv, cancelPending,
                   shutdown, starting, stage, accepted, kind, tabbed, started, gone>>

\* The turn boundary: every earlier line is placed; the next turn's input leaves the queue.
Boundary ==
    /\ con.at = "boundary"
    /\ disk' = con.snap
    /\ turnActive' = FALSE
    /\ Flush(queue, pending)
    /\ con' = Idle
    /\ drv' = IF drv.at = "boundary" THEN [drv EXCEPT !.at = "reset"] ELSE drv
    /\ UNCHANGED <<mode, draft, accepting, submissions, cancelPending, shutdown, starting, stage,
                   accepted, kind, tabbed, started, gone>>

\* A save raised: the consumer's task failed, which takes the runtime down.
SaveFails ==
    /\ con.at \in {"save", "boundary"}
    /\ con' = [Idle EXCEPT !.at = "dead"]
    /\ shutdown' = TRUE
    /\ UNCHANGED <<mode, draft, accepting, submissions, turnActive, queue, pending, drv, cancelPending,
                   starting, stage, disk, accepted, kind, tabbed, started, gone>>

-----------------------------------------------------------------------------
(* The driver.                                                             *)

\* run: the consumer starts once the group is restored, then the restored queue opens the first turn.
StartConsumer ==
    /\ con.at = "unborn" /\ stage = "up"
    /\ con' = Idle
    /\ UNCHANGED <<mode, draft, accepting, submissions, turnActive, queue, pending, drv, cancelPending,
                   shutdown, starting, stage, disk, accepted, kind, tabbed, started, gone>>
StartDriver ==
    /\ drv.at = "starting" /\ con.at # "unborn" /\ stage = "up" /\ ~shutdown
    /\ Flush(queue, pending)
    /\ drv' = Waiting
    /\ UNCHANGED <<mode, draft, accepting, submissions, con, turnActive, cancelPending, shutdown,
                   starting, stage, disk, accepted, kind, tabbed, started, gone>>
FinishStarting ==
    /\ starting /\ drv.at # "starting"
    /\ starting' = FALSE
    /\ UNCHANGED <<mode, draft, accepting, submissions, con, turnActive, queue, pending, drv,
                   cancelPending, shutdown, stage, disk, accepted, kind, tabbed, started, gone>>

\* run_agent_loop: one input; dropped when a cancel is pending, checked again, then dispatched.
Take ==
    /\ drv.at = "wait" /\ pending # <<>> /\ stage = "up"
    /\ pending' = Tail(pending)
    /\ LET id == Head(pending)
       IN  \/ /\ cancelPending
              /\ gone' = [gone EXCEPT ![id] = "cancelled"]
              /\ ResetTurn
              /\ UNCHANGED <<drv, draft>>
           \/ /\ ~cancelPending
              /\ Refuse(id)
              /\ UNCHANGED <<drv, mode, cancelPending>>
           \/ /\ ~cancelPending
              /\ drv' = [Waiting EXCEPT !.at = "command", !.id = id]
              /\ UNCHANGED <<mode, cancelPending, draft, gone>>
    /\ UNCHANGED <<accepting, submissions, con, turnActive, queue, shutdown, starting, stage, disk,
                   accepted, kind, tabbed, started>>

\* A command that reaches the provider (/compact) shows the working prompt while it runs.
CommandWorks ==
    /\ drv.at = "command" /\ kind[drv.id] = "command" /\ mode # "RUNNING"
    /\ mode' = "RUNNING"
    /\ UNCHANGED <<draft, accepting, submissions, con, turnActive, queue, pending, drv, cancelPending,
                   shutdown, starting, stage, disk, accepted, kind, tabbed, started, gone>>

\* dispatch: a handled or cancelled command flushes the queue before the prompt is restored.
AfterCommand(q, p) == Flush(q, p) /\ ResetTurn
CommandEnds ==
    /\ drv.at = "command"
    /\ kind[drv.id] = "command" \/ drv.cancel
    /\ IF drv.cancel THEN gone' = [gone EXCEPT ![drv.id] = "cancelled"] /\ UNCHANGED started
                     ELSE started' = Append(started, drv.id) /\ UNCHANGED gone
    /\ AfterCommand(queue, pending)
    /\ drv' = Waiting
    /\ UNCHANGED <<draft, accepting, submissions, con, turnActive, shutdown, starting, stage, disk,
                   accepted, kind, tabbed>>

\* run_agent_turn opens.
TurnStarts ==
    /\ drv.at = "command" /\ kind[drv.id] # "command" /\ ~drv.cancel
    /\ turnActive' = TRUE
    /\ mode' = "RUNNING"
    /\ started' = Append(started, drv.id)
    /\ drv' = [drv EXCEPT !.at = "turn"]
    /\ UNCHANGED <<draft, accepting, submissions, con, queue, pending, cancelPending, shutdown,
                   starting, stage, disk, accepted, kind, tabbed, gone>>

\* The engine claims the plain follow-ups for a request, commits or releases them (TurnEngine).
Claim ==
    /\ drv.at = "turn" /\ ~drv.cancel
    /\ \E i \in 1..Len(queue) : ~queue[i].next /\ ~queue[i].inflight
    /\ queue' = [i \in 1..Len(queue) |-> [queue[i] EXCEPT !.inflight = ~queue[i].next]]
    /\ UNCHANGED <<mode, draft, accepting, submissions, con, turnActive, pending, drv, cancelPending,
                   shutdown, starting, stage, disk, accepted, kind, tabbed, started, gone>>
Commit ==
    /\ drv.at = "turn"
    /\ \E i \in 1..Len(queue) : queue[i].inflight
    /\ LET claimed == SelectSeq(queue, LAMBDA item : item.inflight)
       IN  started' = started \o [i \in 1..Len(claimed) |-> claimed[i].id]
    /\ queue' = SelectSeq(queue, LAMBDA item : ~item.inflight)
    /\ UNCHANGED <<mode, draft, accepting, submissions, con, turnActive, pending, drv, cancelPending,
                   shutdown, starting, stage, disk, accepted, kind, tabbed, gone>>

\* _drive_turn returns, answered, failed or cancelled, with the claims released and the turn saved;
\* _finish_turn_submissions then puts the boundary behind what was accepted meanwhile.
TurnEnds ==
    /\ drv.at = "turn"
    /\ LET released == [i \in 1..Len(queue) |-> [queue[i] EXCEPT !.inflight = FALSE]]
       IN  /\ disk' = QueuedIds(queue)
           /\ IF stage # "up"          \* _close_submissions took submissions_task away
              THEN /\ Flush(released, pending)
                   /\ turnActive' = FALSE
                   /\ drv' = [drv EXCEPT !.at = "reset"]
                   /\ UNCHANGED submissions
              ELSE /\ queue' = released
                   /\ submissions' = Append(submissions, Order("boundary"))
                   /\ drv' = [drv EXCEPT !.at = "boundary"]
                   /\ UNCHANGED <<pending, turnActive>>
    /\ UNCHANGED <<mode, draft, accepting, con, cancelPending, shutdown, starting, stage, accepted,
                   kind, tabbed, started, gone>>

\* The end of run_agent_turn: the boundary was committed, or shutdown cancelled the wait for it.
TurnLeaves ==
    /\ \/ drv.at = "reset"
       \/ drv.at = "boundary" /\ stage = "cancel"
    /\ turnActive' = FALSE
    /\ ResetTurn
    /\ drv' = Waiting
    /\ UNCHANGED <<draft, accepting, submissions, con, queue, pending, shutdown, starting, stage, disk,
                   accepted, kind, tabbed, started, gone>>

-----------------------------------------------------------------------------
(* _shutdown: admission, the consumer, the owned tasks, the application.   *)

\* The driver notices the event while it waits or drives a turn, never inside dispatch.
BeginShutdown ==
    /\ shutdown /\ stage = "up" /\ drv.at # "command"
    /\ accepting' = FALSE
    /\ stage' = "drain"
    /\ UNCHANGED <<mode, draft, submissions, con, turnActive, queue, pending, drv, cancelPending,
                   shutdown, starting, disk, accepted, kind, tabbed, started, gone>>

\* Mutant: the consumer is cancelled with the other tasks, whatever it still holds.
SubmissionsSettled_mut == TRUE
\* _close_submissions: the accepted ones are applied first, unless the consumer died or never ran.
SubmissionsSettled == con.at \in {"dead", "unborn"} \/ (con.at = "idle" /\ submissions = <<>>)
CloseSubmissions ==
    /\ stage = "drain" /\ SubmissionsSettled
    /\ stage' = "cancel"
    /\ con' = [Idle EXCEPT !.at = IF con.at = "dead" THEN "dead" ELSE "closed"]
    /\ drv' = [drv EXCEPT !.cancel = drv.at = "turn"]
    /\ UNCHANGED <<mode, draft, accepting, submissions, turnActive, queue, pending, cancelPending,
                   shutdown, starting, disk, accepted, kind, tabbed, started, gone>>
FinishShutdown ==
    /\ stage = "cancel" /\ drv.at \in {"wait", "starting"}
    /\ stage' = "down"
    /\ UNCHANGED <<mode, draft, accepting, submissions, con, turnActive, queue, pending, drv,
                   cancelPending, shutdown, starting, disk, accepted, kind, tabbed, started, gone>>
Down == stage = "down" /\ UNCHANGED vars

Consumer == Consume \/ Admitted \/ Saved \/ Boundary
Driver == StartConsumer \/ StartDriver \/ FinishStarting \/ Take \/ CommandEnds \/ TurnStarts
          \/ TurnEnds \/ TurnLeaves
Shutdown == BeginShutdown \/ CloseSubmissions \/ FinishShutdown
Next ==
    \/ \E k \in Kinds : EnterChat(k) \/ EnterRunning(k) \/ TabRunning(k)
    \/ Recall \/ CtrlC \/ CtrlD \/ AppEnds
    \/ Consume \/ Admitted \/ Saved \/ Boundary \/ SaveFails
    \/ StartConsumer \/ StartDriver \/ FinishStarting
    \/ Take \/ CommandWorks \/ CommandEnds
    \/ TurnStarts \/ Claim \/ Commit \/ TurnEnds \/ TurnLeaves
    \/ BeginShutdown \/ CloseSubmissions \/ FinishShutdown \/ Down

(* A task of the event loop that can run does run, a turn ends once it is  *)
(* cancelled (TurnEngine), and a command returns.                          *)
Fairness == WF_vars(Consumer) /\ WF_vars(Driver) /\ WF_vars(Shutdown)
Spec == Init /\ [][Next]_vars /\ Fairness

-----------------------------------------------------------------------------
(* Properties.                                                             *)

Occurrences(s, id) == Cardinality({i \in 1..Len(s) : s[i] = id})
IdsOf(s) == [i \in 1..Len(s) |-> s[i].id]

\* One submitted line has one owner at every moment - the submission queue, the consumer, the
\* driver's queue, the session's queue, the dispatcher, a started turn, or the user again - through
\* boundaries, recalls, refusals, cancellations and shutdown: never lost, never run twice
\* (ui/cli/runtime.py:282-344, 517-532).
EveryInputHasOneOwner ==
    \A id \in 1..accepted :
        Occurrences(IdsOf(submissions), id) + Occurrences(pending, id) + Occurrences(IdsOf(queue), id)
          + Occurrences(started, id)
          + (IF con.id = id THEN 1 ELSE 0) + (IF drv.at = "command" /\ drv.id = id THEN 1 ELSE 0)
          + (IF gone[id] # "no" THEN 1 ELSE 0) = 1

\* A queue is never left with nobody to start it: when the driver waits with nothing to take, no
\* queued input is left behind and the prompt is back, unless an input was refused or cancelled on
\* the way ("a command must not strand queued follow-ups", ui/cli/runtime.py:566-572).
AtRest == /\ drv.at = "wait" /\ pending = <<>> /\ submissions = <<>> /\ con.at = "idle"
          /\ ~shutdown /\ ~turnActive
NothingIsStranded ==
    AtRest /\ (\A id \in Ids : gone[id] \notin {"refused", "cancelled"}) => queue = <<>> /\ mode = "CHAT"

\* What the session's queue had taken in is not lost by shutdown: when it is over, every line still
\* queued - or taken from the queue by the turn that shutdown ended - is in the written snapshot
\* (ui/cli/runtime.py:353-370, 882-885), unless a save itself failed.
QueueSurvivesShutdown ==
    stage = "down" /\ con.at = "closed" => QueuedIds(queue) \subseteq disk

\* Shutdown always completes once it was asked for (ui/cli/runtime.py:695-712, 865-927).
ShutdownCompletes == shutdown ~> stage = "down"

\* "each Tab starts one turn, in order" (docs/usage.md:11): the held lines start in typing order.
\* Not kept: a Tab during the save of a turn passes lines still held (ui/cli/runtime.py:291).
TabsStartInOrder ==
    LET held == SelectSeq(started, LAMBDA id : id \in tabbed)
    IN  \A i, j \in 1..Len(held) : i < j => held[i] < held[j]

\* The prompt dispatches "until the runtime admits the line" (ui/startup.py:117-118): with nothing
\* left to admit or run, it takes the next line again.
\* Not kept: after a refused input nobody leaves the dispatch mode.
PromptTakesTheNextLine == AtRest => mode # "DISPATCH"
=============================================================================
