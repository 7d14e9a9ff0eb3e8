----------------------------- MODULE Subagents -----------------------------
(***************************************************************************)
(* A family of agents: the class Subagents of wizolt/agent/subagents.py,   *)
(* one inbox consumer per child, the child's engine as far as the group    *)
(* sees it, and the frontend that feeds a child (wizolt/ui/cli/runtime.py).*)
(*                                                                         *)
(* at[c] is the await child c's consumer is in, lock the group operation   *)
(* that holds the admission lock and the await it has reached.  An inbox   *)
(* is the number of inputs in it, a log what a resume would read of the    *)
(* child.  A save is one step.  Slash commands typed into a child, wait,   *)
(* and the results children publish (see TurnEngine) are left out.         *)
(***************************************************************************)
EXTENDS Naturals, FiniteSets

CONSTANTS Children,    \* uids that may be drawn for children
          Root,        \* the main agent
          None,
          Limits,      \* values settings.max_subagents may have
          MaxRetained, \* MAX_SUBAGENTS
          Faults,      \* which faults happen: subset of FaultKinds
          MaxInputs,   \* bound: inputs given to children
          MaxCrashes   \* bound: process deaths

\* "save": a save raises.  "cancel": the turn of the main agent is cancelled
\* inside a group operation.  "crash": the process dies.
FaultKinds == {"save", "cancel", "crash"}

ASSUME GroupConstants ==
  /\ IsFiniteSet(Children)
  /\ Faults \subseteq FaultKinds
  /\ Limits \cup {MaxRetained, MaxInputs, MaxCrashes} \subseteq Nat
  /\ {Root, None} \cap Children = {} /\ Root # None

VARIABLES
  limit,     \* settings.max_subagents of the main agent
  attached,  \* the children in group.entries
  parent,    \* entry.parent of every uid ever drawn, or None
  inbox,     \* length of each child's pending_user_inputs
  at,        \* where entry.task is
  cancel,    \* a cancellation of entry.task is on its way
  restart,   \* entry.restart_requested
  status,    \* state.last_turn_status
  sending,   \* children whose frontend waits in group.send
  lock,      \* the operation under the admission lock, or None
  retiring,  \* the branch an archive is about to retire, or {}
  closing,   \* the frontends take no more input: shutdown has begun
  closed,    \* group.closed
  manifest,  \* root session.subagent_entries
  rootLog,   \* the manifest a resume would read
  log,       \* what a resume would read of each child, or None
  byUser,    \* the consumer was started by the user, whom no limit holds
  stopped,   \* a stop has not been followed by a start yet
  parked,    \* children given input without a start
  inputs, crashes

entryVars == <<attached, parent>>
taskVars  == <<at, cancel, restart, status>>
gateVars  == <<retiring, closing, closed>>
diskVars  == <<rootLog, log>>
startVars == <<byUser, stopped, parked>>
countVars == <<limit, inputs, crashes>>
vars == <<entryVars, inbox, taskVars, sending, lock, gateVars, manifest, diskVars, startVars, countVars>>

Locations == {"none", "created", "opening", "turn", "calling", "settling", "boundary",
              "drained", "paused", "dead"}
Statuses == {"idle", "running", "completed", "failed", "interrupted"}
Ended == {"failed", "interrupted"}

\* entry.task is live: neither None nor done.
Active(c) == at[c] \notin {"none", "dead"}
Consumers == {c \in Children : Active(c)}

\* Agent.turn_active; the frontend's own flag outlives it up to the boundary.
TurnActive(c) == at[c] \in {"opening", "turn", "calling", "settling"}
FrontendTurn(c) == TurnActive(c) \/ at[c] = "boundary"

\* save_snapshot of a child.
Saved(c) == log' = [log EXCEPT ![c] = [inbox |-> inbox'[c], status |-> status'[c]]]

Init ==
  /\ limit \in Limits
  /\ attached = {}
  /\ parent = [c \in Children |-> None]
  /\ inbox = [c \in Children |-> 0]
  /\ at = [c \in Children |-> "none"]
  /\ cancel = [c \in Children |-> FALSE]
  /\ restart = [c \in Children |-> FALSE]
  /\ status = [c \in Children |-> "idle"]
  /\ sending = {}
  /\ lock = None
  /\ retiring = {}
  /\ closing = FALSE
  /\ closed = FALSE
  /\ manifest = [c \in Children |-> "absent"]
  /\ rootLog = manifest
  /\ log = [c \in Children |-> None]
  /\ byUser = {}
  /\ stopped = {}
  /\ parked = {}
  /\ inputs = 0
  /\ crashes = 0

-----------------------------------------------------------------------------
(* Starting and stopping a consumer.                                       *)

\* The new task of _start; `from` is where the other tasks are by then.
Created(c, from) ==
  /\ at' = [from EXCEPT ![c] = "created"]
  /\ cancel' = [cancel EXCEPT ![c] = FALSE]
  /\ restart' = [restart EXCEPT ![c] = FALSE]
  /\ status' = [status EXCEPT ![c] = IF inbox'[c] > 0 THEN "running" ELSE @]

\* _start: a live consumer is asked to look again only once its turn has ended.
Started(c, from) ==
  IF Active(c)
  THEN /\ at' = from
       /\ restart' = [restart EXCEPT ![c] = @ \/ ~TurnActive(c) \/ status[c] \in Ended]
       /\ stopped' = IF restart'[c] THEN stopped \ {c} ELSE stopped
       /\ UNCHANGED <<cancel, status>>
  ELSE /\ Created(c, from)
       /\ stopped' = stopped \ {c}

\* Mutants: stop only clears the wake request; stop leaves the wake request.
StoppedSoftly(C) ==
  /\ restart' = [c \in Children |-> restart[c] /\ c \notin C]
  /\ UNCHANGED cancel

StoppedWaking(C) ==
  /\ cancel' = [c \in Children |-> cancel[c] \/ (c \in C /\ Active(c))]
  /\ UNCHANGED restart

\* stop, of each child in C.
Stopped(C) ==
  /\ restart' = [c \in Children |-> restart[c] /\ c \notin C]
  /\ cancel' = [c \in Children |-> cancel[c] \/ (c \in C /\ Active(c))]

Stop(c) ==
  /\ c \in attached
  /\ Stopped({c})
  /\ stopped' = IF Active(c) THEN stopped \cup {c} ELSE stopped
  /\ UNCHANGED <<entryVars, inbox, at, status, sending, lock, gateVars, manifest, diskVars,
                 byUser, parked, countVars>>

-----------------------------------------------------------------------------
(* Operations under the admission lock.  Their caller is the main agent, a *)
(* child whose turn is at "calling", or (None) the frontend of the child.  *)

Operation(op, by, of) ==
  [op |-> op, by |-> by, of |-> of, stage |-> "begun", start |-> TRUE, held |-> FALSE, previous |-> manifest]

At(op, stage) == lock # None /\ lock.op = op /\ lock.stage = stage

\* The same, and the caller has not been cancelled meanwhile.
Proceeds(op, stage) == At(op, stage) /\ (lock.by \in Children => ~cancel[lock.by])

Models == {Root} \cup {p \in attached : at[p] = "calling" /\ ~cancel[p]}

\* on_created builds the frontend of a child before spawn goes on.
HasFrontend(c) == c \in attached /\ ~(At("spawn", "begun") /\ c \in lock.of)

\* Mutant: one too many.
Overbooked == limit > 0 /\ Cardinality(Consumers) <= limit

\* _admit.
Admissible == limit > 0 /\ Cardinality(Consumers) < limit

\* Where the tasks are once the caller's tool call has returned.
Returned == IF lock.by \in Children THEN [at EXCEPT ![lock.by] = "turn"] ELSE at

\* The caller is cancelled in the middle: a child's turn then settles.
Cancelled ==
  \/ /\ lock.by = Root /\ "cancel" \in Faults
     /\ UNCHANGED <<at, cancel, status>>
  \/ /\ lock.by \in Children /\ cancel[lock.by]
     /\ at' = [at EXCEPT ![lock.by] = "settling"]
     /\ cancel' = [cancel EXCEPT ![lock.by] = FALSE]
     /\ status' = [status EXCEPT ![lock.by] = "interrupted"]

\* A save raises.  The submission consumer of a frontend dies of it, and with
\* it the application (TuiRuntime._task_done).
Raised ==
  /\ "save" \in Faults
  /\ at' = Returned
  /\ closing' = (closing \/ lock.by = None)
  /\ sending' = IF lock.by = None THEN sending \ lock.of ELSE sending
  /\ UNCHANGED <<cancel, status>>

\* spawn and _attach, up to the frontend's on_created.
Spawn(p, c) ==
  /\ lock = None /\ ~closed
  /\ p \in Models
  /\ Admissible
  /\ Cardinality(attached) < MaxRetained
  /\ parent[c] = None
  /\ inputs < MaxInputs
  /\ lock' = Operation("spawn", p, {c})
  /\ parent' = [parent EXCEPT ![c] = p]
  /\ attached' = attached \cup {c}
  /\ inputs' = inputs + 1
  /\ UNCHANGED <<inbox, taskVars, sending, gateVars, manifest, diskVars, startVars, limit, crashes>>

\* The frontend is not built, or the caller is cancelled: _attach rolls back.
SpawnDetached ==
  /\ At("spawn", "begun")
  /\ attached' = attached \ lock.of
  /\ lock' = None
  /\ \/ Cancelled
     \/ at' = Returned /\ UNCHANGED <<cancel, status>>
  /\ UNCHANGED <<parent, inbox, restart, sending, gateVars, manifest, diskVars, startVars, countVars>>

\* Mutant: the manifest names the child before its log exists.
PublishedFirst(c) ==
  /\ Proceeds("spawn", "begun") /\ lock.of = {c}
  /\ inbox' = [inbox EXCEPT ![c] = 1]
  /\ manifest' = [manifest EXCEPT ![c] = "live"]
  /\ lock' = [lock EXCEPT !.stage = "child"]
  /\ UNCHANGED <<entryVars, taskVars, sending, gateVars, diskVars, startVars, countVars>>

SpawnAttached(c) ==
  /\ Proceeds("spawn", "begun") /\ lock.of = {c}
  /\ inbox' = [inbox EXCEPT ![c] = 1]
  /\ lock' = [lock EXCEPT !.stage = "child"]
  /\ UNCHANGED <<entryVars, taskVars, sending, gateVars, manifest, diskVars, startVars, countVars>>

\* The child is saved before the manifest names it.
SpawnChildSaved(c) ==
  /\ Proceeds("spawn", "child") /\ lock.of = {c}
  /\ UNCHANGED <<inbox, taskVars>>
  /\ Saved(c)
  /\ manifest' = [manifest EXCEPT ![c] = "live"]
  /\ lock' = [lock EXCEPT !.stage = "root"]
  /\ UNCHANGED <<entryVars, sending, gateVars, rootLog, startVars, countVars>>

SpawnRootSaved(c) ==
  /\ Proceeds("spawn", "root") /\ lock.of = {c}
  /\ rootLog' = manifest
  /\ UNCHANGED inbox
  /\ Started(c, Returned)
  /\ lock' = None
  /\ UNCHANGED <<entryVars, sending, gateVars, manifest, log, byUser, parked, countVars>>

\* send, up to its save.  The user typing into a child is not held to the limit,
\* and steering a child that holds a slot takes no new one.
Send(p, c, start) ==
  /\ lock = None /\ ~closed
  /\ IF p = None THEN c \in sending /\ start
     ELSE p \in Models /\ (start => Active(c) \/ Admissible)
  /\ c \in attached
  /\ IF p = None THEN UNCHANGED inputs ELSE inputs < MaxInputs /\ inputs' = inputs + 1
  /\ inbox' = [inbox EXCEPT ![c] = @ + 1]
  /\ lock' = [Operation("send", p, {c}) EXCEPT !.start = start, !.held = Active(c)]
  /\ UNCHANGED <<entryVars, taskVars, sending, gateVars, manifest, diskVars, startVars, limit, crashes>>

SendSaved(c) ==
  /\ Proceeds("send", "begun") /\ lock.of = {c}
  /\ UNCHANGED inbox
  /\ IF lock.start
     THEN /\ Started(c, Returned)
          /\ parked' = parked \ {c}
          /\ byUser' = IF lock.by = None /\ ~Active(c) THEN byUser \cup {c}
                       ELSE IF lock.held \/ Active(c) THEN byUser ELSE byUser \ {c}
     ELSE /\ at' = Returned
          /\ parked' = parked \cup {c}
          /\ UNCHANGED <<cancel, restart, status, byUser, stopped>>
  /\ Saved(c)
  /\ sending' = IF lock.by = None THEN sending \ {c} ELSE sending
  /\ lock' = None
  /\ UNCHANGED <<entryVars, gateVars, manifest, rootLog, countVars>>

\* A save of spawn or send raises, or its caller is cancelled while it is
\* written: the input stays in the inbox and nobody is started.
Abandoned ==
  /\ At("spawn", "child") \/ At("spawn", "root") \/ At("send", "begun")
  /\ UNCHANGED inbox
  /\ \/ Raised /\ UNCHANGED diskVars
     \/ /\ Cancelled
        /\ IF lock.stage = "root" THEN rootLog' = manifest /\ UNCHANGED log
           ELSE (\E c \in lock.of : Saved(c)) /\ UNCHANGED rootLog
        /\ UNCHANGED <<closing, sending>>
  /\ parked' = parked \cup lock.of
  /\ lock' = None
  /\ UNCHANGED <<entryVars, restart, retiring, closed, manifest, byUser, stopped, countVars>>

-----------------------------------------------------------------------------
(* Archiving a branch, and closing the group.                              *)

\* branch: a child and all its attached descendants, the least set with the
\* child that has the offspring of its members.
Offspring(C) == C \cup {d \in attached : parent[d] \in C}
Branch(c) == {d \in Children : \A S \in SUBSET Children : c \in S /\ Offspring(S) \subseteq S => d \in S}

\* archive_admission closes the submissions of the branch before the lock is
\* asked for; only the main agent and the user archive.
Archive(c) ==
  /\ retiring = {}
  /\ c \in attached
  /\ \A d \in Branch(c) : HasFrontend(d)
  /\ retiring' = Branch(c)
  /\ UNCHANGED <<entryVars, inbox, taskVars, sending, lock, closing, closed, manifest, diskVars,
                 startVars, countVars>>

\* The branch has changed meanwhile, or the group is closed.
ArchiveRefused ==
  /\ retiring # {} /\ lock = None
  /\ closed \/ \E c \in retiring : c \notin attached \/ ~(Branch(c) \subseteq retiring)
  /\ retiring' = {}
  /\ UNCHANGED <<entryVars, inbox, taskVars, sending, lock, closing, closed, manifest, diskVars,
                 startVars, countVars>>

\* Mutant: the branch is not looked at again under the lock.
UncheckedBranch ==
  /\ retiring # {} /\ lock = None /\ ~closed
  /\ sending \cap retiring = {}
  /\ lock' = Operation("archive", Root, retiring)
  /\ Stopped(retiring)
  /\ stopped' = stopped \cup {c \in retiring : Active(c)}
  /\ UNCHANGED <<entryVars, inbox, at, status, sending, gateVars, manifest, diskVars,
                 byUser, parked, countVars>>

\* Mutant: the lock is taken while a frontend of the branch waits for it.
UndrainedArchive ==
  /\ retiring # {} /\ lock = None /\ ~closed
  /\ \A c \in retiring : c \in attached /\ Branch(c) \subseteq retiring
  /\ lock' = Operation("archive", Root, retiring)
  /\ Stopped(retiring)
  /\ stopped' = stopped \cup {c \in retiring : Active(c)}
  /\ UNCHANGED <<entryVars, inbox, at, status, sending, gateVars, manifest, diskVars,
                 byUser, parked, countVars>>

ArchiveAdmitted ==
  /\ retiring # {} /\ lock = None /\ ~closed
  /\ sending \cap retiring = {}
  /\ \A c \in retiring : c \in attached /\ Branch(c) \subseteq retiring
  /\ lock' = Operation("archive", Root, retiring)
  /\ Stopped(retiring)
  /\ stopped' = stopped \cup {c \in retiring : Active(c)}
  /\ UNCHANGED <<entryVars, inbox, at, status, sending, gateVars, manifest, diskVars,
                 byUser, parked, countVars>>

\* The consumers have ended: the inboxes are dropped and the children saved.
ArchiveJoined ==
  /\ At("archive", "begun")
  /\ \A c \in lock.of : ~Active(c)
  /\ inbox' = [c \in Children |-> IF c \in lock.of THEN 0 ELSE inbox[c]]
  /\ log' = [c \in Children |-> IF c \in lock.of THEN [inbox |-> 0, status |-> status[c]] ELSE log[c]]
  /\ manifest' = [c \in Children |->
                    IF c \in lock.of /\ manifest[c] = "live" THEN "archived" ELSE manifest[c]]
  /\ lock' = [lock EXCEPT !.stage = "root"]
  /\ UNCHANGED <<entryVars, taskVars, sending, gateVars, rootLog, startVars, countVars>>

ArchiveSaved ==
  /\ At("archive", "root")
  /\ rootLog' = manifest
  /\ lock' = [lock EXCEPT !.stage = "dispose"]
  /\ UNCHANGED <<entryVars, inbox, taskVars, sending, gateVars, manifest, log, startVars, countVars>>

\* The engines go one by one.
ArchiveDisposed(c) ==
  /\ At("archive", "dispose") /\ c \in lock.of
  /\ attached' = attached \ {c}
  /\ IF lock.of = {c} THEN lock' = None /\ retiring' = {}
     ELSE lock' = [lock EXCEPT !.of = @ \ {c}] /\ UNCHANGED retiring
  /\ UNCHANGED <<parent, inbox, taskVars, sending, closing, closed, manifest, diskVars, startVars,
                 countVars>>

\* It ends while a child is saved: the inboxes are empty up to this one.
ArchiveUnsaved ==
  /\ Faults \cap {"save", "cancel"} # {} /\ At("archive", "begun")
  /\ \A c \in lock.of : ~Active(c)
  /\ \E S \in SUBSET lock.of : \E c \in lock.of \ S :
       /\ inbox' = [d \in Children |-> IF d \in S \cup {c} THEN 0 ELSE inbox[d]]
       /\ \E W \in {S : f \in Faults \cap {"save"}} \cup {S \cup {c} : f \in Faults \cap {"cancel"}} :
            log' = [d \in Children |-> IF d \in W THEN [inbox |-> 0, status |-> status[d]] ELSE log[d]]
  /\ lock' = None
  /\ retiring' = {}
  /\ UNCHANGED <<entryVars, taskVars, sending, closing, closed, manifest, rootLog, startVars, countVars>>

\* The main agent's turn is cancelled, or the manifest cannot be saved.
ArchiveAbandoned ==
  /\ lock # None /\ lock.op = "archive"
  /\ \/ "cancel" \in Faults /\ rootLog' = (IF lock.stage = "root" THEN manifest ELSE rootLog)
     \/ "save" \in Faults /\ lock.stage = "root" /\ UNCHANGED rootLog
  /\ manifest' = IF lock.stage = "root" THEN lock.previous ELSE manifest
  /\ lock' = None
  /\ retiring' = {}
  /\ UNCHANGED <<entryVars, inbox, taskVars, sending, closing, closed, log, startVars, countVars>>

\* TuiRuntime._shutdown: the frontends drain, then the group closes.
Shutdown ==
  /\ ~closing
  /\ closing' = TRUE
  /\ UNCHANGED <<entryVars, inbox, taskVars, sending, lock, retiring, closed, manifest, diskVars,
                 startVars, countVars>>

Close ==
  /\ closing /\ sending = {}
  /\ lock = None /\ ~closed
  /\ closed' = TRUE
  /\ lock' = Operation("close", None, attached)
  /\ Stopped(attached)
  /\ stopped' = stopped \cup Consumers
  /\ UNCHANGED <<entryVars, inbox, at, status, sending, retiring, closing, manifest, diskVars,
                 byUser, parked, countVars>>

\* Mutant: the tasks are stopped and not joined.
UnjoinedClose ==
  /\ At("close", "begun")
  /\ log' = [c \in Children |->
               IF c \in attached THEN [inbox |-> inbox[c], status |-> status[c]] ELSE log[c]]
  /\ lock' = None
  /\ UNCHANGED <<entryVars, inbox, taskVars, sending, gateVars, manifest, rootLog, startVars, countVars>>

CloseJoined ==
  /\ At("close", "begun")
  /\ \A c \in lock.of : ~Active(c)
  /\ \E S \in SUBSET attached :
       /\ "save" \in Faults \/ S = attached
       /\ log' = [c \in Children |-> IF c \in S THEN [inbox |-> inbox[c], status |-> status[c]] ELSE log[c]]
  /\ lock' = None
  /\ UNCHANGED <<entryVars, inbox, taskVars, sending, gateVars, manifest, rootLog, startVars, countVars>>

-----------------------------------------------------------------------------
(* The consumer of one inbox: _run, and Agent.run under it.                *)

Goes(c, location) == at' = [at EXCEPT ![c] = location]

consumerRest == <<entryVars, sending, lock, gateVars, manifest, rootLog, startVars, countVars>>

\* Mutant: the inbox is not looked at first.
TakesBlindly(c) ==
  /\ inbox' = [inbox EXCEPT ![c] = @ - 1]
  /\ restart' = [restart EXCEPT ![c] = FALSE]
  /\ status' = [status EXCEPT ![c] = "running"]
  /\ Goes(c, "opening")

\* The head of the loop.
TakesNext(c) ==
  IF inbox[c] > 0
  THEN /\ inbox' = [inbox EXCEPT ![c] = @ - 1]
       /\ restart' = [restart EXCEPT ![c] = FALSE]
       /\ status' = [status EXCEPT ![c] = "running"]
       /\ Goes(c, "opening")
  ELSE Goes(c, "drained") /\ UNCHANGED <<inbox, restart, status>>

Runs(c) ==
  /\ at[c] = "created" /\ ~cancel[c]
  /\ TakesNext(c)
  /\ UNCHANGED <<cancel, log, consumerRest>>

\* The turn's checkpoints; an active turn takes what has been queued for it.
Opens(c) ==
  /\ at[c] = "opening" /\ ~cancel[c]
  /\ Goes(c, "turn")
  /\ UNCHANGED <<inbox, status, cancel, restart>>
  /\ Saved(c)
  /\ UNCHANGED consumerRest

TakesFollowUps(c) ==
  /\ at[c] = "turn" /\ ~cancel[c] /\ inbox[c] > 0
  /\ inbox' = [inbox EXCEPT ![c] = 0]
  /\ UNCHANGED taskVars
  /\ Saved(c)
  /\ UNCHANGED consumerRest

Calls(c) ==
  /\ at[c] = "turn" /\ ~cancel[c]
  /\ Goes(c, "calling")
  /\ UNCHANGED <<cancel, restart, status, inbox, log, consumerRest>>

\* A call that is refused, or needs no lock, returns.
CallReturns(c) ==
  /\ at[c] = "calling" /\ ~cancel[c]
  /\ lock = None
  /\ Goes(c, "turn")
  /\ UNCHANGED <<cancel, restart, status, inbox, log, consumerRest>>

TurnEnds(c) ==
  /\ at[c] \in {"opening", "turn"} /\ ~cancel[c]
  /\ Goes(c, "settling")
  /\ \E outcome \in {"completed", "failed"} : status' = [status EXCEPT ![c] = outcome]
  /\ UNCHANGED <<cancel, restart, inbox, log, consumerRest>>

TurnInterrupted(c) ==
  /\ at[c] \in {"opening", "turn", "calling"} /\ cancel[c]
  /\ lock # None => lock.by # c
  /\ Goes(c, "settling")
  /\ cancel' = [cancel EXCEPT ![c] = FALSE]
  /\ status' = [status EXCEPT ![c] = "interrupted"]
  /\ UNCHANGED <<restart, inbox, log, consumerRest>>

\* The final save of Agent.run.  Cancelled, it is written all the same.
Settles(c) ==
  /\ at[c] = "settling"
  /\ cancel' = [cancel EXCEPT ![c] = FALSE]
  /\ status' = [status EXCEPT ![c] = IF cancel[c] THEN "interrupted" ELSE @]
  /\ Goes(c, "boundary")
  /\ log' = [log EXCEPT ![c] = [inbox |-> inbox[c], status |-> status[c]]]
  /\ UNCHANGED <<restart, inbox, consumerRest>>

SettleFails(c) ==
  /\ "save" \in Faults
  /\ at[c] = "settling"
  /\ cancel' = [cancel EXCEPT ![c] = FALSE]
  /\ status' = [status EXCEPT ![c] = "failed"]
  /\ Goes(c, "boundary")
  /\ UNCHANGED <<restart, inbox, log, consumerRest>>

\* _finish_turn_submissions: the turn is over once the frontend's consumer has
\* come to it, which it cannot while it waits in send.
PassesBoundary(c) ==
  /\ at[c] = "boundary" /\ ~cancel[c]
  /\ c \notin sending
  /\ IF status[c] = "completed" THEN TakesNext(c)
     ELSE Goes(c, "paused") /\ UNCHANGED <<inbox, restart, status>>
  /\ UNCHANGED <<cancel, log, consumerRest>>

BoundaryCancelled(c) ==
  /\ at[c] = "boundary" /\ cancel[c]
  /\ cancel' = [cancel EXCEPT ![c] = FALSE]
  /\ status' = [status EXCEPT ![c] = "interrupted"]
  /\ Goes(c, "paused")
  /\ UNCHANGED <<restart, inbox, log, consumerRest>>

\* Cancelled before it ran: the task is done, its callback comes later.
NeverRuns(c) ==
  /\ at[c] = "created" /\ cancel[c]
  /\ Goes(c, "dead")
  /\ UNCHANGED <<cancel, restart, status, inbox, log, consumerRest>>

\* Mutant: whoever starts the next turn is not looked for.
NoHandoff(c) ==
  /\ at[c] \in {"drained", "paused"} /\ ~cancel[c]
  /\ Goes(c, "none")
  /\ UNCHANGED <<cancel, restart, status, inbox>>
  /\ Saved(c)
  /\ UNCHANGED consumerRest

\* _run's finally: what was accepted during the save is handed to a new task.
Finishes(c) ==
  /\ at[c] \in {"drained", "paused"} /\ ~cancel[c]
  /\ UNCHANGED inbox
  /\ IF (at[c] = "drained" \/ restart[c]) /\ inbox[c] > 0 /\ ~closed
     THEN Created(c, at)
     ELSE Goes(c, "none") /\ UNCHANGED <<cancel, restart, status>>
  /\ log' = [log EXCEPT ![c] = [inbox |-> inbox[c], status |-> status[c]]]
  /\ UNCHANGED consumerRest

FinishFails(c) ==
  /\ "save" \in Faults
  /\ at[c] \in {"drained", "paused"} /\ ~cancel[c]
  /\ Goes(c, "none")
  /\ restart' = [restart EXCEPT ![c] = FALSE]
  /\ status' = [status EXCEPT ![c] = "failed"]
  /\ UNCHANGED <<cancel, inbox, log, consumerRest>>

\* Cancelled in the final save: the rest of the finally is skipped.
FinishCancelled(c) ==
  /\ at[c] \in {"drained", "paused"} /\ cancel[c]
  /\ Goes(c, "dead")
  /\ UNCHANGED <<cancel, restart, status, inbox>>
  /\ Saved(c)
  /\ UNCHANGED consumerRest

\* _cancelled_before_start.
Buried(c) ==
  /\ at[c] = "dead"
  /\ Goes(c, "none")
  /\ cancel' = [cancel EXCEPT ![c] = FALSE]
  /\ status' = [status EXCEPT ![c] = "interrupted"]
  /\ UNCHANGED <<restart, inbox, log, consumerRest>>

-----------------------------------------------------------------------------
(* The user, the main agent's own saves, and the process.                  *)

\* Typing into a child: queued for a turn that runs, sent to the group else.
UserSubmits(c) ==
  /\ HasFrontend(c) /\ c \notin retiring \cup sending /\ ~closing
  /\ inputs < MaxInputs
  /\ inputs' = inputs + 1
  /\ IF FrontendTurn(c)
     THEN /\ inbox' = [inbox EXCEPT ![c] = @ + 1]
          /\ UNCHANGED <<sending, status>>
          /\ Saved(c)
     ELSE /\ sending' = sending \cup {c}
          /\ UNCHANGED <<inbox, status, log>>
  /\ UNCHANGED <<entryVars, at, cancel, restart, lock, gateVars, manifest, rootLog, startVars,
                 limit, crashes>>

RootSaves ==
  /\ rootLog # manifest
  /\ rootLog' = manifest
  /\ UNCHANGED <<entryVars, inbox, taskVars, sending, lock, gateVars, manifest, log, startVars, countVars>>

\* Death, and a resume with restore: the manifest's children come back without
\* being woken; an unreadable log is skipped.
Restart ==
  /\ "crash" \in Faults
  /\ crashes < MaxCrashes
  /\ crashes' = crashes + 1
  /\ attached' = {c \in Children : rootLog[c] = "live" /\ log[c] # None}
  /\ inbox' = [c \in Children |-> IF c \in attached' THEN log[c].inbox ELSE 0]
  /\ status' = [c \in Children |->
                  IF c \notin attached' THEN "idle"
                  ELSE IF log[c].status = "running" THEN "interrupted" ELSE log[c].status]
  /\ at' = [c \in Children |-> "none"]
  /\ cancel' = [c \in Children |-> FALSE]
  /\ restart' = [c \in Children |-> FALSE]
  /\ sending' = {} /\ lock' = None /\ retiring' = {} /\ closing' = FALSE /\ closed' = FALSE
  /\ manifest' = rootLog
  /\ byUser' = {} /\ stopped' = {} /\ parked' = attached'
  /\ UNCHANGED <<limit, parent, diskVars, inputs>>

-----------------------------------------------------------------------------

Consumer(c) ==
  \/ Runs(c) \/ Opens(c) \/ TakesFollowUps(c) \/ Calls(c) \/ CallReturns(c)
  \/ TurnEnds(c) \/ TurnInterrupted(c) \/ Settles(c) \/ SettleFails(c)
  \/ PassesBoundary(c) \/ BoundaryCancelled(c)
  \/ NeverRuns(c) \/ Finishes(c) \/ FinishFails(c) \/ FinishCancelled(c) \/ Buried(c)

GroupStep(c) ==
  \/ SpawnAttached(c) \/ SpawnChildSaved(c) \/ SpawnRootSaved(c) \/ SendSaved(c) \/ ArchiveDisposed(c)

Next ==
  \/ \E c \in Children :
       \/ Consumer(c) \/ GroupStep(c) \/ Stop(c) \/ UserSubmits(c) \/ Archive(c)
       \/ \E p \in Children \cup {Root} : Spawn(p, c)
       \/ \E p \in Children \cup {Root, None}, start \in BOOLEAN : Send(p, c, start)
  \/ SpawnDetached \/ Abandoned
  \/ ArchiveRefused \/ ArchiveAdmitted \/ ArchiveJoined \/ ArchiveSaved \/ ArchiveUnsaved \/ ArchiveAbandoned
  \/ Shutdown \/ Close \/ CloseJoined
  \/ RootSaves \/ Restart

Spec == Init /\ [][Next]_vars

\* What a cancelled or settling task has left to do it does, and a save ends; a
\* turn that nobody cancels may wait for the user's approval for ever.
Winding(c) ==
  \/ TurnInterrupted(c) \/ Settles(c) \/ PassesBoundary(c) \/ BoundaryCancelled(c)
  \/ NeverRuns(c) \/ Finishes(c) \/ FinishCancelled(c) \/ Buried(c)

\* asyncio.Lock serves the waiters of the admission lock in their order, hence
\* the strong fairness of those who wait for it.
Fairness ==
  /\ \A c \in Children : WF_vars(Winding(c)) /\ WF_vars(GroupStep(c))
  /\ WF_vars((SpawnDetached \/ Abandoned) /\ UNCHANGED sending /\ lock.by \in Children)
  /\ \A c \in Children : SF_vars(Send(None, c, TRUE))
  /\ SF_vars(Close)
  /\ WF_vars(ArchiveJoined) /\ WF_vars(ArchiveSaved) /\ WF_vars(CloseJoined)
FairSpec == Spec /\ Fairness

-----------------------------------------------------------------------------
(* Properties.                                                             *)

Manifests == [Children -> {"absent", "live", "archived"}]
Operations == [op : {"spawn", "send", "archive", "close"}, by : Children \cup {Root, None},
               of : SUBSET Children, stage : {"begun", "child", "root", "dispose"},
               start : BOOLEAN, held : BOOLEAN, previous : Manifests]
Logs == [inbox : 0..MaxInputs, status : Statuses]

ASSUME NoneIsNothing == None \notin Operations \cup Logs

TypeOK ==
  /\ limit \in Limits
  /\ attached \subseteq Children
  /\ parent \in [Children -> Children \cup {Root, None}]
  /\ inbox \in [Children -> 0..MaxInputs]
  /\ at \in [Children -> Locations]
  /\ cancel \in [Children -> BOOLEAN] /\ restart \in [Children -> BOOLEAN]
  /\ status \in [Children -> Statuses]
  /\ sending \subseteq Children /\ retiring \subseteq Children
  /\ lock \in Operations \cup {None}
  /\ closing \in BOOLEAN /\ closed \in BOOLEAN
  /\ manifest \in Manifests /\ rootLog \in Manifests
  /\ log \in [Children -> Logs \cup {None}]
  /\ byUser \subseteq Children /\ stopped \subseteq Children /\ parked \subseteq Children
  /\ inputs \in 0..MaxInputs /\ crashes \in 0..MaxCrashes

\* settings.max_subagents: of the children at work, those a model has started
\* are never more than the limit, although consumers hand on to new tasks,
\* fail while a send to them is saved, and are started by the user at any time.
ModelStartsWithinLimit == Cardinality(Consumers \ byUser) <= limit

\* subagents.py:283: whatever is saved in which order, a resume never points at
\* a missing log.
ManifestNamesLogs == \A c \in Children : rootLog[c] # "absent" => log[c] # None

\* No input waits in an inbox nobody will come to: a consumer at rest leaves
\* one only after a failure or a stop, when nobody asked for a start, or while
\* the spawn or send that brings it is being saved.
NothingIsStranded ==
  \A c \in attached : inbox[c] > 0 /\ at[c] = "none" =>
    \/ status[c] \in Ended \/ c \in parked \/ closed
    \/ lock # None /\ lock.op \in {"spawn", "send"} /\ c \in lock.of

\* close: once it has returned no consumer runs, so the lease can be released.
ClosedIsQuiet == closed /\ lock = None => Consumers = {}

\* Children, slots, logs and inboxes are accounted for together, at every await of the group's
\* operations (agent/subagents.py).
GroupIsAccounted ==
  /\ TypeOK
  /\ ModelStartsWithinLimit
  /\ ManifestNamesLogs
  /\ NothingIsStranded
  /\ ClosedIsQuiet

\* A stopped child takes nothing from its inbox until somebody starts it anew,
\* however the stop meets the end of the turn and its saves.
StopHolds ==
  [][\A c \in stopped : at'[c] # "opening" \/ at[c] = "opening"]_vars

\* branch: "no active child loses its parent".  Children spawn while an archive
\* of their ancestors is on its way, and a live child keeps its parent for as
\* long as the process lives: no archive and no roll-back takes it alone.
ParentsStay ==
  [][crashes' = crashes =>
       \A c \in attached' :
         manifest'[c] = "live" /\ parent[c] \in attached => parent[c] \in attached']_vars

\* What stop and archive promise survives everything else the family does meanwhile:
\* a stopped child stays stopped, a live child keeps its parent (agent/subagents.py).
WordIsKept == StopHolds /\ ParentsStay

\* No operation keeps the admission lock for ever: archive and close join tasks
\* whose turns may themselves wait for the lock or for a frontend that does.
LockIsReleased == lock # None ~> lock = None

\* Once it has begun, a shutdown ends with every consumer joined.
ShutdownCompletes == closing ~> ~closing \/ (closed /\ lock = None /\ Consumers = {})
=============================================================================
