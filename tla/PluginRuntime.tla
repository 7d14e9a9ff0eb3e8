---------------------------- MODULE PluginRuntime ----------------------------
(***************************************************************************)
(* The plugin host of one agent: generations of plugin workers, the        *)
(* registry that replaces them atomically, operations that pin them, and   *)
(* the interceptor chains that run through them (plugins/runtime.py,       *)
(* plugins/interception.py, plugins/session.py, plugins/process.py).       *)
(*                                                                         *)
(* A generation is a number out of Gens; a number is used again once its   *)
(* worker is closed and nothing names it.  What a plugin registers is      *)
(* abstracted to one bit: a resident plugin intercepts operations and      *)
(* draws components, any other has actions only and is parked when idle.   *)
(***************************************************************************)
EXTENDS Naturals, Sequences, FiniteSets, SequencesExt, Functions

CONSTANTS Names,     \* plugin names
          Order,     \* the user's interception order: the names as a sequence
          Gens,      \* generation numbers
          Chained,   \* slots for intercepted operations, one in flight in each
          Calls,     \* slots for commands and tool calls
          WithActions,  \* plugins that register commands or tools
          Kinds,     \* SUBSET [Names -> BOOLEAN]: which plugins are resident
          MaxRequests  \* [Kinds -> Nat]: bound on the management requests

Ops == Chained \cup Calls

NoGen == 0

VARIABLES
  kind,      \* [Names -> BOOLEAN]: whether the plugin is resident
  gens,      \* [Gens -> Names]: the plugin a generation was launched from
  worker,    \* [Gens -> state of its process]
  idle,      \* generations parked between calls (Generation.idle)
  failed,    \* generations whose interceptor is blocked (Generation.failures)
  reg,       \* entries and _pending_new: active, pending, staged, disabling
  manager,   \* the management operation that holds _management_lock
  requests,  \* how many management requests there were, up to the bound
  saved,     \* [Names -> BOOLEAN]: the enabled choices in the catalog
  loaded,    \* SessionPlugins.loaded
  off,       \* history: names whose disable was accepted and not asked back
  turn,      \* turn_active
  closed,    \* _closed, and the progress of close()
  ops        \* the operations in flight

registry == <<reg, worker, idle>>
vars == <<kind, gens, worker, idle, failed, reg, manager, requests, saved, loaded, off, turn,
          closed, ops>>

Absent == [n \in Names |-> NoGen]
Rest == [op |-> "none", todo |-> {}, cand |-> Absent]
NoOp == [kind |-> "none", chain |-> <<>>, at |-> 0, next |-> <<>>, core |-> "no",
         view |-> FALSE, cut |-> FALSE, resuming |-> FALSE, out |-> "none"]

Init ==
  /\ kind \in Kinds
  /\ gens = [g \in Gens |-> CHOOSE n \in Names : TRUE]
  /\ worker = [g \in Gens |-> "closed"]
  /\ idle = {} /\ failed = {} /\ off = {}
  /\ reg = [active |-> Absent, pending |-> Absent, staged |-> Absent, disabling |-> {}]
  /\ manager = Rest /\ requests = 0
  /\ saved = [n \in Names |-> TRUE]
  /\ loaded = FALSE /\ turn = FALSE /\ closed = "no"
  /\ ops = [o \in Ops |-> NoOp]

------------------------------------------------------------------------------
(* Generations and who refers to them *)

Running(o) == ops[o].out = "running"
PinnedBy(all) == UNION {ToSet(all[o].chain) : o \in {p \in Ops : all[p].out = "running"}}
Resident(g) == kind[gens[g]]
Live(r) == Range(r.active) \ {NoGen}
Staged(r) == (Range(r.pending) \cup Range(r.staged)) \ {NoGen}

\* The numbers nothing refers to any more.
Unused == {g \in Gens : /\ worker[g] = "closed"
                        /\ g \notin Live(reg) \cup Staged(reg) \cup PinnedBy(ops)
                        /\ g \notin Range(manager.cand)}

\* A retired or parked worker runs its bounded teardown in a task of its own.
Closing(w, gs) == [g \in Gens |-> IF g \in gs /\ w[g] = "up"
                                  THEN "closing" ELSE w[g]]

------------------------------------------------------------------------------
(* The registry switch *)

\* Mutant: the switch looks at the waiting choices only.
EligibleMut(r, pinned) == {n \in Names : /\ r.active[n] # NoGen
                                         /\ n \in r.disabling \/ r.pending[n] # NoGen}

Eligible(r, pinned) == {n \in Names : /\ r.active[n] # NoGen
                                      /\ r.active[n] \notin pinned
                                      /\ n \in r.disabling \/ r.pending[n] # NoGen}

\* The registry after the switch: new plugins enter, waiting disables and
\* replacements whose generation nobody uses take effect.
Switched(r, pinned) ==
  LET go == Eligible(r, pinned) IN
  [active |-> [n \in Names |->
       IF r.staged[n] # NoGen THEN r.staged[n]
       ELSE IF n \notin go THEN r.active[n]
       ELSE IF n \in r.disabling THEN NoGen ELSE r.pending[n]],
   pending |-> [n \in Names |-> IF n \in go THEN NoGen ELSE r.pending[n]],
   staged |-> Absent,
   disabling |-> r.disabling \ go]

(* PluginRuntime._publish, called with the registry r, the workers w, the   *)
(* parked generations and the ones that are being retired besides.          *)
Publish(r, w, asleep, gone, pinned) ==
  LET s == Switched(r, pinned)
      out == Live(r) \ Live(s)
      parked == {g \in Live(s) \ Live(r) : ~Resident(g)}
  IN IF turn \/ closed # "no" \/ s = r
     THEN /\ reg' = r
          /\ worker' = Closing(w, gone)
          /\ idle' = asleep
     ELSE /\ reg' = s
          /\ worker' = Closing(w, gone \cup out \cup parked)
          /\ idle' = (asleep \cup parked) \ out

\* Interactions.dismiss: the windows plugin n shows are closed.
Dismissed(n) == [o \in Ops |-> IF Running(o) /\ gens[ops[o].chain[1]] = n
                               THEN [ops[o] EXCEPT !.view = FALSE] ELSE ops[o]]

(* _replace, or _enable for a plugin that is not live yet: the candidate g  *)
(* takes the place of an earlier one and waits for the switch.              *)
Stage(n, g, w) ==
  LET live == reg.active[n] # NoGen
      earlier == IF live THEN reg.pending[n] ELSE reg.staged[n]
      r == IF live THEN [reg EXCEPT !.pending[n] = g, !.disabling = @ \ {n}]
                   ELSE [reg EXCEPT !.staged[n] = g]
  IN /\ Publish(r, w, idle, {earlier} \ {NoGen}, PinnedBy(ops))
     /\ ops' = IF live THEN Dismissed(n) ELSE ops

(* manage("disable"): the waiting replacement is retired, windows close,    *)
(* operations that run through the plugin's interceptor are cancelled.      *)
Retire(n) ==
  IF reg.active[n] = NoGen
  THEN /\ reg' = [reg EXCEPT !.staged[n] = NoGen]
       /\ worker' = Closing(worker, {reg.staged[n]})
       /\ UNCHANGED <<idle, ops>>
  ELSE LET intercepted(o) == /\ Running(o) /\ ops[o].kind = "intercept"
                             /\ reg.active[n] \in ToSet(ops[o].chain)
           cut == [o \in Ops |-> [Dismissed(n)[o] EXCEPT !.cut = @ \/ intercepted(o)]]
       IN /\ ops' = cut
          /\ Publish([reg EXCEPT !.pending[n] = NoGen, !.disabling = @ \cup {n}],
                     worker, idle, {reg.pending[n]} \ {NoGen}, PinnedBy(cut))

------------------------------------------------------------------------------
(* Management: one operation at a time holds _management_lock; the launch   *)
(* made by enable, reload or hot_reload holds the registry lock as well.    *)

\* Mutant: startup does not hold the management lock.
ManagingMut == manager.op \notin {"none", "load"}

Managing == manager.op # "none"
RegistryLocked == manager.op \in {"enable", "reload", "hot"} /\ manager.cand # Absent
Managed == /\ ~Managing /\ loaded /\ closed = "no"
           /\ requests < MaxRequests[kind] /\ requests' = requests + 1

\* launch: the worker starts, loads the plugin and answers its first sample.
Launch(n, m) ==
  /\ \E g \in Unused :
     /\ gens' = [gens EXCEPT ![g] = n]
     /\ worker' = [worker EXCEPT ![g] = "launching"]
     /\ idle' = idle \ {g} /\ failed' = failed \ {g}
     /\ manager' = [m EXCEPT !.cand[n] = g]

Enable(n) ==
  /\ Managed
  /\ Launch(n, [Rest EXCEPT !.op = "enable"])
  /\ off' = off \ {n}
  /\ UNCHANGED <<kind, reg, saved, loaded, turn, closed, ops>>

Reload(n) ==
  /\ Managed /\ reg.active[n] # NoGen
  /\ Launch(n, [Rest EXCEPT !.op = "reload"])
  /\ off' = off \ {n}
  /\ UNCHANGED <<kind, reg, saved, loaded, turn, closed, ops>>

(* SessionPlugins._manage("disable"): the choice is saved even when nothing *)
(* of the plugin is live.                                                   *)
Disable(n) ==
  /\ Managed
  /\ saved' = [saved EXCEPT ![n] = FALSE]
  /\ off' = off \cup {n}
  /\ IF reg.active[n] = NoGen /\ reg.staged[n] = NoGen
     THEN UNCHANGED <<registry, ops>> ELSE Retire(n)
  /\ UNCHANGED <<kind, gens, failed, manager, loaded, turn, closed>>

(* hot_reload reconciles the live generations with the saved choices, one   *)
(* name after the other; between two names only the management lock is held.*)
HotReload ==
  /\ ~Managing /\ closed = "no" /\ requests < MaxRequests[kind]
  /\ requests' = requests + 1
  /\ manager' = [Rest EXCEPT !.op = "hot", !.todo = Names]
  /\ loaded' = TRUE
  /\ UNCHANGED <<kind, gens, failed, registry, saved, off, turn, closed, ops>>

HotNext(n) ==
  /\ manager.op = "hot" /\ manager.cand = Absent /\ n \in manager.todo
  /\ LET rest == [manager EXCEPT !.todo = @ \ {n}] IN
     IF closed # "no"
     THEN /\ manager' = rest
          /\ UNCHANGED <<gens, failed, registry, off, ops>>
     ELSE IF saved[n]
     THEN /\ Launch(n, rest)
          /\ off' = off \ {n}
          /\ UNCHANGED <<reg, ops>>
     ELSE /\ manager' = rest
          /\ IF reg.active[n] = NoGen /\ reg.staged[n] = NoGen
             THEN UNCHANGED <<registry, ops>> ELSE Retire(n)
          /\ UNCHANGED <<gens, failed, off>>
  /\ UNCHANGED <<kind, requests, saved, loaded, turn, closed>>

HotDone ==
  /\ manager.op = "hot" /\ manager.cand = Absent /\ manager.todo = {}
  /\ manager' = Rest
  /\ UNCHANGED <<kind, gens, failed, registry, requests, saved, loaded, off, turn, closed, ops>>

AfterCandidate == IF manager.op = "hot" THEN [manager EXCEPT !.cand = Absent] ELSE Rest

(* The candidate is ready: admit, commit the choice and stage it, without   *)
(* an await.  Only an explicit enable saves its choice.                     *)
CandidateReady(n) ==
  /\ RegistryLocked /\ manager.cand[n] # NoGen
  /\ Stage(n, manager.cand[n], [worker EXCEPT ![manager.cand[n]] = "up"])
  /\ saved' = [saved EXCEPT ![n] = @ \/ manager.op = "enable"]
  /\ manager' = AfterCandidate
  /\ UNCHANGED <<kind, gens, failed, requests, loaded, off, turn, closed>>

(* The launch, the admission or the commit fails: only the candidate is     *)
(* discarded.                                                               *)
CandidateFails(n) ==
  /\ RegistryLocked /\ manager.cand[n] # NoGen
  /\ worker' = [worker EXCEPT ![manager.cand[n]] = "closed"]
  /\ manager' = AfterCandidate
  /\ UNCHANGED <<kind, gens, failed, reg, idle, requests, saved, loaded, off, turn, closed, ops>>

(* SessionPlugins._load, when the session starts (its caller has checked    *)
(* that the session is still owned, so nothing has closed the runtime):     *)
(* every enabled plugin is launched at once, outside the registry lock.     *)
Load ==
  /\ ~Managing /\ ~loaded /\ closed = "no"
  /\ loaded' = TRUE
  /\ LET on == {n \in Names : saved[n]} IN
     \E f \in {h \in [on -> Gens] : IsInjective(h)} :
       /\ gens' = [g \in Gens |-> IF g \in Range(f) THEN Inverse(f, on, Range(f))[g] ELSE gens[g]]
       /\ worker' = [g \in Gens |-> IF g \in Range(f) THEN "launching" ELSE worker[g]]
       /\ manager' = IF on = {} THEN Rest
                     ELSE [op |-> "load", todo |-> {},
                           cand |-> [n \in Names |-> IF n \in on THEN f[n] ELSE NoGen]]
  /\ UNCHANGED <<kind, failed, reg, idle, requests, saved, off, turn, closed, ops>>

LoadLaunched(n) ==
  /\ manager.op = "load" /\ manager.cand[n] # NoGen
  /\ worker[manager.cand[n]] = "launching"
  /\ \E end \in {"up", "closed"} : worker' = [worker EXCEPT ![manager.cand[n]] = end]
  /\ UNCHANGED <<kind, gens, failed, manager, requests, reg, idle, saved, loaded, off, turn, closed, ops>>

(* enable_many, once every launch has ended: the candidates are admitted in *)
(* order under the registry lock; a refused one is closed.                  *)
AdmitLaunched ==
  /\ manager.op = "load"
  /\ \A n \in Names : manager.cand[n] # NoGen => worker[manager.cand[n]] # "launching"
  /\ LET up == {n \in Names : manager.cand[n] # NoGen /\ worker[manager.cand[n]] = "up"}
     IN \E admitted \in IF closed = "no" THEN SUBSET up ELSE {{}} :
          LET staged == [n \in Names |-> IF n \in admitted THEN manager.cand[n] ELSE NoGen]
          IN Publish([reg EXCEPT !.staged = staged], worker, idle,
                     {manager.cand[n] : n \in up \ admitted}, PinnedBy(ops))
  /\ manager' = Rest
  /\ UNCHANGED <<kind, gens, failed, requests, saved, loaded, off, turn, closed, ops>>

------------------------------------------------------------------------------
(* Operations: a command or a tool ("invoke") pins one generation; an       *)
(* intercepted operation pins every link of its chain.  Frame i of an       *)
(* interceptor chain is the handler of link i; next[i] is the state of the  *)
(* continuation that handler holds.                                         *)

Deepest(o) == ops[o].at
InCore(o) == ops[o].at > Len(ops[o].chain)
Steady(o) == Running(o) /\ ~ops[o].cut

\* Interception.chain: a stopping plugin admits no new work; the first link
\* must not be blocked, or the operation fails before it starts.
Rank(n) == CHOOSE i \in DOMAIN Order : Order[i] = n

Chains ==
  LET links == {g \in Live(reg) : Resident(g) /\ gens[g] \notin reg.disabling}
  IN {c \in SeqOf(links, Len(Order)) :
        /\ c # <<>> /\ c[1] \notin failed
        /\ \A i, j \in DOMAIN c : i < j => Rank(gens[c[i]]) < Rank(gens[c[j]])}

Intercept(o) ==
  /\ ~Running(o)
  /\ \E c \in Chains :
       ops' = [ops EXCEPT ![o] = [NoOp EXCEPT !.kind = "intercept", !.chain = c, !.at = 1,
                                    !.next = [i \in DOMAIN c |-> "unused"], !.out = "running"]]
  /\ UNCHANGED <<kind, gens, failed, registry, manager, requests, saved, loaded, off, turn, closed>>

(* PluginRuntime.invoke: the pin comes before the check for a parked worker. *)
Invoke(o, n) ==
  /\ ~Running(o) /\ closed = "no"
  /\ n \in WithActions /\ reg.active[n] # NoGen /\ n \notin reg.disabling
  /\ ops' = [ops EXCEPT ![o] = [NoOp EXCEPT !.kind = "invoke", !.chain = <<reg.active[n]>>, !.at = 1,
                                  !.next = <<"unused">>, !.out = "running",
                                  !.resuming = reg.active[n] \in idle]]
  /\ UNCHANGED <<kind, gens, failed, registry, manager, requests, saved, loaded, off, turn, closed>>

(* _resume, under the generation's park lock: a call that waited for        *)
(* another's restart goes on; otherwise the parked worker's teardown is     *)
(* joined and the pinned revision is launched again.                        *)
ResumeStart(o) ==
  /\ Steady(o) /\ ops[o].resuming
  /\ LET g == ops[o].chain[1] IN
     IF g \notin idle
     THEN /\ ops' = [ops EXCEPT ![o].resuming = FALSE]
          /\ UNCHANGED worker
     ELSE /\ worker[g] \in {"closed", "none"}
          /\ worker' = [worker EXCEPT ![g] = "launching"]
          /\ UNCHANGED ops
  /\ UNCHANGED <<kind, gens, failed, reg, idle, manager, requests, saved, loaded, off, turn, closed>>

\* The operation is over; its slot keeps only that a chain succeeded.
Ended(o, out) == [ops EXCEPT ![o] = [NoOp EXCEPT !.out = IF o \in Chained /\ out = "ok" THEN "ok" ELSE "none"]]

ResumeEnds(o, ok) ==
  /\ Steady(o) /\ ops[o].resuming
  /\ LET g == ops[o].chain[1] IN
     /\ g \in idle /\ worker[g] = "launching"
     /\ \/ /\ ok /\ closed = "no"
           /\ worker' = [worker EXCEPT ![g] = "up"]
           /\ idle' = idle \ {g}
           /\ ops' = [ops EXCEPT ![o].resuming = FALSE]
           /\ UNCHANGED <<reg>>
        \/ /\ ok /\ closed # "no"      \* the new worker must not outlive the runtime
           /\ ops' = Ended(o, "error")
           /\ worker' = [worker EXCEPT ![g] = "closing"]
           /\ UNCHANGED <<reg, idle>>
        \/ /\ ~ok                      \* the closed worker stays visible as failed
           /\ ops' = Ended(o, "error")
           /\ Publish(reg, [worker EXCEPT ![g] = "closed"], idle \ {g}, {}, PinnedBy(ops'))
  /\ UNCHANGED <<kind, gens, failed, manager, requests, saved, loaded, off, turn, closed>>

(* An interceptor's handler calls next(), once.  An invalid candidate is    *)
(* the handler's fault; a valid one goes to the next link, unless that one  *)
(* is blocked or the value does not fit a frame, or to the core.            *)
HandlerNext(o, valid) ==
  /\ Steady(o) /\ ops[o].kind = "intercept" /\ ~InCore(o) /\ ~ops[o].view
  /\ LET i == Deepest(o)
         c == ops[o].chain IN
     /\ worker[c[i]] = "up" /\ ops[o].next[i] = "unused"
     /\ IF ~valid THEN ops' = [ops EXCEPT ![o].next[i] = "invalid"]
        ELSE IF i = Len(c)
        THEN ops' = [ops EXCEPT ![o].next[i] = "open", ![o].at = i + 1, ![o].core = "running"]
        ELSE \/ /\ c[i + 1] \notin failed
                /\ ops' = [ops EXCEPT ![o].next[i] = "open", ![o].at = i + 1]
             \/ ops' = [ops EXCEPT ![o].next[i] = "error"]
  /\ UNCHANGED <<kind, gens, failed, registry, manager, requests, saved, loaded, off, turn, closed>>

(* The operation itself, below the last link, ends.                         *)
CoreEnds(o, ok) ==
  /\ Steady(o) /\ InCore(o)
  /\ LET n == Len(ops[o].chain) IN
     ops' = [ops EXCEPT ![o].core = IF ok THEN "done" ELSE "failed",
                        ![o].next[n] = IF ok THEN "ok" ELSE "error", ![o].at = n]
  /\ UNCHANGED <<kind, gens, failed, registry, manager, requests, saved, loaded, off, turn, closed>>

\* Mutant: the handler's own answer is looked at first.
VerdictMut(how, next) ==
  IF next = "invalid" \/ how # "answer" \/ next = "open" THEN "block" ELSE "ok"

(* What Interception.call makes of a handler that ended "how": an invalid   *)
(* next() is the handler's fault, a downstream failure wins over its        *)
(* outcome, anything else that is not a valid result blocks the registration. *)
Verdict(how, next) ==
  IF next = "invalid" THEN "block"
  ELSE IF next = "error" THEN "error"
  ELSE IF how # "answer" \/ next = "open" THEN "block" ELSE "ok"

(* Frame i ends: what still runs below it is cancelled and joined (the      *)
(* workers in "deaf" did not answer the cancellation and are closed), and   *)
(* the verdict goes to the frame above, or ends the operation.              *)
HandlerEnds(o, i, how) ==
  /\ Steady(o) /\ ~ops[o].resuming
  /\ i \in 1..Deepest(o) /\ i <= Len(ops[o].chain)
  /\ i = Deepest(o) => ~ops[o].view \/ worker[ops[o].chain[i]] # "up"
  /\ how \in {"answer", "bad", "timeout"} <=> worker[ops[o].chain[i]] = "up"
  /\ how = "timeout" => i = Deepest(o)          \* the deadline pauses while next() runs
  /\ LET op == ops[o]
         g == op.chain[i]
         intercepts == op.kind = "intercept"
         verdict == IF intercepts THEN Verdict(how, op.next[i])
                    ELSE IF how = "answer" THEN "ok" ELSE "error"
         result == IF verdict = "ok" THEN "ok" ELSE "error"
         below == {op.chain[j] : j \in (i + 1)..(IF InCore(o) THEN Len(op.chain) ELSE op.at)}
     IN \E deaf \in SUBSET {h \in below : worker[h] = "up"} :
        LET stopped == deaf \cup (IF how = "timeout" THEN {g} ELSE {}) IN
        /\ failed' = IF verdict = "block" THEN failed \cup {g} ELSE failed
        /\ IF i = 1
           THEN /\ ops' = Ended(o, result)
                /\ Publish(reg, worker, idle, stopped, PinnedBy(ops'))
           ELSE /\ ops' = [ops EXCEPT ![o].at = i - 1, ![o].view = FALSE,
                            ![o].next = [j \in DOMAIN @ |-> IF j = i - 1 THEN result ELSE IF j >= i THEN "unused" ELSE @[j]],
                            ![o].core = IF @ = "running" THEN "cancelled" ELSE @]
                /\ worker' = Closing(worker, stopped)
                /\ UNCHANGED <<reg, idle>>
  /\ UNCHANGED <<kind, gens, manager, requests, saved, loaded, off, turn, closed>>

\* Mutant: dismissing the windows that are open is thought to be enough.
ShowViewMut(o) ==
  /\ Steady(o) /\ ~ops[o].resuming /\ ~ops[o].view
  /\ worker[ops[o].chain[1]] = "up"
  /\ ops' = [ops EXCEPT ![o].view = TRUE]
  /\ UNCHANGED <<kind, gens, failed, registry, manager, requests, saved, loaded, off, turn, closed>>

(* A handler shows a view and waits for a person, its deadline paused:      *)
(* refused while its plugin is being replaced or disabled.                  *)
ShowView(o) ==
  /\ Steady(o) /\ ~ops[o].resuming /\ ~ops[o].view
  /\ LET n == gens[ops[o].chain[1]] IN
     /\ worker[ops[o].chain[1]] = "up"
     /\ reg.active[n] # NoGen /\ n \notin reg.disabling /\ reg.pending[n] = NoGen
  /\ ops' = [ops EXCEPT ![o].view = TRUE]
  /\ UNCHANGED <<kind, gens, failed, registry, manager, requests, saved, loaded, off, turn, closed>>

CloseView(o) ==
  /\ Running(o) /\ ops[o].view
  /\ ops' = [ops EXCEPT ![o].view = FALSE]
  /\ UNCHANGED <<kind, gens, failed, registry, manager, requests, saved, loaded, off, turn, closed>>

(* PluginProcess.request cancelled, by Esc or by a disable, in every frame  *)
(* from the core outwards; a restart that was cancelled leaves the          *)
(* generation parked.                                                       *)
Unwind(o) ==
  /\ Running(o)
  /\ ops' = Ended(o, "cancelled")
  /\ LET op == ops[o]
         mine == {op.chain[j] : j \in 1..(IF InCore(o) THEN Len(op.chain) ELSE op.at)}
         shared == \E p \in Ops \ {o} : Running(p) /\ ops[p].resuming /\ ops[p].chain = op.chain
         restart == op.resuming /\ op.chain[1] \in idle /\ worker[op.chain[1]] = "launching" /\ ~shared
         w == IF restart THEN [worker EXCEPT ![op.chain[1]] = "closed"] ELSE worker
     IN \E deaf \in SUBSET {h \in mine : w[h] = "up"} :
          Publish(reg, w, idle, deaf, PinnedBy(ops'))
  /\ UNCHANGED <<kind, gens, failed, manager, requests, saved, loaded, off, turn, closed>>

------------------------------------------------------------------------------
(* Workers, turns, the refresh loop and teardown *)

WorkerDies(g) ==
  /\ worker[g] = "up"
  /\ worker' = [worker EXCEPT ![g] = "closed"]
  /\ UNCHANGED <<kind, gens, idle, failed, reg, manager, requests, saved, loaded, off, turn, closed, ops>>

\* PluginProcess.close: shutdown request, kill of the group, reaping.
WorkerClosed(g) ==
  /\ worker[g] = "closing"
  /\ worker' = [worker EXCEPT ![g] = "closed"]
  /\ UNCHANGED <<kind, gens, idle, failed, reg, manager, requests, saved, loaded, off, turn, closed, ops>>

StartTurn ==
  /\ ~turn /\ turn' = TRUE
  /\ UNCHANGED <<kind, gens, failed, registry, manager, requests, saved, loaded, off, closed, ops>>

\* finish_turn: the registry opens again and what waited is published.
FinishTurn ==
  /\ turn /\ turn' = FALSE
  /\ LET s == Switched(reg, PinnedBy(ops))
         out == Live(reg) \ Live(s)
         parked == {g \in Live(s) \ Live(reg) : ~Resident(g)}
     IN IF closed # "no" \/ s = reg THEN UNCHANGED registry
        ELSE /\ reg' = s
             /\ worker' = Closing(worker, out \cup parked)
             /\ idle' = (idle \cup parked) \ out
  /\ UNCHANGED <<kind, gens, failed, manager, requests, saved, loaded, off, closed, ops>>

(* The idle sweep of the refresh loop parks a tools-only generation that    *)
(* nobody uses.                                                             *)
Sweepable(g) == LET n == gens[g] IN
  /\ g \notin idle /\ ~Resident(g) /\ worker[g] = "up"
  /\ reg.pending[n] = NoGen /\ n \notin reg.disabling /\ g \notin PinnedBy(ops)

Sweep ==
  /\ closed = "no"
  /\ \E g \in Live(reg) : /\ Sweepable(g)
                         /\ idle' = idle \cup {g} /\ worker' = Closing(worker, {g})
  /\ UNCHANGED <<kind, gens, failed, reg, manager, requests, saved, loaded, off, turn, closed, ops>>

\* Mutant: startup launches are left to their own task.
CloseMut ==
  /\ closed = "no" /\ ~RegistryLocked
  /\ closed' = "closing"
  /\ worker' = Closing(worker, Live(reg) \cup Staged(reg))
  /\ reg' = [active |-> Absent, pending |-> Absent, staged |-> Absent, disabling |-> {}]
  /\ UNCHANGED <<kind, gens, idle, failed, manager, requests, saved, loaded, off, turn, ops>>

(* close: under the registry lock.  The refresh loop is cancelled, startup  *)
(* launches are discarded, every generation is retired.                     *)
Close ==
  /\ closed = "no" /\ ~RegistryLocked
  /\ closed' = "closing"
  /\ LET started == Range(manager.cand) \ {NoGen} IN
     worker' = [g \in Gens |-> IF g \in started /\ worker[g] = "launching" THEN "closed"
                               ELSE Closing(worker, started \cup Live(reg) \cup Staged(reg))[g]]
  /\ reg' = [active |-> Absent, pending |-> Absent, staged |-> Absent, disabling |-> {}]
  /\ UNCHANGED <<kind, gens, idle, failed, manager, requests, saved, loaded, off, turn, ops>>

Closed ==
  /\ closed = "closing" /\ \A g \in Gens : worker[g] # "closing"
  /\ closed' = "done"
  /\ UNCHANGED <<kind, gens, failed, registry, manager, requests, saved, loaded, off, turn, ops>>

------------------------------------------------------------------------------
Management ==
  \/ \E n \in Names : \/ Enable(n) \/ Reload(n) \/ Disable(n) \/ HotNext(n)
                      \/ CandidateReady(n) \/ CandidateFails(n) \/ LoadLaunched(n)
  \/ HotReload \/ HotDone \/ Load \/ AdmitLaunched

Operation(o) ==
  \/ o \in Chained /\ Intercept(o)
  \/ o \in Calls /\ \E n \in Names : Invoke(o, n)
  \/ ResumeStart(o) \/ (\E ok \in BOOLEAN : ResumeEnds(o, ok))
  \/ (\E valid \in BOOLEAN : HandlerNext(o, valid))
  \/ (\E ok \in BOOLEAN : CoreEnds(o, ok))
  \/ (\E i \in 1..Len(Order), how \in {"answer", "bad", "timeout", "dead"} : HandlerEnds(o, i, how))
  \/ (o \in Calls /\ ShowView(o)) \/ CloseView(o) \/ Unwind(o)

Next ==
  \/ Management
  \/ \E o \in Ops : Operation(o)
  \/ \E g \in Gens : WorkerDies(g) \/ WorkerClosed(g)
  \/ StartTurn \/ FinishTurn \/ Sweep \/ Close \/ Closed

Spec == Init /\ [][Next]_vars

------------------------------------------------------------------------------
(* Properties *)

\* An operation that runs keeps the generations it pinned: while the runtime
\* is open no switch retires one of them, and once its call has started no
\* sweep parks its worker (plugins/runtime.py:475, :740,
\* plugins/interception.py:140).
PinnedIsNotReplaced ==
  closed = "no" =>
    \A o \in Ops : Running(o) =>
      \A g \in ToSet(ops[o].chain) :
        /\ reg.active[gens[g]] = g
        /\ g \in idle => ops[o].resuming

\* An operation reports success only when everything below every handler
\* succeeded, and nothing of it runs once it is over: a handler can neither
\* turn an inner failure into a success nor leave its continuation behind
\* (plugins/interception.py:225, plugins/process.py:172).
OutcomesAreHonest ==
  [][\A o \in Chained : Running(o) /\ ops'[o].out = "ok" =>
       /\ ops[o].core \in {"no", "done"}
       /\ \A i \in DOMAIN ops[o].next : ops[o].next[i] \in {"unused", "ok"}]_vars

\* An accepted disable is not undone by an activation that was read or
\* launched before it: nothing of the plugin stays live or staged except a
\* generation that only waits for its operations (plugins/session.py:249).
DisableIsNotUndone ==
  \A n \in off : /\ reg.staged[n] = NoGen /\ reg.pending[n] = NoGen
                 /\ reg.active[n] # NoGen => n \in reg.disabling

\* A disable waits for nobody: while one drains, no call of the plugin is held
\* by a window a person would have to close, whose deadline is paused
\* (plugins/runtime.py:272, :655).
DisableWaitsForNoPerson ==
  \A o \in Calls : Running(o) /\ gens[ops[o].chain[1]] \in reg.disabling => ~ops[o].view

\* Once close has returned no worker is left except one that is being torn
\* down or that a call is just restarting, which the call closes itself when
\* it finds the runtime closed (plugins/runtime.py:458, :775).
ShutdownLeavesNoWorker ==
  closed = "done" => \A g \in Gens :
    \/ worker[g] \in {"closed", "closing"}
    \/ worker[g] = "launching" /\ \E o \in Calls : ops[o].resuming /\ ops[o].chain = <<g>>
==============================================================================
