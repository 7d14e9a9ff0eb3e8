---------------------------- MODULE AgentsFrontend ----------------------------
(***************************************************************************)
(* The agents on the screen (ui/cli/agents.py): each live agent has a view *)
(* with its own input consumer, an archived one gets a read-only view when *)
(* it is first opened, and one view at a time draws the terminal.  Pickers *)
(* read a snapshot before an archive, archives retire views under pickers, *)
(* and a snapshot is read on a worker while the user goes on.              *)
(*                                                                         *)
(* The group's side of an archive is modelled in Subagents; here it saves  *)
(* the manifest, or fails, and then retires one child after the other.     *)
(***************************************************************************)
EXTENDS Naturals, FiniteSets

CONSTANTS Children,   \* the agents besides main
          ParentOf,   \* the agent a child was created by, itself or Main
          Past,       \* the children a resumed session already had archived
          MaxLoads,   \* bound on the snapshots opened for reading
          MaxPicks,    \* bound on the pickers opened
          LoadsAlone  \* whether no snapshot is read while another is

VARIABLES
    live,      \* the children the group drives
    archived,  \* the children its saved manifest calls archived
    runtimes,  \* the view registered for each agent, or Nobody
    read_only, \* the agents whose registered view is read-only
    current,   \* the view selected
    switching, \* another view was selected since the application started
    app,       \* the view whose application has the terminal, or Nobody
    consuming, \* the views with an input consumer
    held,      \* the read-only views whose decoded session was not closed
    disposed,  \* the views that were disposed of
    pickers,   \* tasks of open /agents pickers: host, step, what they saw, whom they read
    archive,   \* the archive under way: step, target, branch, what was drained, what is left
    closer,    \* the close_runtime under way: view and step, or Idle
    closing,   \* the frontend's own close
    left,      \* the agents it has still to close
    loads, asks

vars == <<live, archived, runtimes, read_only, current, switching, app, consuming, held, disposed,
          pickers, archive, closer, closing, left, loads, asks>>

Main == "main"
Agents == Children \cup {Main}
LiveView(c) == [uid |-> c, kind |-> "live", n |-> 0]
ReadView(c, n) == [uid |-> c, kind |-> "archived", n |-> n]
Nobody == [uid |-> "", kind |-> "none", n |-> 0]
Root == LiveView(Main)
Idle == [view |-> Nobody, step |-> "idle"]
NoArchive == [step |-> "idle", of |-> "", branch |-> {}, drained |-> {}, left |-> {}]

screen == <<runtimes, read_only, current, switching, app, consuming, held, disposed>>
closes == <<closer, closing, left>>

\* branch: a child goes with everything it created.
Within(c, b) == c = b \/ ParentOf[c] = b \/ (ParentOf[c] # Main /\ ParentOf[ParentOf[c]] = b)
Branch(b) == {c \in live : Within(c, b)}

Reading == {p \in pickers : p.step = "read"}
MayLoad == loads < MaxLoads /\ (LoadsAlone => Reading = {} /\ closer.step # "read")

-----------------------------------------------------------------------------
(* Which view is on the screen.                                            *)

\* switch_to: the application that draws is asked to end, and the loop starts
\* the selected one.
SwitchTo(v) ==
    /\ current' = v /\ switching' = TRUE
    /\ app' = IF app = current THEN Nobody ELSE app
Stay == UNCHANGED <<current, switching, app>>

\* run_application: the next application, once the last one has ended.
Iterate ==
    /\ app = Nobody /\ switching
    /\ app' = current /\ switching' = FALSE
    /\ UNCHANGED <<live, archived, runtimes, read_only, current, consuming, held, disposed, pickers, archive, closes, loads, asks>>

\* attach: a child was created, under the group's admission lock.
Attach(c) ==
    /\ c \notin live \cup archived /\ (ParentOf[c] = Main \/ ParentOf[c] \in live)
    /\ closing \in {"no", "drained"} /\ archive.step # "retire"
    /\ live' = live \cup {c}
    /\ runtimes' = [runtimes EXCEPT ![c] = LiveView(c)]
    /\ consuming' = consuming \cup {LiveView(c)}
    /\ UNCHANGED <<archived, read_only, current, switching, app, held, disposed, pickers, archive, closes, loads, asks>>

-----------------------------------------------------------------------------
(* The picker.                                                             *)

\* /agents, or Enter in a read-only view, which starts a picker of its own each
\* time; a live agent handles one command after the other.
Open ==
    /\ closing = "no" /\ app = current /\ asks < MaxPicks
    /\ \A p \in pickers : p.host = current => current.kind = "archived" /\ p.step = "read"
    /\ pickers' = pickers \cup {[host |-> current, step |-> "choose", seen |-> archived, uid |-> ""]}
    /\ asks' = asks + 1
    /\ UNCHANGED <<live, archived, screen, archive, closes, loads>>

Shown(p) == p.host = current /\ app = current /\ p.step \in {"choose", "confirm"}
\* What the picker's snapshot calls an agent, at the time a row is chosen.
ChooseView(p, u) ==
    /\ Shown(p) /\ p.step = "choose" /\ u # current.uid
    /\ IF runtimes[u] # Nobody
       THEN SwitchTo(runtimes[u]) /\ pickers' = pickers \ {p} /\ UNCHANGED loads
       ELSE IF u \in p.seen
            THEN MayLoad /\ pickers' = (pickers \ {p}) \cup {[p EXCEPT !.step = "read", !.uid = u]} /\ Stay /\ loads' = loads + 1
            ELSE pickers' = pickers \ {p} /\ Stay /\ UNCHANGED loads
    /\ UNCHANGED <<live, archived, runtimes, read_only, consuming, held, disposed, archive, closes, asks>>

\* "d", and the question it asks.
AskArchive(p, u) ==
    /\ Shown(p) /\ p.step = "choose" /\ u \in live
    /\ pickers' = (pickers \ {p}) \cup {[p EXCEPT !.step = "confirm", !.uid = u]}
    /\ UNCHANGED <<live, archived, screen, archive, closes, loads, asks>>

Admit(c) == [step |-> "drain", of |-> c, branch |-> Branch(c), drained |-> {}, left |-> Branch(c)]

\* archive_after_command: the picker's command has ended, the root's task goes on.
Archive(p) ==
    /\ Shown(p) /\ p.step = "confirm" /\ archive.step = "idle" /\ closing \in {"no", "drained"}
    /\ pickers' = pickers \ {p}
    /\ archive' = IF p.uid \in live
                  THEN Admit(p.uid) ELSE NoArchive
    /\ UNCHANGED <<live, archived, screen, closes, loads, asks>>

Leave(p) ==
    /\ Shown(p) /\ pickers' = pickers \ {p}
    /\ UNCHANGED <<live, archived, screen, archive, closes, loads, asks>>

\* open_archived, when the worker is done: what is registered under the agent
\* is not looked at again.
Register(u, v) ==
    /\ runtimes' = [runtimes EXCEPT ![u] = v]
    /\ read_only' = read_only \cup {u}
    /\ held' = held \cup {v}

Loaded(p) ==
    /\ p.step = "read"
    /\ pickers' = pickers \ {p}
    /\ LET v == ReadView(p.uid, loads) IN Register(p.uid, v) /\ SwitchTo(v)
    /\ UNCHANGED <<live, archived, consuming, disposed, archive, closes, loads, asks>>

Unreadable(p) ==
    /\ p.step = "read"
    /\ pickers' = pickers \ {p}
    /\ UNCHANGED <<live, archived, screen, archive, closes, loads, asks>>

-----------------------------------------------------------------------------
(* An archive.                                                             *)

\* The picker's or the model's archive stops the input of the branch first.
ModelArchives(c) ==
    /\ c \in live /\ archive.step = "idle" /\ closing = "no" /\ asks < MaxPicks
    /\ archive' = Admit(c)
    /\ asks' = asks + 1
    /\ UNCHANGED <<live, archived, screen, pickers, closes, loads>>

\* archive_admission: one view after the other.
Drain(c) ==
    /\ archive.step = "drain" /\ c \in archive.left /\ runtimes[c] # Nobody
    /\ consuming' = consuming \ {runtimes[c]}
    /\ archive' = [archive EXCEPT !.drained = @ \cup {runtimes[c]}, !.left = @ \ {c},
                                  !.step = IF archive.left = {c} THEN "admit" ELSE "drain"]
    /\ UNCHANGED <<live, archived, runtimes, read_only, current, switching, app, held, disposed, pickers, closes, loads, asks>>

\* The group has the manifest saved and owns the admission lock from here on.
Retire ==
    /\ archive.step = "admit" /\ closing \in {"no", "drained"} /\ Branch(archive.of) = archive.branch
    /\ archived' = archived \cup archive.branch
    /\ archive' = [archive EXCEPT !.step = "retire", !.left = archive.branch]
    /\ UNCHANGED <<live, screen, pickers, closes, loads, asks>>

\* Mutant: a failed archive leaves the branch without input.
Reopened_mut(drained) == {}
\* The views that take input again when the admission ends.
Reopened(drained) == {v \in drained : runtimes[v.uid] # Nobody}

\* The branch changed while its input was drained, the group was closed, a save failed.
ArchiveFails ==
    /\ archive.step \in {"drain", "admit"}
    /\ consuming' = consuming \cup Reopened(archive.drained)
    /\ archive' = NoArchive
    /\ UNCHANGED <<live, archived, runtimes, read_only, current, switching, app, held, disposed, pickers, closes, loads, asks>>

ArchiveEnds ==
    /\ archive.step = "retire" /\ archive.left = {} /\ closer = Idle
    /\ consuming' = consuming \cup Reopened(archive.drained)
    /\ archive' = NoArchive
    /\ UNCHANGED <<live, archived, runtimes, read_only, current, switching, app, held, disposed, pickers, closes, loads, asks>>

-----------------------------------------------------------------------------
(* close_runtime, for an archive and for the frontend's close.             *)

ToClose == IF archive.step = "retire" THEN archive.left ELSE IF closing = "closing" THEN left ELSE {}

\* Mutant: only the view of the agent that was named is looked for on the screen.
OnScreen_mut(v) == current = v /\ v.uid = archive.of
\* Asked at disposal: the selection may have changed since the archive was asked for.
OnScreen(v) == current = v

\* The view is forgotten; when it is on the screen another has to be found.
Forget(u) ==
    /\ closer = Idle /\ u \in ToClose /\ runtimes[u] # Nobody
    /\ LET v == runtimes[u]
           reads == OnScreen(v) /\ u \notin read_only /\ u \in archived
       IN  /\ runtimes' = [runtimes EXCEPT ![u] = Nobody]
           /\ read_only' = read_only \ {u}
           /\ closer' = [view |-> v, step |-> IF reads THEN "read" ELSE "settle"]
           /\ IF reads THEN MayLoad /\ loads' = loads + 1 /\ Stay
              ELSE /\ UNCHANGED loads
                   /\ IF OnScreen(v) THEN SwitchTo(Root) ELSE Stay
    /\ UNCHANGED <<live, archived, consuming, held, disposed, pickers, archive, closing, left, asks>>

\* replacement_view: the agent's own history, or main when it cannot be read.
Replace ==
    /\ closer.step = "read"
    /\ \/ LET v == ReadView(closer.view.uid, loads) IN Register(v.uid, v) /\ SwitchTo(v)
       \/ SwitchTo(Root) /\ UNCHANGED <<runtimes, read_only, held>>
    /\ closer' = [closer EXCEPT !.step = "settle"]
    /\ UNCHANGED <<live, archived, consuming, disposed, pickers, archive, closing, left, loads, asks>>

\* Mutant: whether a view is read-only is asked when it is disposed of.
Owned_mut(v) == v.uid \in read_only
\* An archived view owns the session it decoded; what it was when it was registered counts.
Owned(v) == v.kind = "archived"

\* Consumer, tasks and writer of the view end.
Dispose ==
    /\ closer.step = "settle"
    /\ LET v == closer.view
       IN  /\ consuming' = consuming \ {v}
           /\ disposed' = disposed \cup {v}
           /\ held' = IF Owned(v) THEN held \ {v} ELSE held
           /\ pickers' = {p \in pickers : p.host # v}
           /\ live' = IF archive.step = "retire" THEN live \ {v.uid} ELSE live
           /\ archive' = [archive EXCEPT !.left = @ \ {v.uid}]
           /\ left' = left \ {v.uid}
    /\ closer' = Idle
    /\ UNCHANGED <<archived, runtimes, read_only, current, switching, app, closing, loads, asks>>

-----------------------------------------------------------------------------
(* The end of the application.                                             *)

\* Commands of the main agent do not outlive the shutdown's request, and input
\* of the children is drained.
Exit ==
    /\ closing = "no" /\ closing' = "drained"
    /\ consuming' = {}
    /\ pickers' = {p \in pickers : p.host # Root}
    /\ UNCHANGED <<live, archived, runtimes, read_only, current, switching, app, held, disposed, archive, closer, left, loads, asks>>

\* The group is closed once nobody has its admission lock; the views to close
\* are listed then.
CloseGroup ==
    /\ closing = "drained" /\ archive.step # "retire"
    /\ closing' = "closing"
    /\ left' = {u \in Children : runtimes[u] # Nobody}
    /\ UNCHANGED <<live, archived, screen, pickers, archive, closer, loads, asks>>

-----------------------------------------------------------------------------
Init ==
    /\ live = {} /\ archived = Past
    /\ runtimes = [u \in Agents |-> IF u = Main THEN Root ELSE Nobody]
    /\ read_only = {} /\ current = Root /\ switching = FALSE /\ app = Root
    /\ consuming = {Root} /\ held = {} /\ disposed = {} /\ pickers = {}
    /\ archive = NoArchive /\ closer = Idle /\ closing = "no" /\ left = {}
    /\ loads = 0 /\ asks = 0

Next ==
    \/ Iterate \/ Open \/ Retire \/ ArchiveFails \/ ArchiveEnds \/ Replace \/ Dispose \/ Exit \/ CloseGroup
    \/ \E c \in Children : Attach(c) \/ ModelArchives(c) \/ Drain(c) \/ Forget(c)
    \/ \E p \in pickers : \/ Archive(p) \/ Leave(p) \/ Loaded(p) \/ Unreadable(p)
                          \/ \E u \in Agents : ChooseView(p, u) \/ AskArchive(p, u)

Spec == Init /\ [][Next]_vars

-----------------------------------------------------------------------------
\* The view on the screen is one that is registered under its agent, however
\* pickers, archives and reads overlap; only the close that is looking for its
\* replacement may still show it (agents.py:475-478).
TheScreenIsAView ==
    /\ runtimes[current.uid] = current \/ (closer.step = "read" /\ closer.view = current)
    /\ app \in {Nobody, current}

\* A read-only view holds its decoded session as long as it is registered, and
\* only such views count as read-only: what the frontend closes for a live child
\* the group would close again (agents.py:472-474, 491-494).
ViewsOwnWhatTheyRead ==
    /\ \A u \in Agents : u \in read_only <=> runtimes[u].kind = "archived"
    /\ \A v \in held : runtimes[v.uid] = v \/ closer.view = v
    /\ \A u \in read_only : runtimes[u] \in held

\* An archive that failed leaves every live agent with its input
\* (agents.py:450-454).
FailedArchivesReopen ==
    (archive.step = "idle" /\ closing = "no") => \A c \in live : runtimes[c] = LiveView(c) /\ LiveView(c) \in consuming

\* A view that was disposed of takes no input again (agents.py:450).
\* Not kept: after an archive fails, the drained view of an agent is looked up again,
\* and may be one disposed of meanwhile (agents.py:452).
DisposedStaysClosed == consuming \cap disposed = {}
=============================================================================
