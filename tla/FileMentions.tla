----------------------------- MODULE FileMentions -----------------------------
(***************************************************************************)
(* Choosing a file for a mention (mentions.py, the completion half of      *)
(* ui/tui/app.py) and the owner of the work behind it                      *)
(* (agent/lifecycle.py BackgroundServices): a scan of the workspace that   *)
(* all callers share, the external picker, and the ranking of the literal  *)
(* menu, of which the newest query counts.                                 *)
(*                                                                         *)
(* A snapshot of the workspace is the number of the scan that took it.     *)
(***************************************************************************)
EXTENDS Naturals, FiniteSets

CONSTANTS Texts,    \* what the user may type after @file:
          MaxKeys,  \* bound on the keystrokes
          MaxScans, \* bound on the scans of the workspace
          MaxOpens  \* bound on the scopes of background work

VARIABLES
    scope,     \* background work: "open", "closing" or "closed"
    scan,      \* the shared scan: step, and what its queries said
    children,  \* processes alive: git's two queries, rg, fzf
    cache,     \* the snapshot published last, 0 when none
    generation,
    typed,     \* the mention in the input
    newest,    \* _match_request
    pending,   \* _pending_match
    worker,    \* the ranking under way
    running,   \* _match_worker_running
    match,     \* _last_match
    menu,      \* the menu on the screen
    available, \* whether fzf is there and has not failed
    picker,    \* what feeds the picker that is under way
    keys, scans, opens

vars == <<scope, scan, children, cache, generation, typed, newest, pending, worker, running, match, menu,
          available, picker, keys, scans, opens>>

Quiet == [step |-> "none", failed |-> FALSE]
Nothing == [req |-> 0, query |-> ""]
NoWorker == [req |-> 0, query |-> "", step |-> "none", gen |-> 0]
NoMatch == [gen |-> 0, query |-> ""]

Git == {"included", "ignored"}
Scanning == scan.step # "none"

typing == <<typed, newest, keys>>
ranking == <<pending, worker, running, match, menu>>
picking == <<available, picker>>
counters == <<scans, opens>>

-----------------------------------------------------------------------------
(* The shared scan.                                                        *)

\* refresh_mentions: callers join the scan that runs; none starts when the scope
\* is closed.
MayStart == scope = "open" /\ ~Scanning /\ scans < MaxScans
Refreshed ==
    IF MayStart
    THEN scan' = [step |-> "git", failed |-> FALSE] /\ children' = children \cup Git /\ scans' = scans + 1
    ELSE UNCHANGED <<scan, children, scans>>

\* The warm-up after the prompt is live.
Warm ==
    /\ MayStart /\ Refreshed
    /\ UNCHANGED <<scope, cache, generation, typing, ranking, picking, opens>>

\* A query of git ends: with a list, without an answer, or past its time, when it
\* is killed and reaped first.
QueryEnds(q) ==
    /\ scan.step \in {"git", "rg"} /\ scope = "open" /\ q \in children
    /\ children' = children \ {q}
    /\ \E failed \in BOOLEAN :
         LET bad == scan.failed \/ failed
         IN  IF scan.step = "rg" \/ (children \cap Git = {q} /\ ~bad) THEN scan' = [step |-> "collect", failed |-> FALSE]
             ELSE IF children \cap Git = {q} THEN scan' = [step |-> "fallback", failed |-> FALSE]
             ELSE scan' = [scan EXCEPT !.failed = bad]
    /\ UNCHANGED <<scope, cache, generation, typing, ranking, picking, counters>>

\* _git_paths, when a query raises: the other is cancelled and waited for.
ScanFails ==
    /\ scan.step = "git" /\ scope = "open"
    /\ scan' = Quiet /\ children' = children \ Git
    /\ UNCHANGED <<scope, cache, generation, typing, ranking, picking, counters>>

\* rg, or the walk of the worker when there is none.
Fallback ==
    /\ scan.step = "fallback" /\ scope = "open"
    /\ \/ scan' = [scan EXCEPT !.step = "rg"] /\ children' = children \cup {"rg"}
       \/ scan' = [scan EXCEPT !.step = "collect"] /\ UNCHANGED children
    /\ UNCHANGED <<scope, cache, generation, typing, ranking, picking, counters>>

\* refresh, when the worker has the files.
Publish ==
    /\ scan.step = "collect" /\ scope = "open"
    /\ scan' = Quiet /\ cache' = scans /\ generation' = generation + 1 /\ match' = NoMatch
    /\ UNCHANGED <<scope, children, typing, pending, worker, running, menu, picking, counters>>

\* Mutant: a cancelled scan ends at once, its queries behind it.
Reaped_mut == TRUE
\* A scan that is cancelled waits for its queries to be killed and reaped, and
\* for its worker.
Reaped == children \cap (Git \cup {"rg"}) = {}

Kill(q) ==
    /\ scope = "closing" /\ q \in children \ {"fzf"}
    /\ children' = children \ {q}
    /\ UNCHANGED <<scope, scan, cache, generation, typing, ranking, picking, counters>>
ScanCancelled ==
    /\ scope = "closing" /\ Scanning /\ Reaped
    /\ scan' = Quiet
    /\ UNCHANGED <<scope, children, cache, generation, typing, ranking, picking, counters>>

-----------------------------------------------------------------------------
(* The literal menu.                                                       *)

\* complete: one coroutine ranks, the others leave their query to it.
Request(q) ==
    /\ newest' = newest + 1
    /\ IF running THEN pending' = [req |-> newest + 1, query |-> q] /\ UNCHANGED <<worker, running>>
       ELSE worker' = [req |-> newest + 1, query |-> q, step |-> "paths", gen |-> 0] /\ running' = TRUE /\ UNCHANGED pending

\* A keystroke in a mention: the menu closes, and the picker or the menu is asked for.
Type(q) ==
    /\ scope = "open" /\ keys < MaxKeys /\ picker = "none"
    /\ typed' = q /\ keys' = keys + 1 /\ menu' = ""
    /\ IF available
       THEN /\ \/ /\ picker' = IF cache = 0 THEN "scan" ELSE "fed"
                  /\ Refreshed /\ UNCHANGED <<newest, pending, worker, running, available>>
               \/ /\ available' = FALSE /\ Request(q) /\ UNCHANGED <<picker, scan, children, scans>>
       ELSE Request(q) /\ UNCHANGED <<picker, scan, children, scans, available>>
    /\ UNCHANGED <<scope, cache, generation, match, opens>>

\* candidates: a stale snapshot is used and refreshed behind; a cold cache waits
\* for the scan, and gives nothing when the scan failed.
Candidates ==
    /\ worker.step = "paths" /\ scope = "open"
    /\ \/ cache # 0 /\ (Refreshed \/ UNCHANGED <<scan, children, scans>>)
          /\ worker' = [worker EXCEPT !.step = "rank", !.gen = generation]
       \/ cache = 0 /\ Refreshed /\ worker' = [worker EXCEPT !.step = "wait"]
    /\ UNCHANGED <<scope, cache, generation, typing, pending, running, match, menu, picking, opens>>
Waited ==
    /\ worker.step = "wait" /\ ~Scanning /\ scope = "open"
    /\ worker' = [worker EXCEPT !.step = "rank", !.gen = generation]
    /\ UNCHANGED <<scope, scan, children, cache, generation, typing, pending, running, match, menu, picking, counters>>

\* Mutant: the coroutine ends with the query it began with.
GoesOn_mut == FALSE
\* The loop takes the query that was left meanwhile.
GoesOn == pending # Nothing

\* Anything queued meanwhile supersedes what was ranked.
Superseded == pending # Nothing

\* The ranking is done: match and menu, or the next query.
Ranked ==
    /\ worker.step = "rank" /\ scope = "open"
    /\ match' = IF ~Superseded /\ worker.gen = generation THEN [gen |-> generation, query |-> worker.query] ELSE match
    /\ menu' = IF ~Superseded /\ typed = worker.query
               THEN worker.query ELSE menu
    /\ IF GoesOn
       THEN worker' = [req |-> pending.req, query |-> pending.query, step |-> "paths", gen |-> 0] /\ UNCHANGED running
       ELSE worker' = NoWorker /\ running' = FALSE
    /\ pending' = Nothing
    /\ UNCHANGED <<scope, scan, children, cache, generation, typing, picking, counters>>

WorkerCancelled ==
    /\ scope = "closing" /\ worker # NoWorker
    /\ worker' = NoWorker /\ running' = FALSE /\ pending' = Nothing
    /\ UNCHANGED <<scope, scan, children, cache, generation, typing, match, menu, picking, counters>>

-----------------------------------------------------------------------------
(* fzf.                                                                    *)

\* The process is started by pick, once its environment is made.
Launch ==
    /\ picker # "none" /\ "fzf" \notin children /\ scope = "open"
    /\ children' = children \cup {"fzf"}
    /\ UNCHANGED <<scope, scan, cache, generation, typing, ranking, picking, counters>>

\* _feed on a cold cache: the scan the owner runs has ended.
Fed ==
    /\ picker = "scan" /\ "fzf" \in children /\ ~Scanning /\ scope = "open"
    /\ picker' = "fed"
    /\ UNCHANGED <<scope, scan, children, cache, generation, typing, ranking, available, counters>>

\* A selection, which must be in the snapshot that was shown, or Escape, also
\* while the scan runs: the picker goes, the scan does not.
Answered ==
    /\ picker # "none" /\ "fzf" \in children /\ scope = "open"
    /\ children' = children \ {"fzf"} /\ picker' = "none"
    /\ UNCHANGED <<scope, scan, cache, generation, typing, ranking, available, counters>>

\* fzf fails: the menu takes its place, for good; or its candidates could not be
\* prepared, then for this time.
Failed ==
    /\ picker # "none" /\ "fzf" \in children /\ scope = "open"
    /\ children' = children \ {"fzf"} /\ picker' = "none" /\ available' \in {available, FALSE}
    /\ Request(typed)
    /\ UNCHANGED <<scope, scan, cache, generation, typed, keys, match, menu, counters>>

\* _end: the process is killed and reaped before the picker's task is over.
PickerCancelled ==
    /\ scope = "closing" /\ picker # "none"
    /\ children' = children \ {"fzf"} /\ picker' = "none"
    /\ UNCHANGED <<scope, scan, cache, generation, typing, ranking, available, counters>>

-----------------------------------------------------------------------------
(* BackgroundServices.                                                     *)

\* close_background: no more admission, everything accepted is cancelled.
Close ==
    /\ scope = "open" /\ scope' = "closing"
    /\ UNCHANGED <<scan, children, cache, generation, typing, ranking, picking, counters>>
Closed ==
    /\ scope = "closing" /\ ~Scanning /\ worker = NoWorker /\ picker = "none"
    /\ scope' = "closed" /\ menu' = ""
    /\ UNCHANGED <<scan, children, cache, generation, typing, pending, worker, running, match, picking, counters>>
Reopen ==
    /\ scope = "closed" /\ opens < MaxOpens
    /\ scope' = "open" /\ opens' = opens + 1 /\ typed' = ""
    /\ UNCHANGED <<scan, children, cache, generation, newest, keys, ranking, picking, scans>>

Init ==
    /\ scope = "open" /\ scan = Quiet /\ children = {} /\ cache = 0 /\ generation = 0
    /\ typed = "" /\ newest = 0 /\ pending = Nothing /\ worker = NoWorker /\ running = FALSE
    /\ match = NoMatch /\ menu = "" /\ available \in BOOLEAN /\ picker = "none"
    /\ keys = 0 /\ scans = 0 /\ opens = 1

Next ==
    \/ Warm \/ ScanFails \/ Fallback \/ Publish \/ ScanCancelled \/ Candidates \/ Waited \/ Ranked \/ WorkerCancelled
    \/ Launch \/ Fed \/ Answered \/ Failed \/ PickerCancelled \/ Close \/ Closed \/ Reopen
    \/ \E q \in Git \cup {"rg"} : QueryEnds(q) \/ Kill(q)
    \/ \E q \in Texts : Type(q)
Spec == Init /\ [][Next]_vars

-----------------------------------------------------------------------------
\* Whoever ranks, the query in the input gets its menu: once no ranking is under
\* way, its menu is the one on the screen, and what is kept to fill it was ranked
\* in the snapshot there is (mentions.py:227-230).
TheNewestIsAnswered ==
    /\ scope = "open" /\ newest > 0 /\ ~available /\ ~running => menu = typed
    /\ menu # "" => menu = typed
    /\ match # NoMatch => match.gen = generation

\* When the scope is closed nothing of it runs on: no process, no worker
\* (mentions.py:331-334, lifecycle.py:267).
ShutdownQuiesces == scope = "closed" => children = {} /\ scan = Quiet /\ ~running
=============================================================================
