-------------------------------- MODULE Startup --------------------------------
(***************************************************************************)
(* From the first editable frame to the session's runtime                  *)
(* (ui/startup.py _run_startup and the loop of __main__.py main around     *)
(* it): the prompt is live while a worker assembles the session and takes  *)
(* its lease; what is typed meanwhile waits for the runtime; and an end,   *)
(* asked for or not, comes at any step.                                    *)
(***************************************************************************)
EXTENDS Naturals, Sequences

CONSTANT MaxLines \* bound on the lines typed

VARIABLES
    owner,     \* _run_startup, then main: "ready", "assembling", "runtime", "unwinding", "main" or "exited"
    app,       \* the application: "starting", "live", "ending" or "ended"
    stopping,  \* an end was asked for
    worker,    \* the assembly: "none", "session", "loop", "built" or "failed"
    cancelled, \* a cancellation waits
    lease,     \* current, and its lease
    loop,      \* command_loop is set
    filtered,  \* the parser's input goes through the filter
    open,      \* the gate of the background output
    early,     \* the lines typed, and those the runtime was given
    given,
    lines

vars == <<owner, app, stopping, worker, cancelled, lease, loop, filtered, open, early, given, lines>>

Working == worker \in {"session", "loop"}

\* The application's first frame, or its end: an end-of-file, a terminal that went
\* away. It also ends after the exit it was asked for.
Frame ==
    /\ app = "starting" /\ app' = "live"
    /\ UNCHANGED <<owner, stopping, worker, cancelled, lease, loop, filtered, open, early, given, lines>>
AppEnds ==
    /\ app \in {"live", "ending"} /\ owner \notin {"main", "exited"} /\ app' = "ended"
    /\ UNCHANGED <<owner, stopping, worker, cancelled, lease, loop, filtered, open, early, given, lines>>

\* submit: a line, or /quit; Ctrl-C and Ctrl-D ask for the same. The runtime's own
\* handlers are in Terminal.
TypeLine ==
    /\ app = "live" /\ lines < MaxLines /\ owner \in {"ready", "assembling"}
    /\ early' = Append(early, lines) /\ lines' = lines + 1
    /\ UNCHANGED <<owner, app, stopping, worker, cancelled, lease, loop, filtered, open, given>>
Quit ==
    /\ app = "live" /\ ~stopping /\ owner \in {"ready", "assembling"}
    /\ stopping' = TRUE
    /\ UNCHANGED <<owner, app, worker, cancelled, lease, loop, filtered, open, early, given, lines>>

\* A signal cancels _run_startup once its application is up.
Cancelled ==
    /\ owner \in {"assembling", "runtime"} /\ ~cancelled /\ cancelled' = TRUE
    /\ UNCHANGED <<owner, app, stopping, worker, lease, loop, filtered, open, early, given, lines>>

-----------------------------------------------------------------------------
\* The application is up: the filter goes in, and the worker starts.
Ready ==
    /\ owner = "ready" /\ app # "starting"
    /\ IF app = "ended" THEN owner' = "unwinding" /\ UNCHANGED <<filtered, worker>>
       ELSE /\ filtered' = TRUE
            /\ IF stopping THEN owner' = "unwinding" /\ UNCHANGED worker
               ELSE owner' = "assembling" /\ worker' = "session"
    /\ UNCHANGED <<app, stopping, cancelled, lease, loop, open, early, given, lines>>

\* assemble, on its thread: the session with its lease, then the loop. Each may fail.
Session ==
    /\ worker = "session"
    /\ \/ worker' = "loop" /\ lease' = TRUE
       \/ worker' = "failed" /\ UNCHANGED lease
    /\ UNCHANGED <<owner, app, stopping, cancelled, loop, filtered, open, early, given, lines>>
Loop ==
    /\ worker = "loop"
    /\ \/ worker' = "built" /\ open' = TRUE
       \/ worker' = "failed" /\ UNCHANGED open
    /\ UNCHANGED <<owner, app, stopping, cancelled, lease, loop, filtered, early, given, lines>>

\* Mutant: a cancellation leaves the worker behind.
Awaited_mut == cancelled \/ ~Working
\* run_blocking returns when the worker has, also to the cancelled.
Awaited == ~Working

\* Mutant: what was built is kept only when nothing was cancelled.
Committed_mut == worker = "built" /\ ~cancelled
\* The commit, before the cancellation goes on.
Committed == worker = "built"

\* Mutant: whether the user wants to leave is asked before the assembly alone.
Leaves_mut == cancelled \/ ~Committed \/ app = "ended"
\* Nothing to run, no one to run it for, or no wish to.
Leaves == cancelled \/ ~Committed \/ app = "ended" \/ stopping

Assembled ==
    /\ owner = "assembling" /\ Awaited
    /\ loop' = Committed
    /\ IF Leaves THEN owner' = "unwinding" /\ UNCHANGED given
       ELSE owner' = "runtime" /\ given' = early
    /\ UNCHANGED <<app, stopping, worker, cancelled, lease, filtered, open, early, lines>>

\* The runtime is over: its shutdown has settled everything (Terminal), and the
\* application with it.
RuntimeEnds ==
    /\ owner = "runtime" /\ owner' = "unwinding" /\ app' = "ended"
    /\ UNCHANGED <<stopping, worker, cancelled, lease, loop, filtered, open, early, given, lines>>

\* Mutant: the filter stays in when there is no session to run.
Restored_mut == filtered /\ ~loop
\* restore_input, whichever way this ends.
Restored == FALSE

\* The finally clause: the application is asked to end and waited for, the input
\* restored, the output closed.
AskExit ==
    /\ owner = "unwinding" /\ app = "live" /\ app' = "ending"
    /\ UNCHANGED <<owner, stopping, worker, cancelled, lease, loop, filtered, open, early, given, lines>>
Unwound ==
    /\ owner = "unwinding" /\ app = "ended"
    /\ owner' = "main" /\ filtered' = Restored /\ open' = (open /\ ~loop)
    /\ UNCHANGED <<app, stopping, worker, cancelled, lease, loop, early, given, lines>>

\* Mutant: a session whose loop could not be built keeps its lease.
StaysOwned_mut == lease /\ worker = "failed"
\* The outermost clause closes a session that never ran as well.
StaysOwned == FALSE
Exit ==
    /\ owner = "main" /\ owner' = "exited" /\ lease' = StaysOwned
    /\ UNCHANGED <<app, stopping, worker, cancelled, loop, filtered, open, early, given, lines>>

Init ==
    /\ owner = "ready" /\ app = "starting" /\ stopping = FALSE /\ worker = "none" /\ cancelled = FALSE
    /\ lease = FALSE /\ loop = FALSE /\ filtered = FALSE /\ open = FALSE
    /\ early = <<>> /\ given = <<>> /\ lines = 0
Next ==
    \/ Frame \/ AppEnds \/ TypeLine \/ Quit \/ Cancelled \/ Ready \/ Session \/ Loop \/ Assembled \/ RuntimeEnds
    \/ AskExit \/ Unwound \/ Exit
Spec == Init /\ [][Next]_vars

-----------------------------------------------------------------------------
\* Whenever startup ends, at whatever step, it leaves nothing: no worker that
\* goes on, no lease, no output after the terminal is given back
\* (startup.py:160-161, __main__.py:322-331).
NothingIsLeft ==
    /\ owner = "exited" => ~lease /\ ~Working
    /\ owner \in {"main", "exited"} => ~open /\ ~filtered

\* The runtime starts with every line that was typed before, in order, and only
\* for a user who did not ask to leave (startup.py:102-105, 162-176).
EarlyInputIsHonoured ==
    owner = "runtime" => ~stopping /\ given = early /\ given = [i \in 1..lines |-> i - 1]
=============================================================================
