------------------------------ MODULE MCFrontend ------------------------------
(* The parts between the user and a turn.  Each keeps state no other part      *)
(* touches, so a behaviour moves one of them and the others rest: to let all   *)
(* move would multiply the states and show nothing new.                        *)
EXTENDS Naturals

CONSTANTS MaxInputs, Kinds, HeldAtStart, Openers, Exclusive, Patient, MaxAsks, PaneRows,
          AppRows, MAX_REPLAY, MaxWrites, MaxSaid, MaxFails, Texts, MaxKeys, MaxScans,
          MaxOpens, Children, ParentOf, Past, MaxLoads, MaxPicks, LoadsAlone, MaxLines,
          Apart, MaxSent

VARIABLES part, mode, draft, accepting, submissions, con, turnActive, queue, pending, drv,
          cancelPending, shutdown, starting, stage, disk, accepted, kind, tabbed, started,
          gone, rowMode, buf, own, ask, asks, answered, opener, modal, modalIdle, inputIdle,
          alternate, view, editor, term, region, rend, cpr, app, winch, count, flushed,
          garbled, said, writer, parts, window, held, transcript, turn, outputApp, lost,
          scope, scan, children, cache, generation, typed, newest, menuPending, worker,
          running, match, menu, available, picker, keys, scans, opens, live, archived,
          runtimes, read_only, current, switching, viewsApp, consuming, viewsHeld, disposed,
          pickers, archive, closer, closing, left, loads, viewsAsks, owner, startupApp,
          stopping, startupWorker, cancelled, lease, loop, filtered, open, early, given,
          lines, arriving, repliesGiven, repliesPending, forwarded, bypass, colors, sent

\* Who owns a submitted line, until a turn has it or the user has it back.
Terminal == INSTANCE Terminal WITH Restored <- HeldAtStart
\* What may use the input row.
Row == INSTANCE InputRow WITH mode <- rowMode
\* How printed rows and the live application share the terminal.
Screen == INSTANCE Scrollback
\* In which order what is said is printed.
Output == INSTANCE OutputQueue WITH app <- outputApp
\* The ranking of files behind the @ menu.
Menu == INSTANCE FileMentions WITH pending <- menuPending
\* The view of each agent, live or archived.
Views == INSTANCE AgentsFrontend WITH app <- viewsApp, held <- viewsHeld, asks <- viewsAsks
\* The loop that runs before the application.
Start == INSTANCE Startup WITH app <- startupApp, worker <- startupWorker
\* Keys and terminal answers in one stream.
Replies == INSTANCE TerminalReplies WITH given <- repliesGiven, pending <- repliesPending



MCParents == [a |-> "main", b |-> "a", c |-> "main"]

terminalVars == <<mode, draft, accepting, submissions, con, turnActive, queue, pending, drv,
                  cancelPending, shutdown, starting, stage, disk, accepted, kind, tabbed,
                  started, gone>>
rowVars == <<rowMode, buf, own, ask, asks, answered, opener, modal, modalIdle, inputIdle,
             alternate, view, editor>>
screenVars == <<term, region, rend, cpr, app, winch, count, flushed, garbled>>
outputVars == <<said, writer, parts, window, held, transcript, turn, outputApp, lost>>
menuVars == <<scope, scan, children, cache, generation, typed, newest, menuPending, worker,
              running, match, menu, available, picker, keys, scans, opens>>
viewsVars == <<live, archived, runtimes, read_only, current, switching, viewsApp, consuming,
               viewsHeld, disposed, pickers, archive, closer, closing, left, loads,
               viewsAsks>>
startupVars == <<owner, startupApp, stopping, startupWorker, cancelled, lease, loop,
                 filtered, open, early, given, lines>>
repliesVars == <<arriving, repliesGiven, repliesPending, forwarded, bypass, colors, sent>>
vars == <<part, terminalVars, rowVars, screenVars, outputVars, menuVars, viewsVars, startupVars,
           repliesVars>>

\* The part that moves; the others stay in their initial states, of which a part
\* that rests has one.
Init ==
    /\ part \in {"terminal", "row", "screen", "output", "menu", "views", "startup",
                  "replies"}
    /\ Terminal!Init
    /\ Row!Init
    /\ Screen!Init /\ (part = "screen" \/ (term.rows = 3 /\ term.cur = 1))
    /\ Output!Init
    /\ Menu!Init /\ (part = "menu" \/ ~available)
    /\ Views!Init
    /\ Start!Init
    /\ Replies!Init
Next ==
    \/ /\ part = "terminal" /\ Terminal!Next
       /\ UNCHANGED <<part, rowVars, screenVars, outputVars, menuVars, viewsVars,
                      startupVars, repliesVars>>
    \/ /\ part = "row" /\ Row!Next
       /\ UNCHANGED <<part, terminalVars, screenVars, outputVars, menuVars, viewsVars,
                      startupVars, repliesVars>>
    \/ /\ part = "screen" /\ Screen!Next
       /\ UNCHANGED <<part, terminalVars, rowVars, outputVars, menuVars, viewsVars,
                      startupVars, repliesVars>>
    \/ /\ part = "output" /\ Output!Next
       /\ UNCHANGED <<part, terminalVars, rowVars, screenVars, menuVars, viewsVars,
                      startupVars, repliesVars>>
    \/ /\ part = "menu" /\ Menu!Next
       /\ UNCHANGED <<part, terminalVars, rowVars, screenVars, outputVars, viewsVars,
                      startupVars, repliesVars>>
    \/ /\ part = "views" /\ Views!Next
       /\ UNCHANGED <<part, terminalVars, rowVars, screenVars, outputVars, menuVars,
                      startupVars, repliesVars>>
    \/ /\ part = "startup" /\ Start!Next
       /\ UNCHANGED <<part, terminalVars, rowVars, screenVars, outputVars, menuVars,
                      viewsVars, repliesVars>>
    \/ /\ part = "replies" /\ Replies!Next
       /\ UNCHANGED <<part, terminalVars, rowVars, screenVars, outputVars, menuVars,
                      viewsVars, startupVars>>
    \* any other may stop
    \/ part # "terminal" /\ UNCHANGED vars
Spec == Init /\ [][Next]_vars

\* A submitted line has one owner at every moment - through boundaries,
\* recalls, refusals, cancellations and shutdown it is never lost and never run
\* twice - nothing stays queued in a terminal at rest, and what the queue had
\* taken in is in the written snapshot when shutdown is over
\* (ui/cli/runtime.py:282-344, 353-370).
InputsAreKept ==
    part = "terminal" =>
        /\ Terminal!EveryInputHasOneOwner /\ Terminal!NothingIsStranded
        /\ Terminal!QueueSurvivesShutdown
\* An approval is granted by Enter on its own prompt alone, the row then has
\* the user's own draft back, and one modal at a time is on the screen, which
\* is the one its opener waits for (ui/tui/app.py:489-537, 1369-1376).
TheRowIsShared ==
    part = "row" =>
        /\ Row!OnlyEnterGrants /\ Row!TheRowIsGivenBack /\ Row!OneModalAtATime
\* The terminal holds the rows of every printed write whole, once and in order
\* and no row of the live application, a screen that is unknown is owed a
\* replay until it had one, and no accepted write is lost before it is printed
\* (ui/tui/scrollback.py:1-33, 148-197).
ScreenIsKept ==
    part = "screen" =>
        /\ Screen!TheScreenIsTheTranscript /\ Screen!UnknownScreensAreOwed
        /\ Screen!WritesAreKept
\* What is said reaches the transcript once, a turn's message above what
\* followed and the rows of a batch below every answer said before it,
\* whichever of three queues each took (ui/cli/runtime.py:63-71, 123-134,
\* agent/engine.py:524-530).
OutputIsInOrder == part = "output" => Output!TranscriptIsInOrder /\ Output!SaidOnce
\* The query in the input gets its menu whoever ranks, in the snapshot there
\* is, and a closed scope leaves no process and no worker (mentions.py:227-230,
\* 331-334).
MenusAreCurrent == part = "menu" => Menu!TheNewestIsAnswered /\ Menu!ShutdownQuiesces
\* The view on the screen is one registered under its agent, a read-only view
\* holds the session it decoded as long as it is registered, and an archive
\* that failed leaves every live agent its input (agents.py:450-454, 472-478,
\* 491-494).
ViewsAreKept ==
    part = "views" =>
        /\ Views!TheScreenIsAView /\ Views!ViewsOwnWhatTheyRead
        /\ Views!FailedArchivesReopen
\* What is typed while the program starts reaches the runtime in order and only
\* for a user who did not ask to leave, no key is lost to and no key is made of
\* the terminal's answers, and startup leaves no worker, no lease and no
\* filter, at whatever step it ends (startup.py:26, 102-105, 160-176,
\* __main__.py:322-331).
TypingSurvivesStartup ==
    /\ part = "startup" => Start!NothingIsLeft /\ Start!EarlyInputIsHonoured
    /\ part = "replies" => Replies!KeysAreKept /\ Replies!RepliesAreNotTyped
==============================================================================
