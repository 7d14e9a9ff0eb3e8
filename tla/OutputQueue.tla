---------------------------- MODULE OutputQueue ----------------------------
(***************************************************************************)
(* What one agent's turn prints, from the moment it is said to the moment  *)
(* the transcript records it.  Three queues lie on the way: the ordered    *)
(* ScrollbackWriter (ui/cli/runtime.py), for a response promoted while it  *)
(* streams and for accepted follow-ups; UiPrinter's batching window        *)
(* (ui/render.py), for everything else; and the message that opened the    *)
(* turn, held back until the turn's first output (hold_user_message).      *)
(* The transcript's own projection is module Scrollback.                   *)
(*                                                                         *)
(* What is said is numbered in the order it is said; all of it is said on  *)
(* the event loop.                                                         *)
(***************************************************************************)
EXTENDS Naturals, Sequences, SequencesExt, FiniteSets

CONSTANTS MaxSaid,    \* bound on what is said
          MaxFails    \* bound on writes the renderer refuses

VARIABLES
    said,       \* history: what was said, as kinds: "user", "row", "tool", "text" or "follow"
    writer,     \* ScrollbackWriter: [open, queue, error]
    parts,      \* UiPrinter._scrollback_parts
    window,     \* [scheduled, generation, timers]
    held,       \* the held message, or 0
    transcript, \* what print_parts handed to the sink
    turn,       \* [at, inflight, promoted]: where the turn is, whether its request carries follow-ups
    app,        \* "on", "closing", "closed" (the writer drained) or "off"
    lost        \* history: what the renderer refused

vars == <<said, writer, parts, window, held, transcript, turn, app, lost>>
printer == <<parts, window, held, transcript>>

Next1 == Len(said) + 1
Say(kinds) == Len(said) + Len(kinds) <= MaxSaid /\ said' = said \o kinds
Barrier == [kind |-> "barrier"]
Sentinel == [kind |-> "end"]
Callback(id) == [kind |-> "callback", id |-> id]

-----------------------------------------------------------------------------
(* UiPrinter, on p = [parts, window, held, transcript].                    *)

P == [parts |-> parts, window |-> window, held |-> held, transcript |-> transcript]
Printer(p) == parts' = p.parts /\ window' = p.window /\ held' = p.held /\ transcript' = p.transcript

HeldPart(p) == IF p.held = 0 THEN <<>> ELSE <<p.held>>

\* Mutant: the held message waits for its release.
TakeHeld_mut(p, ids) == [p EXCEPT !.parts = @ \o ids]
\* _take_held: whatever is written takes the held message out first.
TakeHeld(p, ids) == [p EXCEPT !.parts = @ \o HeldPart(p) \o ids, !.held = 0]

\* drain_scrollback: what waits in the window, then the held message; the window's timer is void.
drain_scrollback(p) ==
    [p EXCEPT !.transcript = @ \o p.parts \o HeldPart(p), !.parts = <<>>, !.held = 0,
              !.window = [@ EXCEPT !.scheduled = FALSE, !.generation = @ + 1]]

\* _write_scrollback and _queue_scrollback: the window batches a burst above the live application.
write(p, ids) ==
    LET q == TakeHeld(p, ids)
    IN  IF q.parts = p.parts THEN q
        ELSE IF app = "off" THEN drain_scrollback(q)
        ELSE IF q.window.scheduled THEN q
        ELSE [q EXCEPT !.window = [@ EXCEPT !.scheduled = TRUE,
                                            !.timers = @ \cup {[gen |-> q.window.generation, due |-> FALSE]}]]

\* _schedule_scrollback: the timer starts on the loop, unless a drain overtook it.
StartWindow ==
    \E t \in window.timers :
        /\ ~t.due
        /\ window' = [window EXCEPT !.timers =
               (@ \ {t}) \cup IF window.scheduled /\ t.gen = window.generation THEN {[t EXCEPT !.due = TRUE]} ELSE {}]
        /\ UNCHANGED <<said, writer, parts, held, transcript, turn, app, lost>>
\* _flush_scrollback.
FlushWindow ==
    \E t \in window.timers :
        /\ t.due
        /\ IF t.gen = window.generation
           THEN /\ transcript' = transcript \o parts /\ parts' = <<>>
                /\ window' = [window EXCEPT !.scheduled = FALSE, !.timers = @ \ {t}]
           ELSE window' = [window EXCEPT !.timers = @ \ {t}] /\ UNCHANGED <<parts, transcript>>
        /\ UNCHANGED <<said, writer, held, turn, app, lost>>

-----------------------------------------------------------------------------
(* ScrollbackWriter.                                                       *)

\* A callback prints narration through the window; accepted follow-ups go straight to the
\* transcript (CommandLoop.flush_queued_to_log).
print(p, id) ==
    IF said[id] = "follow" THEN [p EXCEPT !.transcript = Append(@, id)] ELSE write(p, <<id>>)

\* _pump: one item at a time; a write that raises is kept for the next barrier or close.
Pump ==
    /\ writer.queue # <<>>
    /\ LET item == Head(writer.queue)
           rest == [writer EXCEPT !.queue = Tail(@)]
       IN  \/ /\ item = Barrier
              /\ writer' = rest
              /\ turn' = IF turn.at = "barrier" THEN [turn EXCEPT !.at = "woken"] ELSE turn
              /\ UNCHANGED printer /\ UNCHANGED <<app, lost>>
           \/ /\ item = Sentinel
              /\ writer' = rest /\ app' = "closed"
              /\ UNCHANGED printer /\ UNCHANGED <<turn, lost>>
           \/ /\ item.kind = "callback"
              /\ writer' = rest /\ Printer(print(P, item.id))
              /\ UNCHANGED <<turn, app, lost>>
           \/ /\ item.kind = "callback" /\ Cardinality(lost) < MaxFails
              /\ writer' = [rest EXCEPT !.error = TRUE] /\ lost' = lost \cup {item.id}
              /\ UNCHANGED printer /\ UNCHANGED <<turn, app>>
    /\ UNCHANGED said

\* submit: after close the write takes the direct path.
Submit(id) ==
    IF writer.open THEN writer' = [writer EXCEPT !.queue = Append(@, Callback(id))]
    ELSE UNCHANGED writer

-----------------------------------------------------------------------------
(* The turn, as Presentation hears of it.                                  *)

\* user_message: held while a reaction may still join it, else printed.
UserMessage ==
    /\ turn.at = "idle" /\ app = "on"
    /\ Say(<<"user">>)
    /\ \/ Printer([P EXCEPT !.held = Next1])
       \/ Printer(write(P, <<Next1>>))
    /\ \E inflight \in BOOLEAN : turn' = [at |-> "request", inflight |-> inflight, promoted |-> 0]
    /\ UNCHANGED <<writer, app, lost>>

\* Rows the provider's own tools print while the response streams.
BuiltinRow ==
    /\ turn.at = "request" /\ Say(<<"row">>)
    /\ Printer(write(P, <<Next1>>))
    /\ UNCHANGED <<writer, turn, app, lost>>

\* model_stream_output("output_done"): the response is printed early, unless follow-ups it answers
\* are not in the transcript yet.
Promote ==
    /\ turn.at = "request" /\ ~turn.inflight
    /\ Say(<<"text">>)
    /\ Submit(Next1)
    /\ turn' = [turn EXCEPT !.promoted = Next1]
    /\ UNCHANGED printer /\ UNCHANGED <<app, lost>>

\* Mutant: the marker of the promotion is not consumed.
Unpromoted_mut(id) == <<id>>
\* unpromoted_text: what is left to print of a text that was promoted.
Unpromoted(id) == IF turn.promoted = id THEN <<>> ELSE <<id>>

\* Mutant: the batch does not wait for what was published before it.
Awaits_mut(queue) == queue
\* await_output_barrier before a batch of tools.
Awaits(queue) == Append(queue, Barrier)

\* The request is accepted: its follow-ups first, then the text, unless it was promoted.  A text
\* promoted by an attempt that then failed may come again or not.
RequestReturns ==
    /\ turn.at = "request"
    /\ \E again \in BOOLEAN, empty \in BOOLEAN, tools \in BOOLEAN :
        LET follow == IF turn.inflight THEN <<"follow">> ELSE <<>>
            repeats == turn.promoted # 0 /\ again
            text   == IF empty \/ repeats THEN <<>> ELSE <<"text">>
            id     == IF repeats THEN turn.promoted ELSE Len(said) + Len(follow) + 1
            queue  == IF turn.inflight THEN Append(writer.queue, Callback(Next1)) ELSE writer.queue
        IN  /\ empty => tools /\ turn.promoted = 0
            /\ Say(follow \o text)
            /\ Printer(IF empty THEN P ELSE write(P, Unpromoted(id)))
            /\ writer' = [writer EXCEPT !.queue = IF tools THEN Awaits(queue) ELSE queue]
            /\ turn' = [at |-> IF ~tools THEN "end" ELSE IF writer'.queue = queue THEN "tools" ELSE "barrier",
                        inflight |-> FALSE, promoted |-> 0]
    /\ UNCHANGED <<app, lost>>

\* The request fails: the turn's error is its last row.
RequestFails ==
    /\ turn.at = "request" /\ Say(<<"row">>)
    /\ Printer(write(P, <<Next1>>))
    /\ turn' = [turn EXCEPT !.at = "end"]
    /\ UNCHANGED <<writer, app, lost>>

\* barrier: the first failure of a write is raised here, and ends the turn.
BarrierReturns ==
    /\ turn.at = "woken"
    /\ IF writer.error
       THEN /\ Say(<<"row">>) /\ Printer(write(P, <<Next1>>))
            /\ writer' = [writer EXCEPT !.error = FALSE] /\ turn' = [turn EXCEPT !.at = "end"]
       ELSE turn' = [turn EXCEPT !.at = "tools"] /\ UNCHANGED printer /\ UNCHANGED <<said, writer>>
    /\ UNCHANGED <<app, lost>>

ToolRow ==
    /\ turn.at = "tools" /\ Say(<<"tool">>)
    /\ Printer(write(P, <<Next1>>))
    /\ UNCHANGED <<writer, turn, app, lost>>
ToolsDone ==
    /\ turn.at = "tools"
    /\ \E inflight \in BOOLEAN : turn' = [at |-> "request", inflight |-> inflight, promoted |-> 0]
    /\ UNCHANGED <<said, writer, app, lost>> /\ UNCHANGED printer

\* reset_turn: a turn that printed nothing still prints the message that opened it.
ResetTurn ==
    /\ turn.at = "end"
    /\ Printer(write(P, <<>>))
    /\ turn' = [at |-> "idle", inflight |-> FALSE, promoted |-> 0]
    /\ UNCHANGED <<said, writer, app, lost>>

\* Ctrl-C or shutdown: the turn is cancelled and says so.  The writer passes over the future of a
\* barrier nobody awaits any more.
Cancel ==
    /\ turn.at \notin {"idle", "end"} /\ Say(<<"row">>)
    /\ Printer(write(P, <<Next1>>))
    /\ writer' = [writer EXCEPT !.queue = SelectSeq(@, LAMBDA item : item # Barrier)]
    /\ turn' = [turn EXCEPT !.at = "end"]
    /\ UNCHANGED <<app, lost>>

-----------------------------------------------------------------------------
(* Shutdown: the writer's admission closes and drains, the application     *)
(* ends, what the window still holds is printed.                           *)

CloseWriter ==
    /\ app = "on" /\ turn.at = "idle"
    /\ app' = "closing"
    /\ writer' = [writer EXCEPT !.open = FALSE, !.queue = Append(@, Sentinel)]
    /\ UNCHANGED <<said, turn, lost>> /\ UNCHANGED printer

\* Mutant: the timer that will not run any more is left with its parts.
OnAppStop_mut(p) == p
\* on_app_stop: drain_scrollback.
OnAppStop(p) == drain_scrollback(p)
AppStops ==
    /\ app = "closed"
    /\ app' = "off"
    /\ Printer(OnAppStop([P EXCEPT !.window.timers = {}]))
    /\ UNCHANGED <<said, writer, turn, lost>>

Init ==
    /\ said = <<>> /\ parts = <<>> /\ held = 0 /\ transcript = <<>> /\ lost = {}
    /\ writer = [open |-> TRUE, queue |-> <<>>, error |-> FALSE]
    /\ window = [scheduled |-> FALSE, generation |-> 0, timers |-> {}]
    /\ turn = [at |-> "idle", inflight |-> FALSE, promoted |-> 0]
    /\ app = "on"

Next ==
    \/ StartWindow \/ FlushWindow \/ Pump
    \/ UserMessage \/ BuiltinRow \/ Promote \/ RequestReturns \/ RequestFails
    \/ BarrierReturns \/ ToolRow \/ ToolsDone \/ ResetTurn \/ Cancel
    \/ CloseWriter \/ AppStops

Spec == Init /\ [][Next]_vars

-----------------------------------------------------------------------------
(* Properties.                                                             *)

\* The rows of a batch are below every answer said before it, and the message that opened the turn
\* is above what followed, whichever of the three queues each of them took - a promoted answer may
\* only be late for the rows printed while it waits, and follow-ups have HeldMessageComesFirst
\* (ui/cli/runtime.py:63-71, agent/engine.py:524-530).
TranscriptIsInOrder ==
    LET rest == SelectSeq(transcript, LAMBDA i : said[i] # "follow")
    IN  \A k, l \in DOMAIN rest : k < l /\ rest[k] > rest[l] => said[rest[l]] = "text" /\ said[rest[k]] # "tool"

\* Nothing said is printed twice, and once the application has ended everything that was said is
\* in the transcript: no held message, unfired window or queued write is left behind
\* (ui/render.py:1239-1253, ui/cli/runtime.py:123-134).
SaidOnce ==
    /\ \A k, l \in DOMAIN transcript : transcript[k] = transcript[l] => k = l
    /\ app = "off" => ToSet(transcript) = DOMAIN said \ lost

\* "Whatever is written next -- the reply, a tool row, a refusal, the turn's end -- takes it out
\* first." (ui/render.py:1581-1584)
\* Not kept: a follow-up is printed past the batching window that holds the message.
HeldMessageComesFirst ==
    \A k, l \in DOMAIN transcript : k < l /\ said[transcript[l]] = "user" => transcript[k] < transcript[l]
=============================================================================
