------------------------------ MODULE InputRow ------------------------------
(***************************************************************************)
(* The shared input row of one agent's TuiApp (ui/tui/app.py): approval    *)
(* prompts borrow the row and its draft, modals (the output browser, a     *)
(* plugin's dialog) cover it, an external editor holds the terminal, and   *)
(* the frontend switches between agents' views (ui/cli/agents.py).  All of *)
(* them wait for each other through two asyncio events.                    *)
(*                                                                         *)
(* The buffer is what its text was written for: "draft" (the chat row),    *)
(* "reason" (an approval's), "foreign" (text edited for one row and loaded *)
(* into the other), or "empty".                                            *)
(***************************************************************************)
EXTENDS Naturals, FiniteSets

CONSTANTS Openers,      \* tasks that show a modal
          Exclusive,    \* those whose modal fills the screen
          Patient,      \* those that also wait for approvals (plugin dialogs)
          MaxAsks       \* bound: approval prompts of one session

None == "none"
VARIABLES mode,         \* TuiApp.input_mode
          buf,          \* TuiApp.input_buffer
          own,          \* history: what the user left in the chat row
          ask,          \* the approval request: [at, mode, buf, form]
          asks,         \* how many approvals were asked for
          answered,     \* history: how the last prompt was settled: [by, value]
          opener,       \* opener[o]: "idle", "unseen", "queued" or "open"
          modal,        \* TuiApp.modal: its opener, or none
          modalIdle,    \* the event _modal_idle
          inputIdle,    \* the event _input_idle
          alternate,    \* the renderer is on the alternate screen
          view,         \* "live", "hidden" (another agent is shown) or "finished"
          editor        \* the Ctrl-G editor: [on, mode]

vars == <<mode, buf, own, ask, asks, answered, opener, modal, modalIdle, inputIdle, alternate, view, editor>>
screen == <<opener, modal, modalIdle, alternate, view, editor>>

NoAsk == [at |-> None, mode |-> None, buf |-> None, form |-> FALSE]
NoEditor == [on |-> FALSE, mode |-> None]
Pending == ask.at \in {"open", "settled"}         \* _input_pending is set
Row == IF mode = "APPROVAL" THEN "reason" ELSE "draft"

Init ==
    /\ mode = "CHAT" /\ buf = "empty" /\ own = "empty"
    /\ ask = NoAsk /\ asks = 0 /\ answered = [by |-> None, value |-> None]
    /\ opener = [o \in Openers |-> "idle"]
    /\ modal = None /\ modalIdle = TRUE /\ inputIdle = TRUE
    /\ alternate = FALSE /\ view = "live" /\ editor = NoEditor

-----------------------------------------------------------------------------
(* Approval prompts: request_input.                                        *)

AskFor ==
    /\ ask.at = None /\ asks < MaxAsks /\ view # "finished"
    /\ asks' = asks + 1
    /\ ask' = [NoAsk EXCEPT !.at = "queued"]
    /\ UNCHANGED <<mode, buf, own, answered, inputIdle>> /\ UNCHANGED screen

\* The row is taken over once no modal is visible; the draft is kept aside.
AskOpens ==
    /\ ask.at = "queued" /\ modalIdle /\ modal = None
    /\ \E form \in BOOLEAN : ask' = [at |-> "open", mode |-> mode, buf |-> buf, form |-> form]
    /\ mode' = "APPROVAL" /\ buf' = "empty"
    /\ inputIdle' = FALSE
    /\ UNCHANGED <<own, asks, answered>> /\ UNCHANGED screen

\* resolve_input: a later answer is ignored.
Resolve(by, value) ==
    /\ ask.at = "open"
    /\ ask' = [ask EXCEPT !.at = "settled"]
    /\ answered' = [by |-> by, value |-> value]

\* Mutant: the mode is restored, the buffer keeps the approval's text.
Release_mut ==
    /\ mode' = ask.mode
    /\ inputIdle' = TRUE
    /\ ask' = NoAsk
    /\ UNCHANGED buf
\* The finally of request_input: the event, the form, the mode and the draft come back.
Release ==
    /\ mode' = ask.mode
    /\ buf' = ask.buf
    /\ inputIdle' = TRUE
    /\ ask' = NoAsk
AskReturns ==
    /\ ask.at = "settled"
    /\ Release
    /\ UNCHANGED <<own, asks, answered>> /\ UNCHANGED screen

\* The task that asks is cancelled, waiting for a modal or for the answer.
AskCancelled ==
    /\ ask.at # None
    /\ IF Pending THEN Release ELSE ask' = NoAsk /\ UNCHANGED <<mode, buf, inputIdle>>
    /\ UNCHANGED <<own, asks, answered>> /\ UNCHANGED screen

\* cancel_input, from any thread.
CancelInput ==
    /\ Resolve("cancel", None)
    /\ UNCHANGED <<mode, buf, own, asks, inputIdle>> /\ UNCHANGED screen

-----------------------------------------------------------------------------
(* Keys reach the modal first, then the row; none while an editor holds    *)
(* the terminal or another agent is shown.                                 *)

Typing == view = "live" /\ modal = None /\ ~editor.on

Type ==
    /\ Typing /\ mode # "DISPATCH"
    /\ buf' = IF buf = "foreign" THEN buf ELSE Row
    /\ own' = IF Row = "draft" THEN buf' ELSE own
    /\ UNCHANGED <<mode, ask, asks, answered, inputIdle>> /\ UNCHANGED screen

\* Enter at the chat row sends the draft; the turn it starts shows the working prompt.
Send ==
    /\ Typing /\ mode \in {"CHAT", "RUNNING"} /\ buf # "empty"
    /\ buf' = "empty" /\ own' = "empty"
    /\ mode' = IF mode = "CHAT" THEN "DISPATCH" ELSE mode
    /\ UNCHANGED <<ask, asks, answered, inputIdle>> /\ UNCHANGED screen

\* Enter at an approval: the focused action on an empty line, else the reason.
EnterApproval ==
    /\ Typing /\ mode = "APPROVAL"
    /\ Resolve("key", IF buf = "empty" /\ ask.form THEN "action" ELSE buf)
    /\ UNCHANGED <<mode, buf, own, asks, inputIdle>> /\ UNCHANGED screen

\* Esc clears a reason, or refuses on an empty line; only the form binds it.
EscapeApproval ==
    /\ Typing /\ mode = "APPROVAL" /\ ask.form
    /\ IF buf # "empty"
       THEN buf' = "empty" /\ UNCHANGED <<ask, answered>>
       ELSE Resolve("key", None) /\ UNCHANGED buf
    /\ UNCHANGED <<mode, own, asks, inputIdle>> /\ UNCHANGED screen

\* Mutant: the empty line is submitted, which confirm() reads as the default approve.
EndOfInput_mut == IF buf = "empty" THEN "empty" ELSE buf
\* Ctrl-C cancels the prompt; Ctrl-D too on an empty line, and sends a written one.
EndOfInput == IF buf = "empty" THEN None ELSE buf
RefuseApproval ==
    /\ Typing /\ mode = "APPROVAL"
    /\ \E value \in {None, EndOfInput} : Resolve(IF value = None THEN "refusal" ELSE "eof", value)
    /\ UNCHANGED <<mode, buf, own, asks, inputIdle>> /\ UNCHANGED screen

\* Ctrl-C or Ctrl-U in the chat row.
ClearDraft ==
    /\ Typing /\ mode # "APPROVAL" /\ buf # "empty"
    /\ buf' = "empty" /\ own' = "empty"
    /\ UNCHANGED <<mode, ask, asks, answered, inputIdle>> /\ UNCHANGED screen

\* The turn's phases: set_running, set_idle.  A turn blocked on its approval has none.
TurnPhase ==
    /\ ~Pending /\ mode' \in {"CHAT", "RUNNING"} /\ mode' # mode
    /\ UNCHANGED <<buf, own, ask, asks, answered, inputIdle>> /\ UNCHANGED screen

-----------------------------------------------------------------------------
(* Modals: show_modal, _activate_modal, close_modal.                       *)

row == <<mode, buf, own, ask, asks, answered, inputIdle>>

Call(o) ==
    /\ opener[o] = "idle" /\ view # "finished"
    /\ opener' = [opener EXCEPT ![o] = IF view = "live" THEN "queued" ELSE "unseen"]
    /\ UNCHANGED <<modal, modalIdle, alternate, view, editor>> /\ UNCHANGED row

\* view_ready was awaited: the view is on screen again.
Seen(o) ==
    /\ opener[o] = "unseen" /\ view = "live"
    /\ opener' = [opener EXCEPT ![o] = "queued"]
    /\ UNCHANGED <<modal, modalIdle, alternate, view, editor>> /\ UNCHANGED row

\* Mutant: the event is believed without rechecking what was activated since.
MayShow_mut(o) == o \in Patient => inputIdle
\* Rechecked after every wake: only one opener activates, a plugin's dialog waits for approvals too.
MayShow(o) ==
    /\ modalIdle /\ modal = None
    /\ o \in Patient => inputIdle /\ ~Pending
Show(o) ==
    /\ opener[o] = "queued" /\ MayShow(o)
    /\ opener' = [opener EXCEPT ![o] = "open"]
    /\ modal' = o
    /\ modalIdle' = FALSE
    /\ alternate' = IF view = "live" THEN alternate \/ o \in Exclusive ELSE alternate
    /\ UNCHANGED <<view, editor>> /\ UNCHANGED row

\* Mutant: the waiters are not told.
Dismissed_mut == modal' = None /\ UNCHANGED modalIdle
\* The modal's key handler returned a result, or Ctrl-C dismissed it.
Dismissed == modal' = None /\ modalIdle' = TRUE
CloseModal ==
    /\ modal # None /\ view = "live" /\ ~editor.on
    /\ Dismissed
    /\ opener' = [opener EXCEPT ![modal] = "idle"]
    /\ alternate' = (alternate /\ modal \notin Exclusive)
    /\ UNCHANGED <<view, editor>> /\ UNCHANGED row

\* The task that shows the modal is cancelled: queued, it never appears; visible, it is closed.
OpenerCancelled(o) ==
    /\ opener[o] # "idle"
    /\ opener' = [opener EXCEPT ![o] = "idle"]
    /\ IF modal = o THEN Dismissed /\ alternate' = (alternate /\ o \notin Exclusive)
                    ELSE UNCHANGED <<modal, modalIdle, alternate>>
    /\ UNCHANGED <<view, editor>> /\ UNCHANGED row

-----------------------------------------------------------------------------
(* The external editor on the input (Ctrl-G), and the views.               *)

EditorOpens ==
    /\ Typing /\ mode # "DISPATCH"
    /\ editor' = [on |-> TRUE, mode |-> Row]
    /\ UNCHANGED <<opener, modal, modalIdle, alternate, view>> /\ UNCHANGED row

\* _run_input_editor: a changed text goes into the buffer as it is now; a failure changes nothing.
EditorReturns ==
    /\ editor.on
    /\ editor' = NoEditor
    /\ \/ UNCHANGED <<buf, own>>
       \/ /\ buf' = IF Row = editor.mode THEN Row ELSE "foreign"
          /\ own' = IF Row = "draft" THEN buf' ELSE own
    /\ UNCHANGED <<mode, ask, asks, answered, inputIdle, opener, modal, modalIdle, alternate, view>>

\* AgentsFrontend.switch_to and back: the application ends, the projection keeps its state.
Hide ==
    /\ view = "live" /\ ~editor.on
    /\ view' = "hidden" /\ alternate' = FALSE
    /\ UNCHANGED <<opener, modal, modalIdle, editor>> /\ UNCHANGED row
Unhide ==
    /\ view = "hidden"
    /\ view' = "live"
    /\ UNCHANGED <<opener, modal, modalIdle, alternate, editor>> /\ UNCHANGED row

\* Mutant: the prompt is answered with an empty line.
FinishValue_mut == "empty"
\* finish: what still waits for an answer is cancelled, never granted, and the modal is closed.
FinishValue == None
Finish ==
    /\ view # "finished" /\ ~editor.on
    /\ view' = "finished"
    /\ IF ask.at = "open" THEN Resolve("finish", FinishValue) ELSE UNCHANGED <<ask, answered>>
    /\ IF modal # None THEN Dismissed /\ opener' = [opener EXCEPT ![modal] = "idle"] /\ alternate' = FALSE
                       ELSE UNCHANGED <<modal, modalIdle, opener, alternate>>
    /\ UNCHANGED <<mode, buf, own, asks, inputIdle, editor>>

Next ==
    \/ AskFor \/ AskOpens \/ AskReturns \/ AskCancelled \/ CancelInput
    \/ Type \/ Send \/ EnterApproval \/ EscapeApproval \/ RefuseApproval \/ ClearDraft \/ TurnPhase
    \/ \E o \in Openers : Call(o) \/ Seen(o) \/ Show(o) \/ OpenerCancelled(o)
    \/ CloseModal \/ EditorOpens \/ EditorReturns \/ Hide \/ Unhide \/ Finish

(* The loop runs what can run, and asyncio wakes an event's waiters in the *)
(* order they came, so a waiter is not passed over for ever (SF).  The     *)
(* user answers and closes what is on screen, and comes back to a view.    *)
Fairness ==
    /\ SF_vars(AskOpens) /\ WF_vars(AskReturns)
    /\ \A o \in Openers : SF_vars(Show(o)) /\ SF_vars(Seen(o))
    /\ WF_vars(EditorReturns) /\ SF_vars(CloseModal) /\ SF_vars(EnterApproval) /\ WF_vars(Unhide)
Spec == Init /\ [][Next]_vars /\ Fairness

-----------------------------------------------------------------------------
(* Properties.                                                             *)

\* An approval is granted by Enter on its own prompt and by nothing else: not by Ctrl-C, Ctrl-D on
\* an empty line, a cancelled turn or the application ending, each of which must read as a refusal
\* and not as the empty line that confirm() takes for the default approve
\* (ui/tui/app.py:489-503, 1991-1995, 2414-2424).
OnlyEnterGrants == answered.value \in {"empty", "action"} => answered.by = "key"

\* The approval borrows the row: once it is over - answered, cancelled or finished, under a modal or
\* a view switch - the chat row has the user's own draft back, never the approval's text, unless an
\* editor brought one (ui/tui/app.py:529-537).
TheRowIsGivenBack == ~Pending => mode # "APPROVAL" /\ buf = own

\* One modal is visible at a time, it is the one its opener waits on, and a plugin's dialog never
\* covers a decision that is being asked for when it opens (ui/tui/app.py:1369-1376).
OneModalAtATime ==
    /\ \A o \in Openers : opener[o] = "open" <=> modal = o
    /\ (modal = None) = modalIdle
\* "edit the current input in $VISUAL / $EDITOR" (docs/usage.md:200): what was edited for one row is
\* not loaded into the other.
\* Not kept: an approval may open while the editor runs.
EditsReturnToTheirRow == buf # "foreign"
=============================================================================
