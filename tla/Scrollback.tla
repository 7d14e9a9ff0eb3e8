----------------------------- MODULE Scrollback -----------------------------
(***************************************************************************)
(* The projection of one agent's transcript onto the terminal              *)
(* (ui/tui/scrollback.py and the render hooks of ui/tui/app.py).  Writes   *)
(* are printed into a scroll region above the live application; a resize   *)
(* makes the screen unknown and is answered by a purge and a replay.       *)
(*                                                                         *)
(* The terminal is the native history and the rows of the pane.  A cell is *)
(* a whole row: a row of a write, a row of the application, or something   *)
(* nobody can identify any more.  Writes have one or two rows; wrapping at *)
(* the pane's width is left to ScrollbackRegion.physical_rows.             *)
(***************************************************************************)
EXTENDS Integers, Sequences, SequencesExt

CONSTANTS PaneRows,    \* heights the pane may have
          AppRows,     \* heights the live layout may ask for
          MAX_REPLAY,  \* ScrollbackRegion.MAX_REPLAY
          MaxWrites    \* bound on accepted writes

Blank == 0
App == -1
Junk == -2
None == -1

VARIABLES
    term,       \* the terminal: [rows, hist, scr, cur]
    region,     \* ScrollbackRegion: [tail, pending, transcript, size, owed]
    rend,       \* prompt-toolkit's Renderer: [full, last, lastSize, avail]
    cpr,        \* [asked, reported, reserved]: the cursor position report under way
    app,        \* "before", "on", "hidden" (another agent is shown) or "finished"
    winch,      \* a SIGWINCH is not handled yet
    count,      \* writes accepted so far
    flushed,    \* history: the writes printed since the last purge
    garbled     \* history: the screen is unknown since the last purge

vars == <<term, region, rend, cpr, app, winch, count, flushed, garbled>>

Least(a, b) == IF a < b THEN a ELSE b
Most(a, b) == IF a > b THEN a ELSE b

-----------------------------------------------------------------------------
(* The terminal.  Blank rows are not kept in the history.                  *)

Fill(cell, n) == [i \in 1..n |-> cell]
Kept(rows) == SelectSeq(rows, LAMBDA c : c # Blank /\ c # Junk)

\* The rows 1..top scroll up by n: a scroll region that begins at the first row feeds the history.
ScrollUp(t, top, n) ==
    LET k == Least(n, top)
    IN  [t EXCEPT !.hist = @ \o Kept(SubSeq(t.scr, 1, k)),
                  !.scr = SubSeq(t.scr, k + 1, top) \o Fill(Blank, k) \o SubSeq(t.scr, top + 1, t.rows)]
EraseDown(t, row) == [t EXCEPT !.scr = [i \in 1..t.rows |-> IF i >= row THEN Blank ELSE t.scr[i]]]
NewLines(t, n) ==
    [ScrollUp(t, t.rows, Most(0, t.cur + n - t.rows)) EXCEPT !.cur = Least(t.cur + n, t.rows)]

\* Lines printed from row `at` down inside the rows 1..top; `fresh` begins without a line feed.
PutLines(t, top, at, fresh, lines) ==
    LET Put(s, cell) ==
            LET row == IF s.fresh THEN s.row ELSE Least(s.row + 1, top)
                u   == IF s.fresh \/ s.row < top THEN s.t ELSE ScrollUp(s.t, top, 1)
            IN  [t |-> [u EXCEPT !.scr[row] = cell], row |-> row, fresh |-> FALSE]
    IN  FoldLeft(Put, [t |-> t, row |-> at, fresh |-> fresh], lines).t

-----------------------------------------------------------------------------
(* Writes: a sequence of [id, rows].                                       *)

Lines(writes) == FlattenSeq([i \in DOMAIN writes |-> Fill(writes[i].id, writes[i].rows)])
\* physical_rows of a batch of writes.
physical_rows(writes) == Len(Lines(writes))

\* Mutant: the oldest entries are dropped before the new ones are added.
Retain_mut(transcript, writes) ==
    SubSeq(transcript, Most(1, Len(transcript) - MAX_REPLAY + 1), Len(transcript)) \o SubSeq(writes, 2, Len(writes))
\* _retain: the newest MAX_REPLAY writes.
Retain(transcript, writes) ==
    LET all == transcript \o writes IN SubSeq(all, Most(1, Len(all) - MAX_REPLAY + 1), Len(all))

\* app_top_row: rows above the application.
app_top_row(t, r) == t.rows - Most(r.avail, r.last)

\* Mutant: a size that came back is taken for no change at all.
NoteSize_mut(g, rows) == [g EXCEPT !.owed = g.size # 0 /\ g.size # rows, !.size = rows]
\* note_size: the debt is sticky.
NoteSize(g, rows) == [g EXCEPT !.owed = @ \/ (g.size # 0 /\ g.size # rows), !.size = rows]

-----------------------------------------------------------------------------
(* One frame, on s = [t, g, r, c, fl, gb]: the screen update of `render`.  *)

\* prompt-toolkit draws the layout from the cursor down, over all it may use.
Draw(s, h) ==
    LET d    == Least(s.t.rows, Most(Most(s.r.avail, s.r.last), h))
        over == Most(0, s.t.cur + d - 1 - s.t.rows)
        top  == s.t.cur - over
        t    == ScrollUp(s.t, s.t.rows, over)
    IN  [s EXCEPT !.t = [t EXCEPT !.scr = [i \in 1..t.rows |-> IF i < top THEN t.scr[i]
                                             ELSE IF i < top + d THEN App ELSE Blank], !.cur = top],
                  !.r = [@ EXCEPT !.last = d, !.lastSize = s.t.rows]]

\* layout_height: the running command's preview may sit directly below the transcript.
LayoutHeight(s, h, gap) ==
    LET base == Least(s.t.rows, h)
        tail == s.g.tail + physical_rows(s.g.pending)
    IN  base + IF gap /\ s.g.tail # None THEN Most(0, s.t.rows - base - Most(1, tail)) ELSE 0

\* Where the transcript ends, from the row the terminal reported before `height` rows were reserved.
TailFrom(row, height, rows) == Most(0, row - 1 - Most(0, row + height - rows))

\* The first frame of an application: the rows below the cursor are reserved.
Reserve(s, H) ==
    LET t == NewLines(EraseDown(s.t, s.t.cur), H)
    IN  [s EXCEPT !.t = [t EXCEPT !.cur = t.rows - H + 1],
                  !.g.tail = IF s.c.reported = 0 THEN None ELSE TailFrom(s.c.reported, H, t.rows),
                  !.c.reported = 0, !.c.reserved = H,
                  !.r.last = 0, !.r.avail = H]

\* Mutant: a layout that grows draws over the transcript's last rows.
Overlap_mut(tail, room) == 0
\* Rows of the transcript below the place the application grows into.
Overlap(tail, room) == Most(0, tail - room)
\* The layout grew or shrank: growing uses the gap below the tail, then scrolls to protect it.
Regrow(s, H) ==
    LET oldTop == s.t.rows - s.r.last
        tail   == IF s.g.tail = None THEN oldTop ELSE s.g.tail
        shift  == Overlap(tail, s.t.rows - H)
        moves  == shift > 0 /\ oldTop > 0
        t      == IF moves THEN ScrollUp(s.t, oldTop, shift) ELSE s.t
    IN  [s EXCEPT !.t = [EraseDown(t, Most(1, oldTop + 1)) EXCEPT !.cur = t.rows - H + 1],
                  !.g.tail = IF moves THEN tail - shift ELSE @,
                  !.r.last = 0, !.r.avail = H]

\* flush: print what is pending above the application, which stays where it is.
Flush(s) ==
    LET top  == app_top_row(s.t, s.r)
        tail == IF s.g.tail = None THEN top ELSE Least(top, s.g.tail)
    IN  IF s.g.pending = <<>> \/ top <= 0 THEN s
        ELSE [s EXCEPT !.t = PutLines(@, top, Most(1, tail), tail = 0, Lines(s.g.pending)),
                       !.g = [@ EXCEPT !.tail = Least(top, tail + physical_rows(s.g.pending)),
                                       !.transcript = Retain(@, s.g.pending), !.pending = <<>>],
                       !.fl = @ \o s.g.pending]

\* rebuild: purge, replay from the transcript, the application back where it was.
Rebuild(s) ==
    LET anchor  == app_top_row(s.t, s.r)
        kept    == Retain(s.g.transcript, s.g.pending)
        written == Most(anchor, physical_rows(kept))
        all     == Fill(Blank, written - physical_rows(kept)) \o Lines(kept)
        shown   == Least(written, s.t.rows - 1)
        cut     == Len(all) - shown
    IN  [s EXCEPT !.t = [@ EXCEPT !.hist = Kept(SubSeq(all, 1, cut)),
                                  !.scr = SubSeq(all, cut + 1, Len(all)) \o Fill(Blank, s.t.rows - shown),
                                  !.cur = shown + 1],
                  !.g = [@ EXCEPT !.owed = FALSE, !.tail = shown, !.transcript = kept, !.pending = <<>>],
                  !.r = [@ EXCEPT !.last = 0, !.avail = s.t.rows - shown],
                  !.fl = kept, !.gb = FALSE]

\* Mutant: the purge is done under the exclusive viewer, where nobody sees it.
Settle_mut(s, h, gap) == IF s.g.owed THEN [s EXCEPT !.g.owed = FALSE] ELSE IF s.r.full THEN s ELSE Flush(s)
\* After drawing: nothing on the alternate screen, the debt first, else the pending writes.
Settle(s, h, gap) ==
    IF s.r.full THEN s
    ELSE IF s.g.owed
         THEN LET b == Rebuild(s)
                  d == Draw(b, LayoutHeight(b, h, gap))
              IN  [d EXCEPT !.g.tail = Least(@, app_top_row(d.t, d.r))]
         ELSE Flush(s)

\* render: measure, make room, draw, settle.  The alternate screen does not touch the primary one.
Frame(s, h, gap) ==
    LET n == [s EXCEPT !.g = NoteSize(@, s.t.rows)]
        H == LayoutHeight(n, h, gap)
        p == IF n.r.last = 0 THEN Reserve(n, H) ELSE IF H # n.r.last THEN Regrow(n, H) ELSE n
    IN  IF s.r.full THEN Settle([n EXCEPT !.r = [@ EXCEPT !.last = s.t.rows, !.lastSize = s.t.rows]], h, gap)
        ELSE Settle(Draw(p, H), h, gap)

Now == [t |-> term, g |-> region, r |-> rend, c |-> cpr, fl |-> flushed, gb |-> garbled]
Present(s) ==
    /\ term' = IF s.gb THEN [s.t EXCEPT !.hist = <<>>, !.scr = Fill(Junk, s.t.rows)] ELSE s.t
    /\ region' = s.g /\ rend' = s.r /\ cpr' = s.c /\ flushed' = s.fl /\ garbled' = s.gb

Render(h, gap) ==
    /\ app = "on"
    /\ Present(Frame(Now, h, gap))
    /\ UNCHANGED <<app, winch, count>>

-----------------------------------------------------------------------------
(* The application: start, resize, alternate screen, end.                  *)

Fresh(full) == [full |-> full, last |-> 0, lastSize |-> 0, avail |-> IF full THEN term.rows ELSE 0]
Asked(row) == [asked |-> row, reported |-> 0, reserved |-> cpr.reserved]

\* run: the renderer is reset and asks where the cursor is.  Back from another agent's view, the
\* region owes a replay (AgentsFrontend.run_application).
Start ==
    /\ app \in {"before", "hidden"}
    /\ app' = "on"
    /\ rend' = Fresh(FALSE) /\ cpr' = Asked(term.cur)
    /\ region' = [region EXCEPT !.owed = @ \/ app = "hidden"]
    /\ UNCHANGED <<term, winch, count, flushed, garbled>>

\* remember_tail: the terminal's answer, before or after the first frame.
CprAnswer ==
    /\ app = "on" /\ cpr.asked # 0
    /\ cpr' = [cpr EXCEPT !.asked = 0, !.reported = IF rend.last = 0 THEN cpr.asked ELSE @]
    /\ region' = IF cpr'.reported = 0 /\ region.tail = None
                 THEN [region EXCEPT !.tail = TailFrom(cpr.asked, cpr.reserved, term.rows)]
                 ELSE region
    /\ UNCHANGED <<term, rend, app, winch, count, flushed, garbled>>

\* The terminal or the multiplexer reflows: where anything is, is unknown.  The same height may
\* come back before the signal is handled.
Resize ==
    /\ app = "on" /\ ~winch
    /\ \E rows \in PaneRows : \E cur \in {1, rows} :
         term' = [rows |-> rows, hist |-> <<>>, scr |-> Fill(Junk, rows), cur |-> cur]
    /\ garbled' = TRUE /\ winch' = TRUE /\ flushed' = <<>>
    /\ UNCHANGED <<region, rend, cpr, app, count>>

\* Mutant: a resize that ends at the old size needs nothing.
Reanchored_mut(g) == IF rend.lastSize = term.rows THEN g ELSE [g EXCEPT !.owed = TRUE]
\* reanchor: the signal reports a transition, not a size.
Reanchored(g) == [g EXCEPT !.owed = TRUE]
\* on_resize, and the frame it redraws.
OnResize(h, gap) ==
    /\ app = "on" /\ winch
    /\ LET g      == Reanchored(region)
           height == Least(rend.last, term.rows)
           erased == [EraseDown(term, term.rows - height + 1) EXCEPT !.cur = term.rows - height + 1]
           same   == rend.last # 0 /\ rend.lastSize = term.rows
           stock  == rend.last = 0 \/ rend.full
       IN  Present(Frame(
             IF same THEN [Now EXCEPT !.g = g]
             ELSE IF stock THEN [Now EXCEPT !.g = g, !.r = Fresh(rend.full), !.c = IF rend.full THEN cpr ELSE Asked(term.cur)]
             ELSE [Now EXCEPT !.g = g, !.t = erased, !.r = [Fresh(FALSE) EXCEPT !.avail = height]], h, gap))
    /\ winch' = FALSE
    /\ UNCHANGED <<app, count>>

\* The application's rows go, the cursor stays at its first row.
Erased == IF rend.full \/ rend.last = 0 THEN term ELSE EraseDown(term, Most(1, term.cur))

\* _use_alternate_screen, for the exclusive viewer.
EnterViewer ==
    /\ app = "on" /\ ~rend.full
    /\ term' = Erased /\ rend' = Fresh(TRUE)
    /\ UNCHANGED <<region, cpr, app, winch, count, flushed, garbled>>
LeaveViewer ==
    /\ app = "on" /\ rend.full
    /\ rend' = Fresh(FALSE) /\ cpr' = Asked(term.cur)
    /\ UNCHANGED <<term, region, app, winch, count, flushed, garbled>>

\* recolor: the theme or the record format changed.
Recolor ==
    /\ app = "on" /\ ~region.owed
    /\ region' = [region EXCEPT !.owed = TRUE]
    /\ UNCHANGED <<term, rend, cpr, app, winch, count, flushed, garbled>>

\* Another agent's application takes the terminal (managed), and leaves its own rows there.
Hide ==
    /\ app = "on"
    /\ app' = "hidden" /\ garbled' = TRUE /\ winch' = FALSE /\ flushed' = <<>>
    /\ \E cur \in {1, term.rows} : term' = [term EXCEPT !.hist = <<>>, !.scr = Fill(Junk, term.rows), !.cur = cur]
    /\ rend' = Fresh(FALSE) /\ cpr' = Asked(0)
    /\ UNCHANGED <<region, count>>

-----------------------------------------------------------------------------
(* Writes.                                                                 *)

\* write_direct: no live application; printed where the cursor is.
Direct(t, writes) ==
    LET PutLine(u, cell) == NewLines([u EXCEPT !.scr[u.cur] = cell], 1)
    IN  FoldLeft(PutLine, t, Lines(writes))

\* record_scrollback.
Record ==
    /\ count < MaxWrites /\ app # "finished"
    /\ \E n \in 1..2 : LET w == [id |-> count + 1, rows |-> n] IN
         IF app = "before"
         THEN /\ term' = Direct(term, <<w>>)
              /\ region' = [region EXCEPT !.transcript = Retain(@, <<w>>)]
              /\ flushed' = Append(flushed, w)
         ELSE region' = [region EXCEPT !.pending = Append(@, w)] /\ UNCHANGED <<term, flushed>>
    /\ count' = count + 1
    /\ UNCHANGED <<rend, cpr, app, winch, garbled>>

\* Mutant: what no frame ever flushed is left behind.
Drained_mut(writes) == <<>>
Drained(writes) == writes
\* The application ends on the primary screen (erase_when_done); finish drains what no frame flushed.
Finish ==
    /\ app = "on"
    /\ app' = "finished" /\ winch' = FALSE
    /\ LET rest == Drained(region.pending) IN
         /\ term' = IF garbled THEN term ELSE Direct(Erased, rest)
         /\ region' = [region EXCEPT !.pending = <<>>, !.transcript = Retain(@, rest)]
         /\ flushed' = flushed \o rest
    /\ rend' = Fresh(FALSE) /\ cpr' = Asked(0)
    /\ UNCHANGED <<count, garbled>>

\* A shell's prompt somewhere in the pane.
Init ==
    /\ \E rows \in PaneRows : \E cur \in {1, rows - 1} :
         term = [rows |-> rows, hist |-> <<>>, scr |-> Fill(Blank, rows), cur |-> cur]
    /\ region = [tail |-> None, pending |-> <<>>, transcript |-> <<>>, size |-> 0, owed |-> FALSE]
    /\ rend = [full |-> FALSE, last |-> 0, lastSize |-> 0, avail |-> 0]
    /\ cpr = [asked |-> 0, reported |-> 0, reserved |-> 0]
    /\ app = "before" /\ winch = FALSE
    /\ count = 0 /\ flushed = <<>> /\ garbled = FALSE

Next ==
    \/ \E h \in AppRows, gap \in BOOLEAN : Render(h, gap) \/ OnResize(h, gap)
    \/ Start \/ CprAnswer \/ Resize \/ EnterViewer \/ LeaveViewer \/ Recolor \/ Hide
    \/ Record \/ Finish

Spec == Init /\ [][Next]_vars

-----------------------------------------------------------------------------
(* Properties.                                                             *)

Screen == term.hist \o Kept(term.scr)

\* The terminal holds the rows of every printed write, whole, once and in order, and no row of the
\* live application is ever left in the history - across growing and shrinking layouts, the
\* viewer's alternate screen, late cursor reports and replays (ui/tui/scrollback.py:1-33).
TheScreenIsTheTranscript ==
    ~garbled => SelectSeq(Screen, LAMBDA c : c # App) = Lines(flushed) /\ ~(\E i \in DOMAIN term.hist : term.hist[i] = App)

\* A screen that is unknown is owed a replay until it had one, whatever the sizes and the signals
\* do meanwhile (ui/tui/scrollback.py:171-197, ui/tui/app.py:2245-2253).
UnknownScreensAreOwed == garbled /\ app = "on" => winch \/ region.owed \/ region.size # term.rows

\* No accepted write is lost before it is printed: what is retained and what is pending are the
\* last writes accepted, in order, and nothing is pending after the end (ui/tui/scrollback.py:148-169).
WritesAreKept ==
    LET all == region.transcript \o region.pending
    IN  /\ \A i \in DOMAIN all : all[i].id = count - Len(all) + i
        /\ Len(all) >= Least(count, MAX_REPLAY)
        /\ app = "finished" => region.pending = <<>>
=============================================================================
