----------------------------- MODULE FileEdits -----------------------------
(***************************************************************************)
(* Edits of one file: the batch planner of wizolt/tools/editplan.py, the   *)
(* target resolution of wizolt/tools/files.py and wizolt/source, and the   *)
(* path lock, with several agents of one process and a world outside that  *)
(* changes the file at any moment (Bash, an editor, another process).      *)
(*                                                                         *)
(* A line is a text and an identity.  The code sees texts only; identities *)
(* exist so that properties can say which line an edit took.  A view shows *)
(* one range of lines.  Trailing newlines, receipts and the diff shown for *)
(* approval are left out; a receipt's fresh view is a Read.  A file that   *)
(* is missing and one that is empty are the same file.                     *)
(***************************************************************************)
EXTENDS Integers, Sequences, FiniteSets

CONSTANTS Agents, LineTexts,
          FilesAtStart,    \* sequences of texts the file may hold at first
          NewLines,        \* sequences of texts an edit may write; <<>> deletes
          ReadRanges,      \* pairs of lines an agent may ask to see
          Targets,         \* pairs of lines an edit may name
          MaxDrift,        \* MAX_VIEW_DRIFT
          MaxViews, MaxBatches, MaxCalls,   \* bounds of each agent
          MaxLines, MaxEdits, MaxOutside

ASSUME EditConstants ==
    /\ FilesAtStart \subseteq Seq(LineTexts) /\ NewLines \subseteq Seq(LineTexts)
    /\ ReadRanges \subseteq (Nat \ {0}) \X Nat /\ Targets \subseteq (Nat \ {0}) \X Nat
    /\ MaxDrift \in Nat

VARIABLES file,     \* what is on disk
          views,    \* source views each agent's session holds
          pc,       \* where each agent's batch is
          draft,     \* the FileState of the batch being planned
          planned,  \* planned edits that wait for approval and execution
          seen,     \* changes from outside when the running transaction checked the file
          outside,  \* changes from outside so far
          batches,  \* batches each agent has begun
          stamp     \* makes the identities of new lines distinct

editVars == <<file, views, pc, draft, planned, seen, outside, batches, stamp>>

Lines(s) == [i \in 1 .. Len(s) |-> s[i].text]
Ids(s) == [i \in 1 .. Len(s) |-> s[i].id]
Splice(s, at, n, new) == SubSeq(s, 1, at - 1) \o new \o SubSeq(s, at + n, Len(s))

-----------------------------------------------------------------------------
(* Source views (source/view.py) and matching (source/relocate.py).        *)

ViewEnd(v) == v.first + Len(v.lines) - 1
Visible(v, from, to) == v.first <= from /\ from <= to /\ to <= ViewEnd(v)
Shown(v, from, to) == SubSeq(v.lines, from - v.first + 1, to - v.first + 1)
Above(v, from) == Lines(Shown(v, IF from - 2 < v.first THEN v.first ELSE from - 2, from - 1))
Below(v, to) == Lines(Shown(v, to + 1, IF to + 2 > ViewEnd(v) THEN ViewEnd(v) ELSE to + 2))

SamePosition(lines, at, target) ==
    \A k \in 1 .. Len(target) : at + k - 1 \in 1 .. Len(lines) /\ lines[at + k - 1] = target[k]

ContextMatches(lines, at, target, above, below) ==
    /\ at > Len(above)
    /\ SamePosition(lines, at - Len(above), above)
    /\ SamePosition(lines, at + Len(target), below)

Candidates(lines, near, target) ==
    {at \in 1 .. Len(lines) - Len(target) + 1 :
        at - near \in -MaxDrift .. MaxDrift /\ SamePosition(lines, at, target)}

\* Mutant: among several copies the nearest is as good as found.
RelocateNearest(lines, near, target, above, below) ==
    LET all == Candidates(lines, near, target)
    IN IF all = {} THEN 0
       ELSE CHOOSE at \in all : \A i \in all : (at - near) * (at - near) <= (i - near) * (i - near)

\* 0 when the target is not in the window or cannot be told from its copies.
RelocateTarget(lines, near, target, above, below) ==
    LET all == Candidates(lines, near, target)
        beside == IF Cardinality(all) > 1 /\ (above # <<>> \/ below # <<>>)
                    THEN {at \in all : ContextMatches(lines, at, target, above, below)}
                    ELSE all
    IN IF Cardinality(beside) = 1 THEN CHOOSE at \in beside : TRUE ELSE 0

\* start is the position the batch gives the target, or 0 when it gives none.
LocateRange(lines, v, from, to, start) ==
    LET target == Lines(Shown(v, from, to))
        at == IF start = 0 THEN from ELSE start
    IN IF SamePosition(lines, at, target)
          /\ (start # 0 \/ ContextMatches(lines, at, target, Above(v, from), Below(v, to)))
         THEN at
         ELSE RelocateTarget(lines, at, target, Above(v, from), Below(v, to))

-----------------------------------------------------------------------------
(* The planned file of one batch.  A planned line carries its origin, a    *)
(* view and a line of it; <<>> is a line the batch wrote.  base = 0 stands *)
(* for no base view.                                                       *)

NoPlan == [opened |-> FALSE, base |-> 0, original |-> <<>>, lines |-> <<>>,
           consumed |-> {}, edited |-> FALSE, evidence |-> "", calls |-> 0]

FileState(st, key) ==
    IF st.opened THEN st
    ELSE [st EXCEPT !.opened = TRUE,
                    !.base = key,
                    !.lines = [i \in 1 .. Len(st.original) |->
                        [text |-> st.original[i].text, id |-> st.original[i].id, origin |-> <<key, i>>]]]

OriginKey(st, v, n) ==
    IF /\ st.base # 0 /\ st.base # v.key
       /\ n <= Len(st.original)
       /\ Shown(v, n, n)[1].text = st.original[n].text
      THEN <<st.base, n>> ELSE <<v.key, n>>

\* Mutant: consumed origins are not remembered.
StartAnywhere(st, v, from, to) ==
    LET origin == [n \in from .. to |-> OriginKey(st, v, n)]
        places(n) == {i \in 1 .. Len(st.lines) : st.lines[i].origin = origin[n]}
    IN IF ~st.edited \/ \E n \in from .. to : places(n) = {} THEN 0
       ELSE CHOOSE i \in places(from) : \A j \in places(from) : i <= j

\* A refusal (-1), a position, or 0: the batch has none to offer.
PlannedStart(st, v, from, to) ==
    LET origin == [n \in from .. to |-> OriginKey(st, v, n)]
        places(n) == {i \in 1 .. Len(st.lines) : st.lines[i].origin = origin[n]}
        place(n) == CHOOSE i \in places(n) : \A j \in places(n) : i <= j
    IN IF \E n \in from .. to : origin[n] \in st.consumed THEN -1
       ELSE IF ~st.edited \/ (\E n \in from .. to : places(n) = {}) THEN 0
       ELSE IF \E n \in from .. to : place(n) # place(from) + (n - from) THEN -1
       ELSE place(from)

\* Where a call's target lies in the planned file; 0 or less is a refusal.
Located(st, v, from, to) ==
    IF ~Visible(v, from, to) THEN 0
    ELSE LET start == PlannedStart(st, v, from, to)
         IN IF start < 0 THEN start ELSE LocateRange(Lines(st.lines), v, from, to, start)

\* Direct mode: the one place whose lines are `old`, 0 when there is none or several.
DirectTarget(st, old) ==
    LET all == {at \in 1 .. Len(st.lines) - Len(old) + 1 : SamePosition(Lines(st.lines), at, old)}
    IN IF Cardinality(all) = 1 THEN CHOOSE at \in all : TRUE ELSE 0

\* A call's resolved replacements: each edit with the place and length of its target.
Overlap(rs) == \E r, s \in rs : r # s /\ r.at <= s.at /\ s.at < r.at + r.len

Replacement(r, stampOf) ==
    [i \in 1 .. Len(r.content) |-> [text |-> r.content[i], id |-> <<stampOf, r.at, i>>, origin |-> <<>>]]

\* The replacement that begins at a place, if there is one.
SpliceAt(lines, at, rs, stampOf) ==
    LET here == {r \in rs : r.at = at}
        r == CHOOSE s \in here : TRUE
    IN IF here = {} THEN lines ELSE Splice(lines, at, r.len, Replacement(r, stampOf))

\* splice_lines: from the last place to the first, so that places stay valid.
Spliced(lines, rs, stampOf) ==
    LET done[n \in 0 .. Len(lines) + 1] ==
            IF n = 0 THEN lines ELSE SpliceAt(done[n - 1], Len(lines) + 2 - n, rs, stampOf)
    IN done

SpliceLines(lines, rs, stampOf) == Spliced(lines, rs, stampOf)[Len(lines) + 1]

Taken(st, rs) == {st.lines[i].origin : i \in UNION {r.at .. r.at + r.len - 1 : r \in rs}} \ {<<>>}
Bare(lines) == [i \in 1 .. Len(lines) |-> [text |-> lines[i].text, id |-> lines[i].id]]

-----------------------------------------------------------------------------
(* Agents and the world.  Snapshots, reads and transactions hold the path  *)
(* lock on a worker; a transaction checks, truncates and fills.            *)

EditsInit ==
    /\ \E s \in FilesAtStart : file = [i \in 1 .. Len(s) |-> [text |-> s[i], id |-> <<0, i, 1>>]]
    /\ views = [a \in Agents |-> <<>>]
    /\ pc = [a \in Agents |-> "idle"]
    /\ draft = [a \in Agents |-> NoPlan]
    /\ planned = [a \in Agents |-> <<>>]
    /\ seen = [a \in Agents |-> 0]
    /\ outside = 0 /\ stamp = 1
    /\ batches = [a \in Agents |-> 0]

\* Mutant: only transactions exclude each other until they write.
LockGuardsChecks == \A a \in Agents : pc[a] # "checked"

LockIsFree == \A a \in Agents : pc[a] \notin {"checked", "filling"}

\* A Read, or the fresh view of a receipt: lines from .. to, clamped to the file.
Read(a, from, to) ==
    /\ pc[a] = "idle" /\ LockIsFree
    /\ Len(views[a]) < MaxViews[a] /\ batches[a] < MaxBatches[a]
    /\ from <= Len(file)
    /\ views' = [views EXCEPT ![a] = Append(@, [key |-> Len(@) + 1, first |-> from,
                    lines |-> SubSeq(file, from, IF to > Len(file) THEN Len(file) ELSE to)])]
    /\ UNCHANGED <<file, pc, draft, planned, seen, outside, batches, stamp>>

\* EditBatchPlan.build begins: the snapshot every call of the batch is planned against.
Begin(a) ==
    /\ pc[a] = "idle" /\ batches[a] < MaxBatches[a] /\ LockIsFree
    /\ pc' = [pc EXCEPT ![a] = "planning"]
    /\ draft' = [draft EXCEPT ![a] = [NoPlan EXCEPT !.original = file]]
    /\ batches' = [batches EXCEPT ![a] = @ + 1]
    /\ UNCHANGED <<file, views, planned, seen, outside, stamp>>

\* A refused call leaves its base view behind.
Refuse(a, st) ==
    /\ draft' = [draft EXCEPT ![a] = [st EXCEPT !.calls = @ + 1]]
    /\ UNCHANGED <<planned, stamp>>

\* plan_call: a call that changes nothing, or another kind of evidence than before, is refused too.
PlanCall(a, st, rs, mode) ==
    LET lines == SpliceLines(st.lines, rs, stamp)
    IN IF Lines(lines) = Lines(st.lines) \/ st.evidence \notin {"", mode}
         THEN Refuse(a, st)
         ELSE /\ Len(lines) <= MaxLines
              /\ draft' = [draft EXCEPT ![a] =
                    [st EXCEPT !.lines = lines, !.consumed = @ \cup Taken(st, rs),
                               !.edited = TRUE, !.evidence = mode, !.calls = @ + 1]]
              /\ planned' = [planned EXCEPT ![a] = Append(@, [before |-> Bare(st.lines), after |-> Bare(lines)])]
              /\ stamp' = stamp + 1

Planning(a) ==
    /\ pc[a] = "planning" /\ draft[a].calls < MaxCalls[a]
    /\ UNCHANGED <<file, views, pc, seen, outside, batches>>

\* A source-view call: every edit is located in the same planned lines.
PlanView(a, v, edits) ==
    /\ Planning(a)
    /\ LET st == FileState(draft[a], v.key)
           rs == {[edit |-> e, at |-> Located(st, v, e.from, e.to), len |-> e.to - e.from + 1,
                   content |-> e.content] : e \in edits}
       IN IF Overlap(rs) \/ \E r \in rs : r.at < 1 THEN Refuse(a, st) ELSE PlanCall(a, st, rs, "view")

\* A direct call of one edit: `old` must occur exactly once in the planned file.
PlanDirect(a, old, content) ==
    /\ Planning(a)
    /\ LET st == FileState(draft[a], 0)
           at == DirectTarget(st, old)
       IN IF at = 0 THEN Refuse(a, st)
          ELSE PlanCall(a, st, {[at |-> at, len |-> Len(old), content |-> content]}, "direct")

\* A create call: the file is missing or empty, on disk or in the plan.
PlanCreate(a, content) ==
    /\ Planning(a) /\ content # <<>>
    /\ LET st == IF draft[a].original = <<>> THEN FileState(draft[a], 0) ELSE draft[a]
       IN IF st.opened /\ st.lines = <<>>
            THEN PlanCall(a, st, {[at |-> 1, len |-> 0, content |-> content]}, st.evidence)
            ELSE Refuse(a, st)

\* build returns: the calls of the batch are approved and executed one by one.
Review(a) ==
    /\ pc[a] = "planning" /\ draft[a].calls > 0
    /\ pc' = [pc EXCEPT ![a] = IF planned[a] = <<>> THEN "idle" ELSE "approval"]
    /\ draft' = [draft EXCEPT ![a] = NoPlan]
    /\ UNCHANGED <<file, views, planned, seen, outside, batches, stamp>>

\* The turn is cancelled: the rest of the batch is dropped, a transaction that has begun ends.
Cancel(a) ==
    /\ pc[a] # "idle"
    /\ LET writing == pc[a] \in {"checked", "filling"}
       IN /\ pc' = [pc EXCEPT ![a] = IF writing THEN @ ELSE "idle"]
          /\ planned' = [planned EXCEPT ![a] = IF writing THEN <<Head(@)>> ELSE <<>>]
    /\ draft' = [draft EXCEPT ![a] = NoPlan]
    /\ UNCHANGED <<file, views, seen, outside, batches, stamp>>

\* A planned edit is done with; the next one of the segment asks for approval.
Finish(a) ==
    /\ planned' = [planned EXCEPT ![a] = Tail(@)]
    /\ pc' = [pc EXCEPT ![a] = IF Len(planned[a]) = 1 THEN "idle" ELSE "approval"]

\* The user declines one edit.  Its segment goes on: an edit of the same file, planned on
\* top of the declined one, is stale by then.
Decline(a) ==
    /\ pc[a] = "approval"
    /\ Finish(a)
    /\ UNCHANGED <<file, views, draft, seen, outside, batches, stamp>>

\* Mutant: the approved edit is written without another look at the file.
CheckNothing(a) ==
    /\ pc[a] = "approval" /\ LockIsFree
    /\ pc' = [pc EXCEPT ![a] = "checked"]
    /\ seen' = [seen EXCEPT ![a] = outside]
    /\ UNCHANGED <<file, views, draft, planned, outside, batches, stamp>>

\* PlannedEdit.transact takes the lock and compares; a stale edit fails and the batch goes on.
Check(a) ==
    /\ pc[a] = "approval" /\ LockIsFree
    /\ IF Lines(file) = Lines(Head(planned[a]).before)
         THEN /\ pc' = [pc EXCEPT ![a] = "checked"]
              /\ seen' = [seen EXCEPT ![a] = outside]
              /\ UNCHANGED planned
         ELSE Finish(a) /\ UNCHANGED seen
    /\ UNCHANGED <<file, views, draft, outside, batches, stamp>>

\* open(path, "w") leaves an empty file ...
Truncate(a) ==
    /\ pc[a] = "checked"
    /\ file' = <<>>
    /\ pc' = [pc EXCEPT ![a] = "filling"]
    /\ UNCHANGED <<views, draft, planned, seen, outside, batches, stamp>>

\* ... until the text is written and the lock released.
Fill(a) ==
    /\ pc[a] = "filling"
    /\ file' = Head(planned[a]).after
    /\ Finish(a)
    /\ seen' = [seen EXCEPT ![a] = 0]
    /\ UNCHANGED <<views, draft, outside, batches, stamp>>

\* Something that takes no path lock inserts or removes a line.
Outside ==
    /\ outside < MaxOutside
    /\ \/ \E t \in LineTexts, at \in 1 .. Len(file) + 1 :
            Len(file) < MaxLines /\ file' = Splice(file, at, 0, <<[text |-> t, id |-> <<stamp, at, 1>>]>>)
       \/ \E at \in 1 .. Len(file) : file' = Splice(file, at, 1, <<>>)
    /\ outside' = outside + 1 /\ stamp' = stamp + 1
    /\ UNCHANGED <<views, pc, draft, planned, seen, batches>>

EditSets ==
    LET Edit == {[from |-> t[1], to |-> t[2], content |-> c] : t \in Targets, c \in NewLines}
    IN {edits \in SUBSET Edit : Cardinality(edits) \in 1 .. MaxEdits}

EditsNext ==
    \/ \E a \in Agents :
        \/ \E r \in ReadRanges : Read(a, r[1], r[2])
        \/ \E i \in DOMAIN views[a], edits \in EditSets : PlanView(a, views[a][i], edits)
        \/ \E old, c \in NewLines : old # <<>> /\ PlanDirect(a, old, c)
        \/ \E c \in NewLines : PlanCreate(a, c)
        \/ Begin(a) \/ Review(a) \/ Decline(a) \/ Cancel(a) \/ Check(a) \/ Truncate(a) \/ Fill(a)
    \/ Outside

EditsSpec == EditsInit /\ [][EditsNext]_editVars

-----------------------------------------------------------------------------
(* Properties.                                                             *)

\* Whether every line a view shows is where the batch's snapshot has it.
Fresh(v, original) ==
    \A n \in v.first .. ViewEnd(v) : n <= Len(original) /\ Shown(v, n, n)[1] = original[n]

Views(a) == {views[a][i] : i \in DOMAIN views[a]}

\* planned_start: a batch's call through a view the file still matches takes exactly the lines the
\* view showed, wherever earlier calls of the batch, through whatever views, have moved them, or it is
\* refused; it never takes a copy of a line an earlier call consumed.  (Once the batch has a base view: a
\* refused direct call leaves it without one, see BatchAgreesWithSingle.)
FreshTargetsAreExact ==
    \A a \in Agents : pc[a] = "planning" =>
        \A v \in Views(a) : Fresh(v, draft[a].original) =>
            \A from, to \in v.first .. ViewEnd(v) :
                LET st == FileState(draft[a], v.key)
                    at == Located(st, v, from, to)
                IN from <= to /\ at > 0 /\ (st.base # 0 \/ ~st.edited) =>
                    Ids(SubSeq(st.lines, at, at + to - from)) = Ids(Shown(v, from, to))

\* locate_range and relocate_target: until its batch has edited the file, a target is accepted only
\* where the evidence is best.  A copy in the window whose neighbours fit as well is a reason to refuse
\* every place but the view's own, and a place whose neighbours do not fit is taken only without a copy.
BestEvidence ==
    \A a \in Agents : pc[a] = "planning" /\ ~draft[a].edited =>
        \A v \in Views(a), from, to \in 1 .. MaxLines : Visible(v, from, to) =>
            LET st == FileState(draft[a], v.key)
                lines == Lines(st.lines)
                target == Lines(Shown(v, from, to))
                at == Located(st, v, from, to)
                copies == Candidates(lines, from, target) \ {at}
                fits(i) == ContextMatches(lines, i, target, Above(v, from), Below(v, to))
            IN at > 0 =>
                /\ SamePosition(lines, at, target)
                /\ copies # {} => fits(at)
                /\ (\E i \in copies : fits(i)) => at = from

\* A view's target is the line the same call would take alone, or the call is refused: an earlier call
\* of the batch may move the target, and does not turn a guess into evidence (DESIGN.md: changed or
\* ambiguously moved targets stay refused).
BatchAgreesWithSingle ==
    \A a \in Agents : pc[a] = "planning" =>
        \A v \in Views(a), from, to \in 1 .. MaxLines : Visible(v, from, to) =>
            LET st == FileState(draft[a], v.key)
                alone == LocateRange(Lines(st.original), v, from, to, 0)
                at == Located(st, v, from, to)
            IN alone > 0 /\ at > 0 =>
                Ids(SubSeq(st.lines, at, at + to - from)) = Ids(SubSeq(st.original, alone, alone + to - from))

\* PlannedEdit.transact: an edit replaces the very text it was planned on and approved against.  Nothing
\* another agent wrote since is lost; only a change from outside, after the check, can be.
NoLostUpdate ==
    [][\A a \in Agents : pc[a] = "checked" /\ pc'[a] = "filling" =>
            Lines(file) = Lines(Head(planned[a]).before) \/ outside # seen[a]]_editVars

\* path_lock: a view or a batch's snapshot is never taken from a file that a transaction has truncated
\* and not yet filled.
HalfWrittenIsUnseen ==
    [][(\E b \in Agents : views'[b] # views[b] \/ batches'[b] # batches[b])
            => \A a \in Agents : pc[a] # "filling"]_editVars

\* Targets of views and of guesses are the lines the model meant, or are refused (tools/editplan.py,
\* planned_start and locate_range).
TargetsAreExact == FreshTargetsAreExact /\ BestEvidence

\* The transaction under path_lock, from both sides: writers lose nothing, readers see no half
\* (tools/editplan.py, PlannedEdit.transact).
WritesAreWhole == NoLostUpdate /\ HalfWrittenIsUnseen

=============================================================================
