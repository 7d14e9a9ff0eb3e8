---------------------------- MODULE SnapshotLog ----------------------------
(***************************************************************************)
(* The append-only session log of wizolt/session/store.py and the delta    *)
(* codec of wizolt/session/codec.py, for one session and its one writer.   *)
(*                                                                         *)
(* A save freezes a plan while the session goes on changing, executes it   *)
(* on a worker (header, tail repair, blob lines and record line), and      *)
(* installs the plan's markers afterwards.  An append may stop at any      *)
(* byte, the process may die between any two steps.  What the log says is  *)
(* its complete lines merged in order: since nothing but an incomplete     *)
(* last line is ever removed, they are kept merged in disk.merged.         *)
(*                                                                         *)
(* A digest is its own argument: SHA-256 is taken to be injective.         *)
(***************************************************************************)
EXTENDS Naturals, Sequences, SequencesExt

CONSTANTS Messages,        \* contents a turn may say
          Summary,         \* the checkpoint message a compaction leaves
          Resumed,         \* the <session_event type="resumed"> message
          Texts,           \* texts of compacted segments; each is one blob
          TornKinds,       \* where an append may stop: "cut" inside the JSON text,
                           \* "split" inside a multi-byte character, "whole" after
                           \* the text and before its newline
          MaxHistory,      \* retained segments (50 in the code)
          MaxMessages,     \* bound: messages said, and messages saved before a crash
          MaxCompactions,  \* bound: segments ever made
          None             \* no marker, snapshot, plan or torn tail

ASSUME RetentionIsPositive == MaxHistory \in Nat \ {0}

ASSUME BoundsAreNatural == MaxMessages \in Nat /\ MaxCompactions \in Nat

ASSUME TornKindsAreKnown == TornKinds \subseteq {"cut", "split", "whole"}

VARIABLES live,    \* the Session in memory
          marker,  \* _snapshot_saved: what the next delta is computed against
          blobs,   \* _blobs_written
          plan,    \* the SnapshotWritePlan in flight: the save gate is held
          stage,   \* what the plan's worker does next
          disk,    \* the log file
          up       \* the process is alive

vars == <<live, marker, blobs, plan, stage, disk, up>>

Contents == Messages \cup {Summary, Resumed}

Segment == [key : Nat, text : Texts]

\* turn and said are the turn in flight, for the model and for the transcript.
Session == [messages : Seq(Contents), turn : Seq(Contents),
            transcript : Seq(Contents), said : Seq(Contents), history : Seq(Segment)]

Snapshot == [messages : Seq(Contents), transcript : Seq(Contents),
             said : Seq(Contents), history : Seq(Segment)]

EmptySession ==
  [messages |-> << >>, turn |-> << >>, transcript |-> << >>, said |-> << >>, history |-> << >>]

\* snapshot_messages: the turn in flight rides behind the durable messages.
Captured(s) ==
  [messages |-> s.messages \o s.turn, transcript |-> s.transcript, said |-> s.said, history |-> s.history]

Keys(history) == [i \in 1..Len(history) |-> history[i].key]

TextsOf(history) == {history[i].text : i \in DOMAIN history}

NextKey(history) == IF history = << >> THEN 1 ELSE history[Len(history)].key + 1

Suffix(seq, len) == SubSeq(seq, len + 1, Len(seq))

LastN(seq, n) == IF Len(seq) > n THEN Suffix(seq, Len(seq) - n) ELSE seq

-----------------------------------------------------------------------------
(* The codec.                                                              *)

\* Messages and the turn by digest, segments by their keys, the transcript, which
\* is never rewritten, by its length and last entry alone.
MarkerOf(snap) ==
  [messages |-> snap.messages, said |-> snap.said, history |-> Keys(snap.history),
   length |-> Len(snap.transcript),
   tail |-> IF snap.transcript = << >> THEN None ELSE snap.transcript[Len(snap.transcript)]]

Keep == [op |-> "keep", value |-> << >>]
Add(value) == [op |-> "append", value |-> value]
Replace(value) == [op |-> "replace", value |-> value]

\* A sequence whose saved prefix is intact is appended to, any other replaced.
SequenceDelta(current, ids, saved) ==
  IF Len(ids) >= Len(saved) /\ SubSeq(ids, 1, Len(saved)) = saved
  THEN IF Len(ids) > Len(saved) THEN Add(Suffix(current, Len(saved))) ELSE Keep
  ELSE Replace(current)

AppendOnlyDelta(current, length, tail) ==
  IF Len(current) >= length /\ (length = 0 \/ current[length] = tail)
  THEN IF Len(current) > length THEN Add(Suffix(current, length)) ELSE Keep
  ELSE Replace(current)

\* The first record is the whole snapshot.
Full(snap) ==
  [messages |-> Add(snap.messages), transcript |-> Add(snap.transcript),
   said |-> Add(snap.said), history |-> Add(snap.history)]

Delta(snap, saved) ==
  [messages   |-> SequenceDelta(snap.messages, snap.messages, saved.messages),
   transcript |-> AppendOnlyDelta(snap.transcript, saved.length, saved.tail),
   said       |-> IF snap.said = saved.said THEN Keep ELSE Replace(snap.said),
   history    |-> SequenceDelta(snap.history, Keys(snap.history), saved.history)]

MergeField(old, field) ==
  CASE field.op = "keep" -> old
    [] field.op = "append" -> old \o field.value
    [] field.op = "replace" -> field.value

Opened(field) == IF field.op = "append" THEN field.value ELSE << >>

\* The first record opens the snapshot, so a _replace field in it goes unread.
Merge(merged, record) ==
  IF merged = None
  THEN [messages |-> Opened(record.messages), transcript |-> Opened(record.transcript),
        said |-> Opened(record.said), history |-> Opened(record.history)]
  ELSE [messages   |-> MergeField(merged.messages, record.messages),
        transcript |-> MergeField(merged.transcript, record.transcript),
        said       |-> MergeField(merged.said, record.said),
        history    |-> MergeField(merged.history, record.history)]

-----------------------------------------------------------------------------
EmptyLog == [header |-> FALSE, merged |-> None, blobs |-> {}, tail |-> None]

Init ==
  /\ live = EmptySession
  /\ marker = None
  /\ blobs = {}
  /\ plan = None
  /\ stage = "idle"
  /\ disk = EmptyLog
  /\ up = TRUE

Working == up /\ UNCHANGED <<marker, blobs, plan, stage, disk, up>>

-----------------------------------------------------------------------------
(* The session goes on while a save is in flight.                          *)

\* stage_active_turn: one more message of the turn in flight.
StageMessage(m) ==
  /\ Working
  /\ Len(live.transcript) + Len(live.said) < MaxMessages
  /\ live' = [live EXCEPT !.turn = Append(@, m), !.said = Append(@, m)]

\* finish_turn: the turn becomes history.
FinishTurn ==
  /\ Working
  /\ live.said # << >>
  /\ live' = [live EXCEPT !.messages = @ \o live.turn, !.transcript = @ \o live.said,
                          !.turn = << >>, !.said = << >>]

\* settle_interrupted_turn retracts a turn in which nothing was answered.
RetractTurn ==
  /\ Working
  /\ live.said # << >>
  /\ live' = [live EXCEPT !.turn = << >>, !.said = << >>]

Retained(history, text) ==
  LastN(Append(history, [key |-> NextKey(history), text |-> text]), MaxHistory)

\* Mutant: what the user reads is trimmed with what the model reads.
TrimmingCompact(field, keep, text) ==
  /\ Working
  /\ keep < Len(live[field])
  /\ NextKey(live.history) <= MaxCompactions
  /\ live' = [live EXCEPT ![field] = <<Summary>> \o LastN(@, keep),
                          !.transcript = LastN(@, keep),
                          !.history = Retained(@, text)]

\* apply_compaction: a summary stands for what it evicts from the conversation or
\* from the turn, and the evicted text becomes a segment.
Compact(field, keep, text) ==
  /\ Working
  /\ keep < Len(live[field])
  /\ NextKey(live.history) <= MaxCompactions
  /\ live' = [live EXCEPT ![field] = <<Summary>> \o LastN(@, keep),
                          !.history = Retained(@, text)]

-----------------------------------------------------------------------------
(* Session.save_snapshot: plan on the loop, execute on a worker, commit.   *)

\* has_content, or something was saved before.
WorthSaving == marker # None \/ live # EmptySession

Plan ==
  /\ up
  /\ plan = None
  /\ WorthSaving
  /\ LET snap == Captured(live)
         record == IF marker = None THEN Full(snap) ELSE Delta(snap, marker)
     IN plan' = [record |-> record, blobs |-> TextsOf(record.history.value) \ blobs,
                 marker |-> MarkerOf(snap), captured |-> snap]
  /\ stage' = IF marker = None THEN "header" ELSE "truncate"
  /\ UNCHANGED <<live, marker, blobs, disk, up>>

\* open(log_path, "w") and the header line.
WriteHeader ==
  /\ stage = "header"
  /\ disk' = [EmptyLog EXCEPT !.header = TRUE]
  /\ stage' = "truncate"
  /\ UNCHANGED <<live, marker, blobs, plan, up>>

\* Mutant: an append goes straight behind whatever the last one left.
KeepTail ==
  /\ stage = "truncate"
  /\ stage' = "append"
  /\ UNCHANGED <<live, marker, blobs, plan, disk, up>>

\* Whatever follows the last newline was never committed.
TruncateTail ==
  /\ stage = "truncate"
  /\ disk' = [disk EXCEPT !.tail = None]
  /\ stage' = "append"
  /\ UNCHANGED <<live, marker, blobs, plan, up>>

\* Every blob line, then the record line.  Glued to an incomplete tail they would
\* complete a line that is no record.
AppendRecord ==
  /\ stage = "append"
  /\ disk' = IF disk.tail = None
             THEN [disk EXCEPT !.blobs = @ \cup plan.blobs, !.merged = Merge(@, plan.record)]
             ELSE [disk EXCEPT !.tail = None]
  /\ stage' = "written"
  /\ UNCHANGED <<live, marker, blobs, plan, up>>

Abandon == plan' = None /\ stage' = "idle" /\ UNCHANGED <<live, marker, blobs, up>>

\* An incomplete last line.  Only one that still parses shows what it was to be.
Torn(kind, unwritten, record) ==
  IF kind = "whole" THEN [kind |-> kind, blobs |-> unwritten, record |-> record]
  ELSE [kind |-> kind, blobs |-> {}, record |-> None]

\* Mutant: blobs count as written once they were serialized.
AppendForgets(done, kind) ==
  /\ stage = "append"
  /\ done \subseteq plan.blobs
  /\ disk' = [disk EXCEPT !.blobs = @ \cup done,
                          !.tail = Torn(kind, plan.blobs \ done, plan.record)]
  /\ blobs' = blobs \cup plan.blobs
  /\ plan' = None /\ stage' = "idle" /\ UNCHANGED <<live, marker, up>>

\* A full disk: some blob lines are complete, the next line is torn, and the
\* exception leaves the markers alone.  Dying in mid-append is this, then Crash.
AppendFails(done, kind) ==
  /\ stage = "append"
  /\ done \subseteq plan.blobs
  /\ disk' = [disk EXCEPT !.blobs = @ \cup done,
                          !.tail = Torn(kind, plan.blobs \ done, plan.record)]
  /\ Abandon

\* The header line itself is cut: the next attempt opens with "w" again.
HeaderFails ==
  /\ stage = "header"
  /\ disk' = EmptyLog
  /\ Abandon

\* Mutant: a cancelled save forgets the write that its worker finished.
ForgetfulCommit ==
  /\ stage = "written"
  /\ \/ marker' = plan.marker /\ blobs' = blobs \cup plan.blobs
     \/ marker # None /\ UNCHANGED <<marker, blobs>>
  /\ plan' = None
  /\ stage' = "idle"
  /\ UNCHANGED <<live, disk, up>>

\* commit: exactly the captured markers, also when the save was cancelled.
Commit ==
  /\ stage = "written"
  /\ marker' = plan.marker
  /\ blobs' = blobs \cup plan.blobs
  /\ plan' = None
  /\ stage' = "idle"
  /\ UNCHANGED <<live, disk, up>>

-----------------------------------------------------------------------------
\* read_merged decodes UTF-8 before it looks for JSON, so a split character fails
\* the whole read; an incomplete last line that parses is taken for a record.
Undecodable == disk.tail # None /\ disk.tail.kind = "split"

TailParses == disk.tail # None /\ disk.tail.kind = "whole"

ReadMerged ==
  IF TailParses /\ disk.tail.blobs = {} THEN Merge(disk.merged, disk.tail.record) ELSE disk.merged

ReadBlobs ==
  IF TailParses /\ disk.tail.blobs # {}
  THEN {disk.blobs \cup {text} : text \in disk.tail.blobs}
  ELSE {disk.blobs}

Readable == disk.header /\ ~Undecodable /\ ReadMerged # None

\* load: the saved turn is flattened behind the transcript it continues.
ResumedFrom(snap) ==
  [messages |-> Append(snap.messages, Resumed), turn |-> << >>,
   transcript |-> snap.transcript \o snap.said, said |-> << >>, history |-> snap.history]

Crash ==
  /\ up
  /\ disk.merged # None => Len(disk.merged.messages) < MaxMessages
  /\ up' = FALSE
  /\ live' = EmptySession
  /\ marker' = None
  /\ blobs' = {}
  /\ plan' = None
  /\ stage' = "idle"
  /\ UNCHANGED disk

\* Mutant: the marker is taken past the on-disk boundary, after the flattening.
LoadMarkingAll ==
  /\ ~up
  /\ Readable
  /\ live' = ResumedFrom(ReadMerged)
  /\ marker' = [MarkerOf(Captured(live')) EXCEPT !.messages = ReadMerged.messages, !.said = ReadMerged.said]
  /\ \E read \in ReadBlobs : blobs' = read
  /\ up' = TRUE
  /\ UNCHANGED <<plan, stage, disk>>

\* The marker stays at the on-disk boundary: the next save appends the flattened
\* turn and clears the active one.
Load ==
  /\ ~up
  /\ Readable
  /\ live' = ResumedFrom(ReadMerged)
  /\ marker' = MarkerOf(ReadMerged)
  /\ \E read \in ReadBlobs : blobs' = read
  /\ up' = TRUE
  /\ UNCHANGED <<plan, stage, disk>>

\* What cannot be read cannot be resumed: a new session and a new log.
StartFresh ==
  /\ ~up
  /\ ~Readable
  /\ live' = EmptySession
  /\ disk' = EmptyLog
  /\ up' = TRUE
  /\ UNCHANGED <<marker, blobs, plan, stage>>

-----------------------------------------------------------------------------
Conversing ==
  \/ \E m \in Messages : StageMessage(m)
  \/ FinishTurn
  \/ RetractTurn
  \/ \E field \in {"messages", "turn"}, keep \in 0..MaxMessages, text \in Texts :
       Compact(field, keep, text)

Saving == Plan \/ WriteHeader \/ TruncateTail \/ AppendRecord \/ Commit

Failing ==
  \/ \E kind \in TornKinds, done \in SUBSET Texts : AppendFails(done, kind)
  \/ HeaderFails
  \/ Crash

Restarting == Load \/ StartFresh

Next == Conversing \/ Saving \/ Failing \/ Restarting

Spec == Init /\ [][Next]_vars

-----------------------------------------------------------------------------
(* What the log promises.                                                  *)

Field(values) == [op : {"keep", "append", "replace"}, value : Seq(values)]

RecordSet ==
  [messages : Field(Contents), transcript : Field(Contents), said : Field(Contents),
   history : Field(Segment)]

MarkerSet ==
  [messages : Seq(Contents), said : Seq(Contents), history : Seq(Nat),
   length : Nat, tail : Contents \cup {None}]

PlanSet == [record : RecordSet, blobs : SUBSET Texts, marker : MarkerSet, captured : Snapshot]

TornSet == [kind : TornKinds, blobs : SUBSET Texts, record : RecordSet \cup {None}]

LogSet ==
  [header : BOOLEAN, merged : Snapshot \cup {None}, blobs : SUBSET Texts, tail : TornSet \cup {None}]

Stages == {"idle", "header", "truncate", "append", "written"}

ASSUME NoneIsNothing == None \notin Contents \cup Snapshot \cup MarkerSet \cup PlanSet \cup TornSet

LogTypes ==
  /\ live \in Session
  /\ marker \in MarkerSet \cup {None}
  /\ blobs \subseteq Texts
  /\ plan \in PlanSet \cup {None}
  /\ stage \in Stages
  /\ disk \in LogSet
  /\ up \in BOOLEAN

\* Type correctness, and the order of one save: a plan is in flight exactly while
\* its worker runs, a dead process has neither plan nor markers, a record follows a
\* header, and lines are only ever appended behind a newline.
LogInv ==
  /\ LogTypes
  /\ plan = None <=> stage = "idle"
  /\ ~up => stage = "idle" /\ marker = None
  /\ stage \in {"truncate", "append", "written"} \/ disk.merged # None => disk.header
  /\ stage \in {"append", "written"} => disk.tail = None

\* The baseline of the next delta is what the log decodes to, through failed
\* appends, cancelled saves, crashes and reloads: "a later save always computes its
\* delta from the last successfully written captured state" (save_snapshot).
MarkerIsOnDisk ==
  (marker # None /\ stage # "written") => disk.merged # None /\ marker = MarkerOf(disk.merged)

\* A record never refers to a segment text that no line before it holds: blob
\* lines precede records, and _blobs_written never claims an unwritten one.
TextsAreOnDisk == disk.merged # None => TextsOf(disk.merged.history) \subseteq disk.blobs

\* What the next save is computed from is in the log, and the log is complete in itself
\* (session/store.py, plan() and append()).
LogIsWhole == MarkerIsOnDisk /\ TextsAreOnDisk

\* The tail digest that stands for the whole transcript is sound: while a process
\* runs, the saved transcript is a prefix of the live one, so "same length, same last
\* entry" means same entries.
SavedTranscriptIsPrefix ==
  (up /\ disk.merged # None) => IsPrefix(disk.merged.transcript, live.transcript)

\* What the user has read and the log has committed is never rewritten or cut, not
\* by compaction, a retracted turn, a torn append or a crash.
TranscriptOnlyGrows ==
  [][disk.merged # None /\ disk'.merged # None =>
       IsPrefix(disk.merged.transcript, disk'.merged.transcript)]_disk

\* A save that is written is the captured state, whole: the plan's lines merged
\* behind the log's own are what plan() froze, which is what commit then claims.
SaveIsExact == stage = "written" => disk.merged = plan.captured

InFlight == IF stage \in {"header", "truncate", "append"} THEN plan.captured ELSE None

Durable ==
  INSTANCE DurableSession WITH Capture <- Captured, Resume <- ResumedFrom, Nothing <- None,
                               captured <- InFlight, durable <- disk.merged

\* The log, its deltas and its markers keep a session the way DurableSession says:
\* each save is one atomic step to the captured state, and a reload resumes it.
DurableSpec == Durable!Spec
=============================================================================
