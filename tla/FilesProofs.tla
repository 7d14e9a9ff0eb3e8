----------------------------- MODULE FilesProofs -----------------------------
(***************************************************************************)
(* Theorems of what the program keeps on disk.                             *)
(*                                                                         *)
(* What SnapshotLog promises, for every message, segment, window and       *)
(* bound, as long as an append that stops leaves a last line no reader     *)
(* takes for a record (OnlyCutTails): the two ways it may not are findings *)
(* of their own.  The argument: a delta computed against a marker merges   *)
(* back to exactly the state it was computed from (DeltaMerges), because   *)
(* the marker stands for what the log decodes to, the transcript on disk   *)
(* is a prefix of the live one, and a segment key never names two texts.   *)
(*                                                                         *)
(* Of FileEdits, for any number of agents, any files, any batches of any   *)
(* number of edits and any drift of views: an edit is written only over    *)
(* the text it was planned on, nobody sees a file that is half written,    *)
(* and a target named by a view of the text as it still is lands on the    *)
(* very lines that view showed.                                            *)
(***************************************************************************)
EXTENDS SnapshotLog, FileEdits, SequenceTheorems, FiniteSetTheorems, TLAPS

OnlyCutTails == TornKinds = {"cut"}

-----------------------------------------------------------------------------
(* Sequences.                                                              *)

\* A saved prefix and the suffix behind it are the whole sequence.
LEMMA PrefixAndSuffix ==
  ASSUME NEW S, NEW s \in Seq(S), NEW t \in Seq(S), IsPrefix(s, t)
  PROVE  /\ s = SubSeq(t, 1, Len(s))
         /\ s \o Suffix(t, Len(s)) = t
         /\ Suffix(t, Len(s)) \in Seq(S)
<1>1. Len(s) \in Nat /\ Len(t) \in Nat /\ Len(s) <= Len(t)
  BY LenProperties DEF IsPrefix
<1>2. s = SubSeq(t, 1, Len(s))
  BY <1>1, SubSeqFull DEF IsPrefix
<1>3. SubSeq(t, 1, Len(s)) \o SubSeq(t, Len(s) + 1, Len(t)) = SubSeq(t, 1, Len(t))
  <2>1. 1 \in 1..Len(t) + 1 /\ Len(s) \in 1 - 1..Len(t) /\ Len(t) \in Len(s)..Len(t)
    BY <1>1
  <2> QED BY <2>1, ConcatAdjacentSubSeq
<1>4. SubSeq(t, 1, Len(t)) = t
  BY SubSeqFull
<1>5. SubSeq(t, Len(s) + 1, Len(t)) \in Seq(S)
  BY <1>1, SubSeqProperties, ElementOfSeq
<1> QED BY <1>2, <1>3, <1>4, <1>5 DEF Suffix

\* A prefix stays one when the sequence grows.
LEMMA PrefixGrows ==
  ASSUME NEW S, NEW s \in Seq(S), NEW t \in Seq(S), NEW u \in Seq(S), IsPrefix(s, t)
  PROVE  IsPrefix(s, t \o u)
<1>1. Len(s) \in Nat /\ Len(t) \in Nat /\ Len(u) \in Nat /\ Len(s) <= Len(t)
  BY LenProperties DEF IsPrefix
<1>2. t \o u \in Seq(S) /\ Len(t \o u) = Len(t) + Len(u)
  BY ConcatProperties
<1>3. \A i \in 1..Len(s) : s[i] = t[i]
  <2>1. s = SubSeq(t, 1, Len(s))
    BY PrefixAndSuffix
  <2>2. \A i \in 1..Len(s) : SubSeq(t, 1, Len(s))[i] = t[i]
    BY <1>1, SubSeqProperties, ElementOfSeq
  <2> QED BY <2>1, <2>2
<1>4. \A i \in 1..Len(s) : (t \o u)[i] = t[i]
  BY <1>1, ConcatProperties
<1>5. /\ SubSeq(t \o u, 1, Len(s)) \in Seq(S)
      /\ Len(SubSeq(t \o u, 1, Len(s))) = Len(s)
      /\ \A i \in 1..Len(s) : SubSeq(t \o u, 1, Len(s))[i] = (t \o u)[i]
  BY <1>1, <1>2, SubSeqProperties, ElementOfSeq
<1>6. SubSeq(s, 1, Len(s)) = s
  BY SubSeqFull
<1>7. s = SubSeq(t \o u, 1, Len(s))
  BY <1>3, <1>4, <1>5, SeqEqual
<1> QED BY <1>1, <1>2, <1>6, <1>7 DEF IsPrefix

LEMMA PrefixReflexive == ASSUME NEW S, NEW s \in Seq(S) PROVE IsPrefix(s, s)
BY LenProperties DEF IsPrefix

-----------------------------------------------------------------------------
(* The codec.                                                              *)

\* The ways a field is recorded and what merging each does.
LEMMA Kept == ASSUME NEW S, NEW old \in Seq(S) PROVE Keep \in Field(S) /\ MergeField(old, Keep) = old
<1>1. << >> \in Seq(S)
  BY EmptySeq
<1> QED BY <1>1 DEF Keep, Field, MergeField

LEMMA Added ==
  ASSUME NEW S, NEW old, NEW value \in Seq(S)
  PROVE  Add(value) \in Field(S) /\ MergeField(old, Add(value)) = old \o value
BY DEF Add, Field, MergeField

LEMMA Replaced ==
  ASSUME NEW S, NEW old, NEW value \in Seq(S)
  PROVE  Replace(value) \in Field(S) /\ MergeField(old, Replace(value)) = value
BY DEF Replace, Field, MergeField

\* A sequence recorded by digest merges back, whether it grew, was rewritten or
\* was cut.
LEMMA SequenceMergesBack ==
  ASSUME NEW S, NEW old \in Seq(S), NEW cur \in Seq(S)
  PROVE  LET field == SequenceDelta(cur, cur, old)
         IN field \in Field(S) /\ MergeField(old, field) = cur
<1>1. Len(old) \in Nat /\ Len(cur) \in Nat
  BY LenProperties
<1>2. CASE ~(Len(cur) >= Len(old) /\ SubSeq(cur, 1, Len(old)) = old)
  <2>1. SequenceDelta(cur, cur, old) = Replace(cur)
    BY <1>2 DEF SequenceDelta
  <2> QED BY <2>1, Replaced
<1>3. CASE Len(cur) >= Len(old) /\ SubSeq(cur, 1, Len(old)) = old
  <2>1. IsPrefix(old, cur)
    BY <1>1, <1>3, SubSeqFull DEF IsPrefix
  <2>2. old \o Suffix(cur, Len(old)) = cur /\ Suffix(cur, Len(old)) \in Seq(S)
    BY <2>1, PrefixAndSuffix
  <2>3. CASE Len(cur) > Len(old)
    <3>1. SequenceDelta(cur, cur, old) = Add(Suffix(cur, Len(old)))
      BY <1>3, <2>3 DEF SequenceDelta
    <3>2. /\ Add(Suffix(cur, Len(old))) \in Field(S)
          /\ MergeField(old, Add(Suffix(cur, Len(old)))) = old \o Suffix(cur, Len(old))
      BY <2>2, Added
    <3> QED BY <2>2, <3>1, <3>2
  <2>4. CASE Len(cur) = Len(old)
    <3>1. cur = old
      BY <1>3, <2>4, SubSeqFull
    <3>2. SequenceDelta(cur, cur, old) = Keep
      BY <1>1, <1>3, <2>4 DEF SequenceDelta
    <3>3. Keep \in Field(S) /\ MergeField(old, Keep) = old
      BY Kept
    <3> QED BY <3>1, <3>2, <3>3
  <2>5. Len(cur) > Len(old) \/ Len(cur) = Len(old)
    <3>1. Len(cur) \in Nat /\ Len(old) \in Nat /\ Len(cur) >= Len(old)
      BY <1>1, <1>3
    <3> QED BY <3>1
  <2> QED BY <2>3, <2>4, <2>5
<1> QED BY <1>2, <1>3

\* Two histories never give one key two texts.
Agree(old, cur) ==
  \A i \in DOMAIN old, j \in DOMAIN cur : old[i].key = cur[j].key => old[i] = cur[j]

\* Segments recorded by key alone merge back when keys are not reused.
LEMMA HistoryMergesBack ==
  ASSUME NEW old \in Seq(Segment), NEW cur \in Seq(Segment), Agree(old, cur)
  PROVE  LET field == SequenceDelta(cur, Keys(cur), Keys(old))
         IN field \in Field(Segment) /\ MergeField(old, field) = cur
<1>1. /\ Len(old) \in Nat /\ Len(cur) \in Nat
      /\ DOMAIN old = 1..Len(old) /\ DOMAIN cur = 1..Len(cur)
  BY LenProperties
<1>2. /\ Keys(cur) \in Seq(Nat) /\ Len(Keys(cur)) = Len(cur)
      /\ Keys(old) \in Seq(Nat) /\ Len(Keys(old)) = Len(old)
  <2>1. \A i \in 1..Len(cur) : cur[i] \in Segment
    BY ElementOfSeq
  <2>2. \A i \in 1..Len(old) : old[i] \in Segment
    BY ElementOfSeq
  <2>3. \A segment \in Segment : segment.key \in Nat
    BY DEF Segment
  <2> QED BY <1>1, <2>1, <2>2, <2>3 DEF Keys
<1>3. CASE ~(Len(cur) >= Len(old) /\ SubSeq(Keys(cur), 1, Len(old)) = Keys(old))
  <2>1. SequenceDelta(cur, Keys(cur), Keys(old)) = Replace(cur)
    BY <1>2, <1>3 DEF SequenceDelta
  <2> QED BY <2>1, Replaced
<1>4. CASE Len(cur) >= Len(old) /\ SubSeq(Keys(cur), 1, Len(old)) = Keys(old)
  <2>1. \A i \in 1..Len(old) : SubSeq(Keys(cur), 1, Len(old))[i] = Keys(cur)[i]
    <3>1. \A i \in 1..Len(old) : Keys(cur)[i] \in Nat
      BY <1>1, <1>2, <1>4, ElementOfSeq
    <3> QED BY <1>1, <3>1, SubSeqProperties
  <2>2. \A i \in 1..Len(old) : old[i].key = cur[i].key
    <3>1. \A i \in 1..Len(old) : Keys(old)[i] = old[i].key
      BY DEF Keys
    <3>2. \A i \in 1..Len(old) : Keys(cur)[i] = cur[i].key
      BY <1>1, <1>4 DEF Keys
    <3>3. \A i \in 1..Len(old) : Keys(old)[i] = Keys(cur)[i]
      BY <1>4, <2>1
    <3> QED BY <3>1, <3>2, <3>3
  <2>3. \A i \in 1..Len(old) : old[i] = cur[i]
    BY <1>1, <1>4, <2>2 DEF Agree
  <2>4. /\ SubSeq(cur, 1, Len(old)) \in Seq(Segment)
        /\ Len(SubSeq(cur, 1, Len(old))) = Len(old)
        /\ \A i \in 1..Len(old) : SubSeq(cur, 1, Len(old))[i] = cur[i]
    BY <1>1, <1>4, SubSeqProperties, ElementOfSeq
  <2>5. old = SubSeq(cur, 1, Len(old))
    BY <2>3, <2>4, SeqEqual
  <2>6. IsPrefix(old, cur)
    BY <1>1, <1>4, <2>5, SubSeqFull DEF IsPrefix
  <2>7. old \o Suffix(cur, Len(old)) = cur /\ Suffix(cur, Len(old)) \in Seq(Segment)
    BY <2>6, PrefixAndSuffix
  <2>8. CASE Len(cur) > Len(old)
    <3>1. SequenceDelta(cur, Keys(cur), Keys(old)) = Add(Suffix(cur, Len(old)))
      BY <1>2, <1>4, <2>8 DEF SequenceDelta
    <3>2. /\ Add(Suffix(cur, Len(old))) \in Field(Segment)
          /\ MergeField(old, Add(Suffix(cur, Len(old)))) = old \o Suffix(cur, Len(old))
      BY <2>7, Added
    <3> QED BY <2>7, <3>1, <3>2
  <2>9. CASE Len(cur) = Len(old)
    <3>1. cur = old
      BY <2>5, <2>9, SubSeqFull
    <3>2. SequenceDelta(cur, Keys(cur), Keys(old)) = Keep
      BY <1>1, <1>2, <1>4, <2>9 DEF SequenceDelta
    <3>3. Keep \in Field(Segment) /\ MergeField(old, Keep) = old
      BY Kept
    <3> QED BY <3>1, <3>2, <3>3
  <2>10. Len(cur) > Len(old) \/ Len(cur) = Len(old)
    <3>1. Len(cur) \in Nat /\ Len(old) \in Nat /\ Len(cur) >= Len(old)
      BY <1>1, <1>4
    <3> QED BY <3>1
  <2> QED BY <2>8, <2>9, <2>10
<1> QED BY <1>3, <1>4

\* The transcript, recorded by length and last entry, merges back as long as what
\* was saved is a prefix of what is said now.
LEMMA TranscriptMergesBack ==
  ASSUME NEW S, NEW old \in Seq(S), NEW cur \in Seq(S), IsPrefix(old, cur)
  PROVE  LET field == AppendOnlyDelta(cur, Len(old), IF old = << >> THEN None ELSE old[Len(old)])
         IN field \in Field(S) /\ MergeField(old, field) = cur
<1>1. Len(old) \in Nat /\ Len(cur) \in Nat /\ Len(cur) >= Len(old)
  BY LenProperties DEF IsPrefix
<1>2. /\ old = SubSeq(cur, 1, Len(old))
      /\ old \o Suffix(cur, Len(old)) = cur
      /\ Suffix(cur, Len(old)) \in Seq(S)
  BY PrefixAndSuffix
<1>3. Len(old) = 0 \/ cur[Len(old)] = IF old = << >> THEN None ELSE old[Len(old)]
  <2>1. \A i \in 1..Len(old) : SubSeq(cur, 1, Len(old))[i] = cur[i]
    BY <1>1, SubSeqProperties, ElementOfSeq
  <2>2. old = << >> <=> Len(old) = 0
    BY EmptySeq
  <2> QED BY <1>1, <1>2, <2>1, <2>2
<1>4. CASE Len(cur) > Len(old)
  <2>1. AppendOnlyDelta(cur, Len(old), IF old = << >> THEN None ELSE old[Len(old)]) = Add(Suffix(cur, Len(old)))
    BY <1>1, <1>3, <1>4 DEF AppendOnlyDelta
  <2>2. /\ Add(Suffix(cur, Len(old))) \in Field(S)
        /\ MergeField(old, Add(Suffix(cur, Len(old)))) = old \o Suffix(cur, Len(old))
    BY <1>2, Added
  <2> QED BY <1>2, <2>1, <2>2
<1>5. CASE Len(cur) = Len(old)
  <2>1. cur = old
    BY <1>2, <1>5, SubSeqFull
  <2>2. AppendOnlyDelta(cur, Len(old), IF old = << >> THEN None ELSE old[Len(old)]) = Keep
    BY <1>1, <1>3, <1>5 DEF AppendOnlyDelta
  <2>3. Keep \in Field(S) /\ MergeField(old, Keep) = old
    BY Kept
  <2> QED BY <2>1, <2>2, <2>3
<1> QED BY <1>1, <1>4, <1>5

LEMMA FullOpens ==
  ASSUME NEW cur \in Snapshot
  PROVE  Full(cur) \in RecordSet /\ Merge(None, Full(cur)) = cur
BY DEF Full, Merge, Opened, Add, RecordSet, Field, Snapshot

\* The delta codec's contract: merged behind the saved state, the delta computed
\* from its marker gives the state it was computed from.
LEMMA DeltaMerges ==
  ASSUME NEW old \in Snapshot, NEW cur \in Snapshot,
         IsPrefix(old.transcript, cur.transcript), Agree(old.history, cur.history)
  PROVE  Delta(cur, MarkerOf(old)) \in RecordSet /\ Merge(old, Delta(cur, MarkerOf(old))) = cur
<1> DEFINE d == Delta(cur, MarkerOf(old))
<1>1. /\ old.messages \in Seq(Contents) /\ cur.messages \in Seq(Contents)
      /\ old.transcript \in Seq(Contents) /\ cur.transcript \in Seq(Contents)
      /\ old.said \in Seq(Contents) /\ cur.said \in Seq(Contents)
      /\ old.history \in Seq(Segment) /\ cur.history \in Seq(Segment)
      /\ old # None
  BY NoneIsNothing DEF Snapshot
<1>2. d.messages \in Field(Contents) /\ MergeField(old.messages, d.messages) = cur.messages
  BY <1>1, SequenceMergesBack DEF Delta, MarkerOf
<1>3. d.transcript \in Field(Contents) /\ MergeField(old.transcript, d.transcript) = cur.transcript
  BY SMTT(40), <1>1, TranscriptMergesBack DEF Delta, MarkerOf
<1>4. d.said \in Field(Contents) /\ MergeField(old.said, d.said) = cur.said
  <2>1. d.said = IF cur.said = old.said THEN Keep ELSE Replace(cur.said)
    BY DEF Delta, MarkerOf
  <2>2. CASE cur.said = old.said
    BY <1>1, <2>1, <2>2, Kept
  <2>3. CASE cur.said # old.said
    <3>1. /\ Replace(cur.said) \in Field(Contents)
          /\ MergeField(old.said, Replace(cur.said)) = cur.said
      BY <1>1, Replaced
    <3> QED BY <2>1, <2>3, <3>1
  <2> QED BY <2>2, <2>3
<1>5. d.history \in Field(Segment) /\ MergeField(old.history, d.history) = cur.history
  BY <1>1, HistoryMergesBack DEF Delta, MarkerOf
<1>6. d \in RecordSet
  BY <1>2, <1>3, <1>4, <1>5 DEF Delta, RecordSet
<1>7. Merge(old, d) = [messages |-> cur.messages, transcript |-> cur.transcript,
                       said |-> cur.said, history |-> cur.history]
  BY <1>1, <1>2, <1>3, <1>4, <1>5 DEF Merge
<1> QED BY <1>6, <1>7 DEF Snapshot

-----------------------------------------------------------------------------
(* Segment keys.                                                           *)

LastKey(history) == IF history = << >> THEN 0 ELSE history[Len(history)].key

\* old was a history of the session whose history is cur now.
Behind(old, cur) == (\A i \in DOMAIN old : old[i].key <= LastKey(cur)) /\ Agree(old, cur)

\* A compaction's segment takes the next key, and the window keeps the newest.
LEMMA RetainedSegments ==
  ASSUME NEW h \in Seq(Segment), NEW text \in Texts
  PROVE  /\ Retained(h, text) \in Seq(Segment)
         /\ LastKey(Retained(h, text)) = LastKey(h) + 1
         /\ LastKey(h) \in Nat
         /\ \A j \in DOMAIN Retained(h, text) :
              \/ Retained(h, text)[j] = [key |-> LastKey(h) + 1, text |-> text]
              \/ \E i \in DOMAIN h : Retained(h, text)[j] = h[i]
<1> DEFINE new == [key |-> NextKey(h), text |-> text]
           all == Append(h, new)
           kept == Retained(h, text)
<1>1. Len(h) \in Nat /\ DOMAIN h = 1..Len(h)
  BY LenProperties
<1>2. LastKey(h) \in Nat /\ NextKey(h) = LastKey(h) + 1
  <2>1. CASE h = << >>
    BY <2>1 DEF LastKey, NextKey
  <2>2. CASE h # << >>
    <3>1. Len(h) \in 1..Len(h)
      BY <1>1, <2>2, EmptySeq
    <3>2. h[Len(h)] \in Segment
      BY <3>1, ElementOfSeq
    <3>3. h[Len(h)].key \in Nat
      BY <3>2 DEF Segment
    <3> QED BY <2>2, <3>3 DEF LastKey, NextKey
  <2> QED BY <2>1, <2>2
<1>3. new \in Segment
  BY <1>2 DEF Segment
<1>4. /\ all \in Seq(Segment) /\ Len(all) = Len(h) + 1
      /\ all[Len(all)] = new
      /\ \A i \in 1..Len(h) : all[i] = h[i]
  BY <1>1, <1>3
<1>5. PICK k \in Nat : /\ k < Len(all) /\ kept = SubSeq(all, k + 1, Len(all))
  <2>1. kept = LastN(all, MaxHistory)
    BY DEF Retained
  <2>2. MaxHistory \in Nat /\ MaxHistory > 0
    BY RetentionIsPositive
  <2>3. CASE Len(all) > MaxHistory
    <3>1. Len(all) - MaxHistory \in Nat /\ Len(all) - MaxHistory < Len(all)
      BY <1>1, <1>4, <2>2, <2>3
    <3>2. kept = SubSeq(all, (Len(all) - MaxHistory) + 1, Len(all))
      BY <2>1, <2>3 DEF LastN, Suffix
    <3> QED BY <3>1, <3>2
  <2>4. CASE ~(Len(all) > MaxHistory)
    <3>1. kept = all
      BY <2>1, <2>4 DEF LastN
    <3>2. all = SubSeq(all, 0 + 1, Len(all))
      BY <1>4, SubSeqFull
    <3>3. 0 \in Nat /\ 0 < Len(all)
      BY <1>1, <1>4
    <3> QED BY <3>1, <3>2, <3>3
  <2> QED BY <2>3, <2>4
<1>6. /\ kept \in Seq(Segment) /\ Len(kept) = Len(all) - k
      /\ \A j \in 1..Len(kept) : kept[j] = all[k + j]
  <2>1. \A i \in k + 1..Len(all) : all[i] \in Segment
    BY <1>4, <1>5, ElementOfSeq
  <2>2. k + 1 \in Int /\ Len(all) \in Int /\ k + 1 <= Len(all)
    BY <1>1, <1>4, <1>5
  <2>3. /\ SubSeq(all, k + 1, Len(all)) \in Seq(Segment)
        /\ Len(SubSeq(all, k + 1, Len(all))) = Len(all) - (k + 1) + 1
        /\ \A j \in 1..Len(all) - (k + 1) + 1 : SubSeq(all, k + 1, Len(all))[j] = all[k + 1 + j - 1]
    BY <2>1, <2>2, SubSeqProperties
  <2>4. Len(all) - (k + 1) + 1 = Len(all) - k /\ \A j \in Int : k + 1 + j - 1 = k + j
    BY <2>2, <1>5
  <2>5. Len(kept) = Len(all) - k
    BY <1>5, <2>3, <2>4
  <2>6. \A j \in 1..Len(kept) : j \in Int /\ kept[j] = all[k + j]
    <3>1. \A j \in 1..Len(kept) : j \in Int /\ j \in 1..Len(all) - (k + 1) + 1
      BY <1>5, <2>2, <2>4, <2>5
    <3>2. \A j \in 1..Len(kept) : kept[j] = all[k + 1 + j - 1]
      BY <1>5, <2>3, <3>1
    <3>3. \A j \in 1..Len(kept) : k + 1 + j - 1 = k + j
      BY <2>4, <3>1
    <3> QED BY <3>1, <3>2, <3>3
  <2> QED BY <1>5, <2>3, <2>5, <2>6
<1>7. LastKey(kept) = LastKey(h) + 1
  <2>1. Len(kept) \in Nat \ {0} /\ k + Len(kept) = Len(all)
    BY <1>1, <1>4, <1>5, <1>6
  <2>2. kept[Len(kept)] = new
    BY <1>4, <1>6, <2>1
  <2>3. kept # << >>
    BY <1>6, <2>1, EmptySeq
  <2> QED BY <1>2, <2>2, <2>3 DEF LastKey
<1>8. ASSUME NEW j \in DOMAIN kept
      PROVE  kept[j] = new \/ \E i \in DOMAIN h : kept[j] = h[i]
  <2>1. j \in 1..Len(kept)
    BY <1>6, LenProperties
  <2>2. kept[j] = all[k + j] /\ k + j \in 1..Len(h) + 1
    BY <1>1, <1>4, <1>5, <1>6, <2>1
  <2>3. CASE k + j \in 1..Len(h)
    BY <1>1, <1>4, <2>2, <2>3
  <2>4. CASE k + j = Len(h) + 1
    BY <1>4, <2>2, <2>4
  <2>5. k + j \in 1..Len(h) \/ k + j = Len(h) + 1
    BY <1>1, <2>2
  <2> QED BY <2>3, <2>4, <2>5
<1> QED BY <1>2, <1>6, <1>7, <1>8

\* What was behind a history is behind it after a compaction, and so is the
\* history itself: the key it takes was never used.
LEMMA KeysAreNotReused ==
  ASSUME NEW h \in Seq(Segment), NEW old \in Seq(Segment), NEW text \in Texts,
         Behind(old, h), Behind(h, h)
  PROVE  Behind(old, Retained(h, text)) /\ Behind(Retained(h, text), Retained(h, text))
<1> DEFINE kept == Retained(h, text)
           new == [key |-> LastKey(h) + 1, text |-> text]
<1>1. /\ LastKey(h) \in Nat /\ LastKey(kept) = LastKey(h) + 1
      /\ \A j \in DOMAIN kept : kept[j] = new \/ \E i \in DOMAIN h : kept[j] = h[i]
  BY RetainedSegments
<1> HIDE DEF kept
<1>2. \A s \in Seq(Segment) : \A i \in DOMAIN s : s[i].key \in Nat
  <2> TAKE s \in Seq(Segment)
  <2> TAKE i \in DOMAIN s
  <2>1. s[i] \in Segment
    BY LenProperties, ElementOfSeq
  <2> QED BY <2>1 DEF Segment
<1>3. ASSUME NEW s \in Seq(Segment), Behind(s, h) PROVE Behind(s, kept)
  <2>1. \A i \in DOMAIN s : s[i].key \in Nat /\ s[i].key <= LastKey(h)
    BY <1>2, <1>3 DEF Behind
  <2>2. \A i \in DOMAIN s, j \in DOMAIN kept : s[i].key = kept[j].key => s[i] = kept[j]
    BY <1>1, <1>3, <2>1 DEF Behind, Agree
  <2> QED BY <1>1, <2>1, <2>2 DEF Behind, Agree
<1>4. Behind(kept, kept)
  <2>1. \A j \in DOMAIN kept : kept[j].key <= LastKey(kept)
    BY <1>1, <1>2 DEF Behind
  <2>2. ASSUME NEW i \in DOMAIN kept, NEW j \in DOMAIN kept, kept[i].key = kept[j].key
        PROVE  kept[i] = kept[j]
    <3>1. \A n \in DOMAIN h : h[n].key # LastKey(h) + 1
      BY <1>1, <1>2 DEF Behind
    <3>2. CASE kept[i] = new
      BY <1>1, <2>2, <3>1, <3>2
    <3>3. CASE \E n \in DOMAIN h : kept[i] = h[n]
      BY <1>1, <2>2, <3>1, <3>3 DEF Behind, Agree
    <3> QED BY <1>1, <3>2, <3>3
  <2> QED BY <2>1, <2>2 DEF Behind, Agree
<1> QED BY <1>3, <1>4 DEF kept

-----------------------------------------------------------------------------
(* The inductive invariant.                                                *)

\* old was captured from the session that is now cur.
Older(old, cur) == IsPrefix(old.transcript, cur.transcript) /\ Behind(old.history, cur.history)

MemoryInv ==
  /\ Behind(live.history, live.history)
  /\ marker = None => blobs = {}
  /\ blobs \subseteq disk.blobs

DiskInv ==
  /\ MarkerIsOnDisk
  /\ TextsAreOnDisk
  /\ disk.merged # None =>
       /\ Behind(disk.merged.history, disk.merged.history)
       /\ up => Older(disk.merged, live)
  /\ (up /\ marker = None /\ stage # "written") => disk.merged = None

PlanInv ==
  /\ stage # "idle" =>
       /\ plan.marker = MarkerOf(plan.captured)
       /\ Behind(plan.captured.history, plan.captured.history)
       /\ Older(plan.captured, live)
  /\ stage = "header" => marker = None
  /\ stage \in {"header", "truncate", "append"} =>
       /\ Merge(disk.merged, plan.record) = plan.captured
       /\ TextsOf(plan.captured.history) \subseteq plan.blobs \cup (IF marker = None THEN {} ELSE disk.blobs)
       /\ disk.merged # None => Older(disk.merged, plan.captured)
  /\ stage = "written" => disk.merged = plan.captured /\ plan.blobs \subseteq disk.blobs

IInv == LogInv /\ MemoryInv /\ DiskInv /\ PlanInv

USE DEF vars

LEMMA Components ==
  ASSUME LogTypes
  PROVE  /\ live.messages \in Seq(Contents) /\ live.turn \in Seq(Contents)
         /\ live.transcript \in Seq(Contents) /\ live.said \in Seq(Contents)
         /\ live.history \in Seq(Segment)
         /\ Captured(live) \in Snapshot
         /\ disk = [header |-> disk.header, merged |-> disk.merged, blobs |-> disk.blobs, tail |-> disk.tail]
         /\ disk.header \in BOOLEAN /\ disk.merged \in Snapshot \cup {None}
         /\ disk.blobs \subseteq Texts /\ disk.tail \in TornSet \cup {None}
         /\ plan # None => /\ plan.record \in RecordSet /\ plan.blobs \subseteq Texts
                           /\ plan.marker \in MarkerSet /\ plan.captured \in Snapshot
BY ConcatProperties DEF LogTypes, Session, Captured, Snapshot, LogSet, PlanSet

LEMMA MarkersAreTyped == ASSUME NEW snap \in Snapshot PROVE MarkerOf(snap) \in MarkerSet
<1>1. /\ snap.messages \in Seq(Contents) /\ snap.said \in Seq(Contents)
      /\ snap.transcript \in Seq(Contents) /\ snap.history \in Seq(Segment)
  BY DEF Snapshot
<1>2. Keys(snap.history) \in Seq(Nat)
  <2>1. \A i \in 1..Len(snap.history) : snap.history[i] \in Segment
    BY <1>1, ElementOfSeq
  <2>2. \A segment \in Segment : segment.key \in Nat
    BY DEF Segment
  <2>3. Len(snap.history) \in Nat
    BY <1>1, LenProperties
  <2> QED BY <2>1, <2>2, <2>3 DEF Keys
<1>3. Len(snap.transcript) \in Nat
  BY <1>1, LenProperties
<1>4. (IF snap.transcript = << >> THEN None ELSE snap.transcript[Len(snap.transcript)]) \in Contents \cup {None}
  <2>1. CASE snap.transcript = << >>
    BY <2>1
  <2>2. CASE snap.transcript # << >>
    <3>1. Len(snap.transcript) \in 1..Len(snap.transcript)
      BY <1>1, <1>3, <2>2, EmptySeq
    <3> QED BY <1>1, <2>2, <3>1, ElementOfSeq
  <2> QED BY <2>1, <2>2
<1> QED BY <1>1, <1>2, <1>3, <1>4 DEF MarkerOf, MarkerSet

LEMMA InitIInv == Init => IInv
<1> SUFFICES ASSUME Init PROVE IInv
  OBVIOUS
<1>1. live \in Session
  BY EmptySeq DEF Init, EmptySession, Session
<1>2. disk \in LogSet
  BY DEF Init, EmptyLog, LogSet
<1>3. LogInv
  BY <1>1, <1>2 DEF Init, EmptyLog, LogInv, LogTypes, Stages
<1>4. Behind(<< >>, << >>)
  BY DEF Behind, Agree
<1> QED BY <1>3, <1>4 DEF Init, EmptyLog, EmptySession, IInv, MemoryInv, DiskInv, PlanInv, MarkerIsOnDisk, TextsAreOnDisk

\* A session that only moves on, and keeps what was captured from it behind it,
\* disturbs nothing that a save in flight or the log relies on.
LEMMA SessionMovesOn ==
  ASSUME IInv, Working, live' \in Session, Behind(live'.history, live'.history),
         \A old \in Snapshot : Older(old, live) => Older(old, live')
  PROVE  IInv'
<1> USE DEF Working
<1>1. LogInv'
  BY DEF IInv, LogInv, LogTypes
<1>2. MemoryInv'
  BY DEF IInv, MemoryInv
<1>3. plan # None => plan.captured \in Snapshot
  BY Components DEF IInv, LogInv
<1>4. disk.merged \in Snapshot \cup {None}
  BY Components DEF IInv, LogInv
<1>5. DiskInv'
  BY <1>4 DEF IInv, DiskInv, MarkerIsOnDisk, TextsAreOnDisk
<1>6. PlanInv'
  BY <1>3 DEF IInv, PlanInv, LogInv
<1> QED BY <1>1, <1>2, <1>5, <1>6 DEF IInv

LEMMA ConversingKeepsIInv == IInv /\ Conversing => IInv'
<1> SUFFICES ASSUME IInv, Conversing PROVE IInv'
  OBVIOUS
<1>0. /\ live \in Session /\ LogTypes /\ Behind(live.history, live.history)
  BY DEF IInv, LogInv, LogTypes, MemoryInv
<1> USE <1>0
<1>1. ASSUME NEW m \in Messages, StageMessage(m) PROVE IInv'
  <2>1. m \in Contents
    BY DEF Contents
  <2>2. Append(live.turn, m) \in Seq(Contents) /\ Append(live.said, m) \in Seq(Contents)
    BY <2>1, Components
  <2>3. live' \in Session /\ live'.transcript = live.transcript /\ live'.history = live.history
    BY <1>1, <2>2 DEF StageMessage, Session
  <2> QED BY <1>1, <2>3, SessionMovesOn DEF StageMessage, Older
<1>2. ASSUME FinishTurn PROVE IInv'
  <2>1. live.messages \o live.turn \in Seq(Contents) /\ live.transcript \o live.said \in Seq(Contents)
    BY Components, ConcatProperties
  <2>2. /\ live' \in Session /\ live'.history = live.history
        /\ live'.transcript = live.transcript \o live.said
    BY <1>2, <2>1, EmptySeq DEF FinishTurn, Session
  <2>3. \A old \in Snapshot : Older(old, live) => Older(old, live')
    <3> TAKE old \in Snapshot
    <3> HAVE Older(old, live)
    <3>1. old.transcript \in Seq(Contents)
      BY DEF Snapshot
    <3>2. IsPrefix(old.transcript, live.transcript \o live.said)
      BY <3>1, Components, PrefixGrows DEF Older
    <3> QED BY <2>2, <3>2 DEF Older
  <2> QED BY <1>2, <2>2, <2>3, SessionMovesOn DEF FinishTurn
<1>3. ASSUME RetractTurn PROVE IInv'
  <2>1. live' \in Session /\ live'.transcript = live.transcript /\ live'.history = live.history
    BY <1>3, EmptySeq DEF RetractTurn, Session
  <2> QED BY <1>3, <2>1, SessionMovesOn DEF RetractTurn, Older
<1>4. ASSUME NEW field \in {"messages", "turn"}, NEW keep \in 0..MaxMessages, NEW text \in Texts,
             Compact(field, keep, text)
      PROVE  IInv'
  <2>1. <<Summary>> \o LastN(live[field], keep) \in Seq(Contents)
    <3>1. live[field] \in Seq(Contents) /\ Len(live[field]) \in Nat
      BY Components, LenProperties
    <3>2. LastN(live[field], keep) \in Seq(Contents)
      <4>1. \A i \in (Len(live[field]) - keep) + 1..Len(live[field]) : live[field][i] \in Contents
        <5>1. keep \in Nat /\ keep < Len(live[field])
          <6>1. keep \in Nat
            BY BoundsAreNatural
          <6>2. keep < Len(live[field])
            BY <1>4 DEF Compact
          <6> QED BY <6>1, <6>2
        <5>2. \A i \in (Len(live[field]) - keep) + 1..Len(live[field]) : i \in 1..Len(live[field])
          BY <3>1, <5>1
        <5> QED BY <3>1, <5>2, ElementOfSeq
      <4>2. (Len(live[field]) - keep) + 1 \in Int /\ Len(live[field]) \in Int
        BY <3>1
      <4>3. SubSeq(live[field], (Len(live[field]) - keep) + 1, Len(live[field])) \in Seq(Contents)
        BY <4>1, <4>2, SubSeqProperties
      <4> QED BY <3>1, <4>3 DEF LastN, Suffix
    <3>3. <<Summary>> \in Seq(Contents)
      BY DEF Contents
    <3> QED BY <3>2, <3>3, ConcatProperties
  <2>2. Retained(live.history, text) \in Seq(Segment)
    BY Components, RetainedSegments
  <2>3. live' \in Session /\ live'.transcript = live.transcript /\ live'.history = Retained(live.history, text)
    <3>1. CASE field = "messages"
      BY <1>4, <2>1, <2>2, <3>1 DEF Compact, Session
    <3>2. CASE field = "turn"
      BY <1>4, <2>1, <2>2, <3>2 DEF Compact, Session
    <3> QED BY <3>1, <3>2
  <2>4. \A old \in Snapshot : Older(old, live) => Older(old, live')
    <3> TAKE old \in Snapshot
    <3> HAVE Older(old, live)
    <3>1. old.history \in Seq(Segment)
      BY DEF Snapshot
    <3>2. Behind(old.history, Retained(live.history, text))
      BY <3>1, Components, KeysAreNotReused DEF Older
    <3> QED BY <2>3, <3>2 DEF Older
  <2>5. Behind(live'.history, live'.history)
    BY <2>3, Components, KeysAreNotReused
  <2> QED BY <1>4, <2>3, <2>4, <2>5, SessionMovesOn DEF Compact
<1> QED BY <1>1, <1>2, <1>3, <1>4 DEF Conversing

LEMMA SegmentTexts == ASSUME NEW h \in Seq(Segment) PROVE TextsOf(h) \subseteq Texts
<1>1. \A i \in DOMAIN h : h[i] \in Segment
  BY LenProperties, ElementOfSeq
<1> QED BY <1>1 DEF TextsOf, Segment

\* Every text a merged history names was named before or by the record.
LEMMA MergedTexts ==
  ASSUME NEW old \in Seq(Segment), NEW field \in Field(Segment)
  PROVE  TextsOf(MergeField(old, field)) \subseteq TextsOf(old) \cup TextsOf(field.value)
<1>1. field.op \in {"keep", "append", "replace"} /\ field.value \in Seq(Segment)
  BY DEF Field
<1>2. CASE field.op = "keep"
  BY <1>2 DEF MergeField
<1>3. CASE field.op = "replace"
  BY <1>3 DEF MergeField
<1>4. CASE field.op = "append"
  <2>1. MergeField(old, field) = old \o field.value
    BY <1>4 DEF MergeField
  <2>2. ASSUME NEW i \in DOMAIN (old \o field.value)
        PROVE  (old \o field.value)[i].text \in TextsOf(old) \cup TextsOf(field.value)
    <3>1. /\ Len(old) \in Nat /\ Len(field.value) \in Nat
          /\ DOMAIN old = 1..Len(old) /\ DOMAIN field.value = 1..Len(field.value)
      BY <1>1, LenProperties
    <3>2. i \in 1..Len(old) + Len(field.value)
      BY <1>1, <2>2, ConcatProperties, LenProperties
    <3>3. (old \o field.value)[i] = IF i <= Len(old) THEN old[i] ELSE field.value[i - Len(old)]
      BY <1>1, <3>2, ConcatProperties
    <3>4. CASE i <= Len(old)
      <4>1. i \in DOMAIN old
        BY <3>1, <3>2, <3>4
      <4> QED BY <3>3, <3>4, <4>1 DEF TextsOf
    <3>5. CASE ~(i <= Len(old))
      <4>1. i - Len(old) \in DOMAIN field.value
        BY <3>1, <3>2, <3>5
      <4> QED BY <3>3, <3>5, <4>1 DEF TextsOf
    <3> QED BY <3>4, <3>5
  <2> QED BY <2>1, <2>2 DEF TextsOf
<1> QED BY <1>1, <1>2, <1>3, <1>4

LEMMA PlanKeepsIInv == IInv /\ Plan => IInv'
<1> SUFFICES ASSUME IInv, Plan PROVE IInv'
  OBVIOUS
<1> DEFINE snap == Captured(live)
           record == IF marker = None THEN Full(snap) ELSE Delta(snap, marker)
<1>1. /\ LogTypes /\ up /\ plan = None /\ stage = "idle"
      /\ snap \in Snapshot /\ snap.history = live.history /\ snap.transcript = live.transcript
      /\ Behind(snap.history, snap.history)
      /\ blobs \subseteq disk.blobs /\ disk.blobs \subseteq Texts
  BY Components DEF IInv, LogInv, MemoryInv, Plan, Captured
<1>2. plan' = [record |-> record, blobs |-> TextsOf(record.history.value) \ blobs,
               marker |-> MarkerOf(snap), captured |-> snap]
  BY DEF Plan
<1>3. Older(snap, live)
  BY <1>1, Components, PrefixReflexive DEF Older, IInv, MemoryInv
<1> DEFINE covered == plan'.blobs \cup (IF marker = None THEN {} ELSE disk.blobs)
<1>4. /\ record \in RecordSet
      /\ Merge(disk.merged, record) = snap
      /\ TextsOf(snap.history) \subseteq covered
      /\ disk.merged # None => Older(disk.merged, snap)
  <2>1. CASE marker = None
    <3>1. disk.merged = None /\ blobs = {}
      BY <1>1, <2>1 DEF IInv, DiskInv, MemoryInv
    <3>2. record.history.value = snap.history
      BY <2>1 DEF Full, Add
    <3> QED BY <1>1, <1>2, <2>1, <3>1, <3>2, FullOpens
  <2>2. CASE marker # None
    <3>1. /\ disk.merged \in Snapshot /\ marker = MarkerOf(disk.merged)
          /\ Older(disk.merged, live) /\ TextsOf(disk.merged.history) \subseteq disk.blobs
          /\ disk.merged # None
      BY <1>1, <2>2, Components DEF IInv, DiskInv, MarkerIsOnDisk, TextsAreOnDisk
    <3>2. Older(disk.merged, snap)
      BY <1>1, <3>1 DEF Older
    <3>3. record \in RecordSet /\ Merge(disk.merged, record) = snap
      BY <1>1, <2>2, <3>1, <3>2, DeltaMerges DEF Older, Behind
    <3>4. /\ disk.merged.history \in Seq(Segment) /\ record.history \in Field(Segment)
          /\ snap.history = MergeField(disk.merged.history, record.history)
      BY <3>1, <3>3 DEF Snapshot, RecordSet, Merge
    <3>5. TextsOf(snap.history) \subseteq TextsOf(disk.merged.history) \cup TextsOf(record.history.value)
      BY <3>4, MergedTexts
    <3>6. TextsOf(snap.history) \subseteq covered
      BY <1>1, <1>2, <2>2, <3>1, <3>5
    <3> QED BY <3>2, <3>3, <3>6
  <2> QED BY <2>1, <2>2
<1>5. plan' \in PlanSet
  <2>1. record.history.value \in Seq(Segment)
    BY <1>4 DEF RecordSet, Field
  <2>2. TextsOf(record.history.value) \subseteq Texts
    BY <2>1, SegmentTexts
  <2> QED BY <1>1, <1>2, <1>4, <2>2, MarkersAreTyped DEF PlanSet
<1> HIDE DEF snap, record
<1>6. /\ plan'.record = record /\ plan'.marker = MarkerOf(snap) /\ plan'.captured = snap
      /\ stage' = (IF marker = None THEN "header" ELSE "truncate")
      /\ UNCHANGED <<live, marker, blobs, disk, up>>
  BY <1>2 DEF Plan
<1>7. LogInv'
  <2>1. plan' # None
    BY <1>5, NoneIsNothing
  <2>2. stage' = "truncate" => disk.header
    BY <1>6 DEF IInv, LogInv, DiskInv, MarkerIsOnDisk, Plan
  <2> QED BY <1>1, <1>5, <1>6, <2>1, <2>2 DEF IInv, LogInv, LogTypes, Stages
<1>8. MemoryInv'
  BY <1>6 DEF IInv, MemoryInv
<1>9. DiskInv'
  BY <1>1, <1>6 DEF IInv, DiskInv, MarkerIsOnDisk, TextsAreOnDisk
<1>10. PlanInv'
  BY <1>1, <1>3, <1>4, <1>6 DEF PlanInv, Older
<1> QED BY <1>7, <1>8, <1>9, <1>10 DEF IInv

LEMMA WritingKeepsIInv == IInv /\ (WriteHeader \/ TruncateTail \/ AppendRecord) => IInv'
<1> SUFFICES ASSUME IInv, WriteHeader \/ TruncateTail \/ AppendRecord PROVE IInv'
  OBVIOUS
<1>0. /\ LogTypes /\ (stage # "idle" => plan \in PlanSet /\ plan # None /\ up)
      /\ disk \in LogSet
  BY DEF IInv, LogInv, LogTypes
<1>1. CASE WriteHeader
  <2>1. disk.merged = None /\ blobs = {} /\ marker = None /\ up
    BY <1>0, <1>1 DEF IInv, DiskInv, MemoryInv, PlanInv, WriteHeader
  <2>2. /\ disk' \in LogSet /\ disk'.merged = None /\ disk'.blobs = {} /\ disk'.tail = None
        /\ disk'.header
    BY <1>1 DEF WriteHeader, EmptyLog, LogSet
  <2>3. LogInv'
    BY <1>0, <1>1, <2>2 DEF IInv, LogInv, LogTypes, WriteHeader, Stages
  <2>4. MemoryInv' /\ DiskInv'
    BY <1>1, <2>1, <2>2 DEF IInv, MemoryInv, DiskInv, MarkerIsOnDisk, TextsAreOnDisk, WriteHeader
  <2>5. PlanInv'
    BY <1>1, <2>1, <2>2 DEF IInv, PlanInv, WriteHeader
  <2> QED BY <2>3, <2>4, <2>5 DEF IInv
<1>2. CASE TruncateTail
  <2>1. /\ disk' \in LogSet /\ disk'.merged = disk.merged /\ disk'.blobs = disk.blobs
        /\ disk'.tail = None /\ disk'.header = disk.header
    BY <1>0, <1>2 DEF TruncateTail, LogSet
  <2>2. LogInv'
    BY <1>0, <1>2, <2>1 DEF IInv, LogInv, LogTypes, TruncateTail, Stages
  <2>3. MemoryInv' /\ DiskInv'
    BY <1>2, <2>1 DEF IInv, MemoryInv, DiskInv, MarkerIsOnDisk, TextsAreOnDisk, TruncateTail
  <2>4. PlanInv'
    BY <1>2, <2>1 DEF IInv, PlanInv, TruncateTail
  <2> QED BY <2>2, <2>3, <2>4 DEF IInv
<1>3. CASE AppendRecord
  <2>1. /\ plan.captured \in Snapshot /\ plan.blobs \subseteq Texts /\ plan.captured # None
        /\ up /\ stage = "append" /\ plan # None
    BY <1>0, <1>3, Components, NoneIsNothing DEF AppendRecord
  <2>2. /\ disk'.merged = plan.captured /\ disk'.blobs = disk.blobs \cup plan.blobs
        /\ disk'.tail = None /\ disk'.header = disk.header /\ disk' \in LogSet
    <3>1. disk.tail = None /\ Merge(disk.merged, plan.record) = plan.captured
      BY <2>1 DEF IInv, LogInv, PlanInv
    <3> QED BY <1>0, <1>3, <2>1, <3>1 DEF AppendRecord, LogSet
  <2>3. /\ stage' = "written" /\ UNCHANGED <<live, marker, blobs, plan, up>>
    BY <1>3 DEF AppendRecord
  <2>4. LogInv'
    BY <1>0, <2>1, <2>2, <2>3 DEF IInv, LogInv, LogTypes, Stages
  <2>5. MemoryInv'
    BY <2>2, <2>3 DEF IInv, MemoryInv
  <2>6. DiskInv'
    BY <2>1, <2>2, <2>3 DEF IInv, DiskInv, PlanInv, MarkerIsOnDisk, TextsAreOnDisk
  <2>7. PlanInv'
    BY <2>1, <2>2, <2>3 DEF IInv, PlanInv
  <2> QED BY <2>4, <2>5, <2>6, <2>7 DEF IInv
<1> QED BY <1>1, <1>2, <1>3

LEMMA CommitKeepsIInv == IInv /\ Commit => IInv'
<1> SUFFICES ASSUME IInv, Commit PROVE IInv'
  OBVIOUS
<1>1. /\ stage = "written" /\ up /\ plan # None /\ plan.captured \in Snapshot /\ plan.marker \in MarkerSet
      /\ plan.blobs \subseteq Texts /\ plan.marker = MarkerOf(plan.captured)
      /\ disk.merged = plan.captured /\ plan.blobs \subseteq disk.blobs
  BY Components DEF IInv, LogInv, PlanInv, Commit
<1>2. plan.marker # None /\ plan.captured # None
  BY <1>1, NoneIsNothing
<1>3. /\ marker' = plan.marker /\ blobs' = blobs \cup plan.blobs /\ plan' = None /\ stage' = "idle"
      /\ UNCHANGED <<live, disk, up>>
  BY DEF Commit
<1>4. LogInv'
  BY <1>1, <1>3 DEF IInv, LogInv, LogTypes, Stages
<1>5. MemoryInv'
  BY <1>1, <1>2, <1>3 DEF IInv, MemoryInv
<1>6. DiskInv'
  BY <1>1, <1>2, <1>3 DEF IInv, DiskInv, MarkerIsOnDisk, TextsAreOnDisk
<1>7. PlanInv'
  BY <1>3 DEF PlanInv
<1> QED BY <1>4, <1>5, <1>6, <1>7 DEF IInv

LEMMA FailingKeepsIInv == IInv /\ Failing => IInv'
<1> SUFFICES ASSUME IInv, Failing PROVE IInv'
  OBVIOUS
<1>0. LogTypes /\ disk \in LogSet /\ (stage # "idle" => plan \in PlanSet /\ up)
  BY DEF IInv, LogInv, LogTypes
<1>1. ASSUME NEW kind \in TornKinds, NEW done \in SUBSET Texts, AppendFails(done, kind) PROVE IInv'
  <2>1. plan.record \in RecordSet /\ plan.blobs \subseteq Texts
    BY <1>0, <1>1 DEF AppendFails, PlanSet
  <2>2. Torn(kind, plan.blobs \ done, plan.record) \in TornSet
    BY <2>1 DEF Torn, TornSet
  <2>3. /\ disk' \in LogSet /\ disk'.merged = disk.merged /\ disk'.header = disk.header
        /\ disk'.blobs = disk.blobs \cup done
    BY <1>0, <1>1, <2>2 DEF AppendFails, LogSet
  <2>4. /\ stage = "append" /\ stage' = "idle" /\ plan' = None
        /\ UNCHANGED <<live, marker, blobs, up>>
    BY <1>1 DEF AppendFails, Abandon
  <2>5. LogInv'
    BY <1>0, <2>3, <2>4 DEF IInv, LogInv, LogTypes, Stages
  <2>6. MemoryInv' /\ DiskInv'
    BY <2>3, <2>4 DEF IInv, MemoryInv, DiskInv, MarkerIsOnDisk, TextsAreOnDisk
  <2>7. PlanInv'
    BY <2>4 DEF PlanInv
  <2> QED BY <2>5, <2>6, <2>7 DEF IInv
<1>2. ASSUME HeaderFails PROVE IInv'
  <2>1. disk.merged = None /\ blobs = {} /\ marker = None
    BY <1>0, <1>2 DEF IInv, DiskInv, MemoryInv, PlanInv, HeaderFails
  <2>2. disk' \in LogSet /\ disk'.merged = None /\ disk'.blobs = {} /\ disk'.tail = None
    BY <1>2 DEF HeaderFails, EmptyLog, LogSet
  <2>3. stage' = "idle" /\ plan' = None /\ UNCHANGED <<live, marker, blobs, up>>
    BY <1>2 DEF HeaderFails, Abandon
  <2>4. LogInv'
    BY <1>0, <2>2, <2>3 DEF IInv, LogInv, LogTypes, Stages
  <2>5. MemoryInv' /\ DiskInv'
    BY <2>1, <2>2, <2>3 DEF IInv, MemoryInv, DiskInv, MarkerIsOnDisk, TextsAreOnDisk
  <2>6. PlanInv'
    BY <2>3 DEF PlanInv
  <2> QED BY <2>4, <2>5, <2>6 DEF IInv
<1>3. ASSUME Crash PROVE IInv'
  <2>1. live' = EmptySession /\ live' \in Session /\ Behind(live'.history, live'.history)
    BY <1>3, EmptySeq DEF Crash, EmptySession, Session, Behind, Agree
  <2>2. /\ up' = FALSE /\ marker' = None /\ blobs' = {} /\ plan' = None /\ stage' = "idle" /\ disk' = disk
    BY <1>3 DEF Crash
  <2>3. LogInv'
    BY <1>0, <2>1, <2>2 DEF IInv, LogInv, LogTypes, Stages
  <2>4. MemoryInv' /\ DiskInv'
    BY <2>1, <2>2 DEF IInv, MemoryInv, DiskInv, MarkerIsOnDisk, TextsAreOnDisk
  <2>5. PlanInv'
    BY <2>2 DEF PlanInv
  <2> QED BY <2>3, <2>4, <2>5 DEF IInv
<1> QED BY <1>1, <1>2, <1>3 DEF Failing

\* Without a last line that parses, a reader sees the committed lines and no more.
LEMMA ReadersSeeTheLog ==
  ASSUME IInv, OnlyCutTails
  PROVE  /\ ReadMerged = disk.merged /\ ReadBlobs = {disk.blobs}
         /\ Readable <=> disk.merged # None
<1>1. disk.tail # None => disk.tail.kind = "cut"
  BY Components DEF IInv, LogInv, OnlyCutTails, TornSet
<1> QED BY <1>1 DEF ReadMerged, ReadBlobs, Readable, TailParses, Undecodable, IInv, LogInv

LEMMA RestartingKeepsIInv == OnlyCutTails /\ IInv /\ Restarting => IInv'
<1> SUFFICES ASSUME OnlyCutTails, IInv, Restarting PROVE IInv'
  OBVIOUS
<1>0. LogTypes /\ disk \in LogSet
  BY DEF IInv, LogInv, LogTypes
<1>1. CASE Load
  <2>1. ~up /\ stage = "idle" /\ plan = None /\ disk.merged \in Snapshot /\ disk.merged # None
    BY <1>1, ReadersSeeTheLog, Components DEF IInv, LogInv, Load
  <2>2. /\ live' = ResumedFrom(disk.merged) /\ marker' = MarkerOf(disk.merged) /\ blobs' = disk.blobs
        /\ up' = TRUE /\ UNCHANGED <<plan, stage, disk>>
    BY <1>1, ReadersSeeTheLog DEF Load
  <2>3. /\ disk.merged.messages \in Seq(Contents) /\ disk.merged.transcript \in Seq(Contents)
        /\ disk.merged.said \in Seq(Contents) /\ disk.merged.history \in Seq(Segment)
    BY <2>1 DEF Snapshot
  <2>4. disk.merged.transcript \o disk.merged.said \in Seq(Contents)
    BY <2>3, ConcatProperties
  <2>5. /\ live' \in Session /\ live'.history = disk.merged.history
        /\ live'.transcript = disk.merged.transcript \o disk.merged.said
    <3>1. Append(disk.merged.messages, Resumed) \in Seq(Contents)
      BY <2>3 DEF Contents
    <3> QED BY <2>2, <2>3, <2>4, <3>1, EmptySeq DEF ResumedFrom, Session
  <2>6. Behind(disk.merged.history, disk.merged.history)
    BY <2>1 DEF IInv, DiskInv
  <2>7. Older(disk.merged, live')
    BY <2>3, <2>5, <2>6, PrefixReflexive, PrefixGrows DEF Older
  <2>8. marker' \in MarkerSet /\ marker' # None
    BY <2>1, <2>2, MarkersAreTyped, NoneIsNothing
  <2>9. LogInv'
    BY <1>0, <2>1, <2>2, <2>5, <2>8, Components DEF IInv, LogInv, LogTypes
  <2>10. MemoryInv'
    BY <2>2, <2>5, <2>6, <2>8 DEF MemoryInv
  <2>11. DiskInv'
    BY <2>1, <2>2, <2>6, <2>7, <2>8 DEF IInv, DiskInv, MarkerIsOnDisk, TextsAreOnDisk
  <2>12. PlanInv'
    BY <2>1, <2>2 DEF PlanInv
  <2> QED BY <2>9, <2>10, <2>11, <2>12 DEF IInv
<1>2. CASE StartFresh
  <2>1. ~up /\ stage = "idle" /\ plan = None /\ marker = None /\ blobs = {}
    BY <1>2 DEF IInv, LogInv, MemoryInv, StartFresh
  <2>2. live' \in Session /\ Behind(live'.history, live'.history)
    BY <1>2, EmptySeq DEF StartFresh, EmptySession, Session, Behind, Agree
  <2>3. disk' \in LogSet /\ disk'.merged = None /\ disk'.blobs = {} /\ disk'.tail = None
    BY <1>2 DEF StartFresh, EmptyLog, LogSet
  <2>4. up' = TRUE /\ UNCHANGED <<marker, blobs, plan, stage>>
    BY <1>2 DEF StartFresh
  <2>5. LogInv'
    BY <1>0, <2>1, <2>2, <2>3, <2>4 DEF LogInv, LogTypes
  <2>6. MemoryInv' /\ DiskInv' /\ PlanInv'
    BY <2>1, <2>2, <2>3, <2>4 DEF MemoryInv, DiskInv, PlanInv, MarkerIsOnDisk, TextsAreOnDisk
  <2> QED BY <2>5, <2>6 DEF IInv
<1> QED BY <1>1, <1>2 DEF Restarting

LEMMA StepIInv == OnlyCutTails /\ IInv /\ [Next]_vars => IInv'
<1> SUFFICES ASSUME OnlyCutTails, IInv, [Next]_vars PROVE IInv'
  OBVIOUS
<1>1. CASE UNCHANGED vars
  BY <1>1 DEF IInv, LogInv, LogTypes, MemoryInv, DiskInv, PlanInv, MarkerIsOnDisk, TextsAreOnDisk
<1>2. CASE Conversing
  BY <1>2, ConversingKeepsIInv
<1>3. CASE Saving
  BY <1>3, PlanKeepsIInv, WritingKeepsIInv, CommitKeepsIInv DEF Saving
<1>4. CASE Failing
  BY <1>4, FailingKeepsIInv
<1>5. CASE Restarting
  BY <1>5, RestartingKeepsIInv
<1> QED BY <1>1, <1>2, <1>3, <1>4, <1>5 DEF Next

-----------------------------------------------------------------------------
(* The theorems.                                                           *)

THEOREM LogInvariant ==
  ASSUME OnlyCutTails
  PROVE  Spec => []IInv
<1>1. Init => IInv
  BY InitIInv
<1>2. IInv /\ [Next]_vars => IInv'
  BY StepIInv
<1> QED BY <1>1, <1>2, PTL DEF Spec

\* The baseline of the next delta is always what the log decodes to.
THEOREM MarkersDescribeTheLog ==
  ASSUME OnlyCutTails
  PROVE  Spec => []MarkerIsOnDisk
<1>1. IInv => MarkerIsOnDisk
  BY DEF IInv, DiskInv
<1> QED BY <1>1, LogInvariant, PTL

\* No record refers to a segment text that is not in the log.
THEOREM RecordsFindTheirTexts ==
  ASSUME OnlyCutTails
  PROVE  Spec => []TextsAreOnDisk
<1>1. IInv => TextsAreOnDisk
  BY DEF IInv, DiskInv
<1> QED BY <1>1, LogInvariant, PTL

\* The two together, as plan() and append() need them: what the next save is computed from is what
\* the log decodes to, and the log holds every text its records name.
THEOREM LogStaysWhole ==
  ASSUME OnlyCutTails
  PROVE  Spec => []LogIsWhole
<1>1. MarkerIsOnDisk /\ TextsAreOnDisk => LogIsWhole
  BY DEF LogIsWhole
<1> QED BY <1>1, MarkersDescribeTheLog, RecordsFindTheirTexts, PTL

\* The transcript on disk is a prefix of the one in memory, which is what makes a
\* length and a last entry enough to recognise it.
THEOREM TranscriptsAreContinued ==
  ASSUME OnlyCutTails
  PROVE  Spec => []SavedTranscriptIsPrefix
<1>1. IInv => SavedTranscriptIsPrefix
  BY DEF IInv, DiskInv, SavedTranscriptIsPrefix, Older
<1> QED BY <1>1, LogInvariant, PTL

\* A written save is the state plan() captured, whole.
THEOREM SavesAreExact ==
  ASSUME OnlyCutTails
  PROVE  Spec => []SaveIsExact
<1>1. IInv => SaveIsExact
  BY DEF IInv, PlanInv, SaveIsExact
<1> QED BY <1>1, LogInvariant, PTL

\* A step replaces what the log decodes to only by the capture in flight, or
\* opens a new log when there was nothing to decode.
LEMMA LogSteps ==
  ASSUME OnlyCutTails, IInv, [Next]_vars
  PROVE  \/ disk'.merged = disk.merged
         \/ /\ AppendRecord /\ disk'.merged = plan.captured
            /\ disk.merged # None => Older(disk.merged, plan.captured)
<1>1. disk \in LogSet
  BY DEF IInv, LogInv, LogTypes
<1>2. CASE AppendRecord
  BY <1>1, <1>2 DEF IInv, LogInv, PlanInv, AppendRecord, LogSet
<1>3. CASE TruncateTail \/ (\E kind \in TornKinds, done \in SUBSET Texts : AppendFails(done, kind))
  BY <1>1, <1>3 DEF TruncateTail, AppendFails, LogSet
<1>4. CASE WriteHeader \/ HeaderFails
  <2>1. disk.merged = None
    BY <1>4 DEF WriteHeader, HeaderFails, IInv, LogInv, DiskInv, PlanInv
  <2> QED BY <1>4, <2>1 DEF WriteHeader, HeaderFails, EmptyLog
<1>5. CASE StartFresh
  <2>1. disk.merged = None
    BY <1>5, ReadersSeeTheLog DEF StartFresh
  <2> QED BY <1>5, <2>1 DEF StartFresh, EmptyLog
<1>6. CASE Conversing \/ Plan \/ Commit \/ Crash \/ Load \/ UNCHANGED vars
  <2>1. disk' = disk
    BY <1>6 DEF Conversing, StageMessage, FinishTurn, RetractTurn, Compact, Working, Plan, Commit, Crash, Load
  <2> QED BY <2>1
<1> QED BY <1>2, <1>3, <1>4, <1>5, <1>6 DEF Next, Saving, Failing, Restarting

\* What was committed to the transcript is never rewritten or cut.
THEOREM TranscriptIsKept ==
  ASSUME OnlyCutTails
  PROVE  Spec => TranscriptOnlyGrows
<1> DEFINE Grows ==
      disk.merged # None /\ disk'.merged # None => IsPrefix(disk.merged.transcript, disk'.merged.transcript)
<1>1. IInv /\ [Next]_vars => [Grows]_disk
  <2> SUFFICES ASSUME IInv, [Next]_vars, disk.merged # None, disk'.merged # None
               PROVE  IsPrefix(disk.merged.transcript, disk'.merged.transcript)
    OBVIOUS
  <2>1. disk.merged.transcript \in Seq(Contents)
    BY Components DEF IInv, LogInv, Snapshot
  <2>2. CASE disk'.merged = disk.merged
    BY <2>1, <2>2, PrefixReflexive
  <2>3. CASE disk'.merged = plan.captured /\ Older(disk.merged, plan.captured)
    BY <2>3 DEF Older
  <2> QED BY <2>2, <2>3, LogSteps
<1> QED BY <1>1, LogInvariant, PTL DEF Spec, TranscriptOnlyGrows

\* The log implements DurableSession: what is durable is always a captured state,
\* replaced whole at AppendRecord, untouched by everything that fails, and what a
\* reload resumes.
THEOREM LogIsDurable ==
  ASSUME OnlyCutTails
  PROVE  Spec => DurableSpec
<1>1. Init => Durable!Init
  BY DEF Init, Durable!Init, InFlight, EmptyLog
<1>2. IInv /\ [Next]_vars => [Durable!Next]_(Durable!vars)
  <2> SUFFICES ASSUME IInv, [Next]_vars PROVE [Durable!Next]_(Durable!vars)
    OBVIOUS
  <2>0. /\ stage # "idle" => plan \in PlanSet /\ up
        /\ plan = None <=> stage = "idle"
        /\ ~up => stage = "idle"
    BY DEF IInv, LogInv, LogTypes
  <2> USE DEF Durable!Next, Durable!vars, InFlight
  <2>1. CASE Conversing
    <3>1. Durable!Work
      BY <2>1 DEF Conversing, StageMessage, FinishTurn, RetractTurn, Compact, Working, Durable!Work
    <3> QED BY <3>1
  <2>2. CASE Plan
    <3>1. Durable!BeginSave
      BY <2>0, <2>2 DEF Plan, Durable!BeginSave
    <3> QED BY <3>1
  <2>3. CASE WriteHeader
    <3>1. disk'.merged = disk.merged
      BY <2>0, <2>3, LogSteps DEF WriteHeader, AppendRecord
    <3> QED BY <2>3, <3>1 DEF WriteHeader
  <2>4. CASE TruncateTail
    <3>1. disk'.merged = disk.merged
      BY <2>0, <2>4, LogSteps DEF TruncateTail, AppendRecord
    <3> QED BY <2>4, <3>1 DEF TruncateTail
  <2>5. CASE AppendRecord
    <3>1. plan.captured # None /\ disk'.merged = plan.captured
      <4>1. plan.captured \in Snapshot
        BY <2>0, <2>5 DEF AppendRecord, PlanSet
      <4>2. disk \in LogSet /\ disk.tail = None /\ Merge(disk.merged, plan.record) = plan.captured
        BY <2>5 DEF AppendRecord, IInv, LogInv, LogTypes, PlanInv
      <4> QED BY <2>5, <4>1, <4>2, NoneIsNothing DEF AppendRecord, LogSet
    <3>2. Durable!Persist
      BY <2>0, <2>5, <3>1 DEF AppendRecord, Durable!Persist
    <3> QED BY <3>2
  <2>6. CASE Commit
    BY <2>6 DEF Commit
  <2>7. ASSUME NEW kind \in TornKinds, NEW done \in SUBSET Texts, AppendFails(done, kind)
        PROVE  Durable!SaveFails
    <3>1. disk'.merged = disk.merged
      BY <2>7, LogSteps DEF AppendFails, Abandon, AppendRecord
    <3> QED BY <2>0, <2>7, <3>1 DEF AppendFails, Abandon, Durable!SaveFails
  <2>8. CASE HeaderFails
    <3>1. disk'.merged = disk.merged
      BY <2>8, LogSteps DEF HeaderFails, Abandon, AppendRecord
    <3>2. Durable!SaveFails
      BY <2>0, <2>8, <3>1 DEF HeaderFails, Abandon, Durable!SaveFails
    <3> QED BY <3>2
  <2>9. CASE Crash
    <3>1. Durable!Die
      BY <2>0, <2>9 DEF Crash, Durable!Die
    <3> QED BY <3>1
  <2>10. CASE Load
    <3>1. Durable!Reload
      BY <2>0, <2>10, ReadersSeeTheLog DEF Load, Durable!Reload
    <3> QED BY <3>1
  <2>11. CASE StartFresh
    <3>1. disk.merged = None /\ disk'.merged = None
      BY <2>11, ReadersSeeTheLog DEF StartFresh, EmptyLog
    <3>2. Durable!Reload
      BY <2>0, <2>11, <3>1 DEF StartFresh, Durable!Reload
    <3> QED BY <3>2
  <2>12. CASE UNCHANGED vars
    BY <2>12
  <2> QED BY <2>1, <2>2, <2>3, <2>4, <2>5, <2>6, <2>7, <2>8, <2>9, <2>10, <2>11, <2>12
        DEF Next, Saving, Failing, Restarting
<1> QED BY <1>1, <1>2, LogInvariant, PTL DEF Spec, DurableSpec, Durable!Spec

-----------------------------------------------------------------------------
(* Transactions.                                                           *)

\* Inside a transaction of PlannedEdit.transact.
Locked == {"checked", "filling"}

\* The kinds of the state that the transactions need.
Domains ==
    /\ pc \in [Agents -> {"idle", "planning", "approval", "checked", "filling"}]
    /\ seen \in [Agents -> Nat] /\ outside \in Nat
    /\ DOMAIN planned = Agents /\ DOMAIN views = Agents /\ DOMAIN batches = Agents

\* path_lock: one transaction at a time.
OneTransaction == \A a, b \in Agents : pc[a] \in Locked /\ pc[b] \in Locked => a = b

\* A transaction that has checked the file still finds the text it compared, unless something outside has
\* changed it since.
StillAsChecked ==
    \A a \in Agents : pc[a] = "checked" =>
        /\ seen[a] <= outside
        /\ seen[a] = outside => Lines(file) = Lines(Head(planned[a]).before)

EditInv == Domains /\ OneTransaction /\ StillAsChecked

\* No transaction is under way at the start.
LEMMA InitEditInv == EditsInit => EditInv
  BY DEF EditsInit, EditInv, Domains, OneTransaction, StillAsChecked, Locked

\* A step that leaves transactions alone keeps the invariant.
LEMMA AwayFromTransactions ==
  ASSUME EditInv, NEW a \in Agents, pc[a] \notin Locked,
         pc' = pc \/ (\E s \in {"idle", "planning", "approval"} : pc' = [pc EXCEPT ![a] = s]),
         planned' = planned \/ (\E p : planned' = [planned EXCEPT ![a] = p]),
         DOMAIN views' = Agents, DOMAIN batches' = Agents,
         UNCHANGED <<file, seen, outside>>
  PROVE  EditInv'
<1>1. pc' \in [Agents -> {"idle", "planning", "approval", "checked", "filling"}] /\ DOMAIN planned' = Agents
  BY DEF EditInv, Domains
<1>2. ASSUME NEW b \in Agents, pc'[b] \in Locked
      PROVE  b # a /\ pc[b] = pc'[b] /\ planned'[b] = planned[b]
  BY <1>2 DEF EditInv, Domains, Locked
<1>3. OneTransaction'
  BY <1>2 DEF EditInv, OneTransaction
<1>4. StillAsChecked'
  <2> SUFFICES ASSUME NEW b \in Agents, pc'[b] = "checked"
               PROVE  seen[b] <= outside /\ (seen[b] = outside
                       => Lines(file) = Lines(Head(planned'[b]).before))
    BY DEF StillAsChecked, Lines
  <2> QED
    BY <1>2 DEF EditInv, StillAsChecked, Locked
<1> QED
  BY <1>1, <1>3, <1>4 DEF EditInv, Domains

\* A call that plans touches no transaction, its own included.
LEMMA PlanningKeepsInv ==
  ASSUME EditInv, NEW a \in Agents, Planning(a),
         planned' = planned \/ (\E p : planned' = [planned EXCEPT ![a] = p])
  PROVE  EditInv'
  BY AwayFromTransactions DEF Planning, EditInv, Domains, Locked

\* A call of apply leaves the planned edits or replaces those of its own agent.
LEMMA PlanCallPlans ==
  ASSUME NEW a \in Agents, NEW st, NEW rs, NEW mode, PlanCall(a, st, rs, mode)
  PROVE  planned' = planned \/ (\E p : planned' = [planned EXCEPT ![a] = p])
  BY DEF PlanCall, Refuse

\* apply, for targets named by a view.
LEMMA ViewKeepsInv ==
  ASSUME EditInv, NEW a \in Agents, NEW v, NEW edits, PlanView(a, v, edits)
  PROVE  EditInv'
<1> DEFINE st == FileState(draft[a], v.key)
           rs == {[edit |-> e, at |-> Located(st, v, e.from, e.to), len |-> e.to - e.from + 1,
                   content |-> e.content] : e \in edits}
<1>1. Refuse(a, st) \/ PlanCall(a, st, rs, "view")
  BY DEF PlanView
<1> HIDE DEF st, rs
<1>2. planned' = planned \/ (\E p : planned' = [planned EXCEPT ![a] = p])
  BY <1>1, PlanCallPlans DEF Refuse
<1> QED
  BY <1>2, PlanningKeepsInv DEF PlanView

\* apply, for text named directly.
LEMMA DirectKeepsInv ==
  ASSUME EditInv, NEW a \in Agents, NEW old, NEW content, PlanDirect(a, old, content)
  PROVE  EditInv'
<1> DEFINE st == FileState(draft[a], 0)
           rs == {[at |-> DirectTarget(st, old), len |-> Len(old), content |-> content]}
<1>1. Refuse(a, st) \/ PlanCall(a, st, rs, "direct")
  BY DEF PlanDirect
<1> HIDE DEF st, rs
<1>2. planned' = planned \/ (\E p : planned' = [planned EXCEPT ![a] = p])
  BY <1>1, PlanCallPlans DEF Refuse
<1> QED
  BY <1>2, PlanningKeepsInv DEF PlanDirect

\* apply, for a new file.
LEMMA CreateKeepsInv ==
  ASSUME EditInv, NEW a \in Agents, NEW content, PlanCreate(a, content)
  PROVE  EditInv'
<1> DEFINE st == IF draft[a].original = <<>> THEN FileState(draft[a], 0) ELSE draft[a]
           rs == {[at |-> 1, len |-> 0, content |-> content]}
<1>1. Refuse(a, st) \/ PlanCall(a, st, rs, st.evidence)
  BY DEF PlanCreate
<1> HIDE DEF st, rs
<1>2. planned' = planned \/ (\E p : planned' = [planned EXCEPT ![a] = p])
  BY <1>1, PlanCallPlans DEF Refuse
<1> QED
  BY <1>2, PlanningKeepsInv DEF PlanCreate

\* ReadTool: a view touches no transaction.
LEMMA ReadKeepsInv ==
  ASSUME EditInv, NEW a \in Agents, NEW from, NEW to, Read(a, from, to)
  PROVE  EditInv'
<1>1. DOMAIN views' = Agents /\ pc[a] = "idle"
  BY DEF EditInv, Domains, Read
<1> QED
  BY <1>1, AwayFromTransactions DEF Read, EditInv, Domains, Locked

\* Opening a batch, putting it up for approval, and an edit declined.
LEMMA ReviewsKeepInv ==
  ASSUME EditInv, NEW a \in Agents, Begin(a) \/ Review(a) \/ Decline(a)
  PROVE  EditInv'
<1>1. pc[a] \notin Locked /\ DOMAIN batches' = Agents /\ DOMAIN views' = Agents /\ UNCHANGED <<file, seen,
        outside>>
  BY DEF EditInv, Domains, Begin, Review, Decline, Locked
<1>2. \E s \in {"idle", "planning", "approval"} : pc' = [pc EXCEPT ![a] = s]
  BY DEF Begin, Review, Decline, Finish
<1>3. planned' = planned \/ (\E p : planned' = [planned EXCEPT ![a] = p])
  BY DEF Begin, Review, Decline, Finish
<1> QED
  BY <1>1, <1>2, <1>3, AwayFromTransactions

\* A cancelled call: before the transaction nothing of it is left, within it the write goes on.
LEMMA CancelKeepsInv ==
  ASSUME EditInv, NEW a \in Agents, Cancel(a)
  PROVE  EditInv'
<1>1. CASE pc[a] \notin Locked
  <2>1. pc' = [pc EXCEPT ![a] = "idle"] /\ planned' = [planned EXCEPT ![a] = <<>>]
    BY <1>1 DEF Cancel, Locked
  <2> QED
    BY <1>1, <2>1, AwayFromTransactions DEF Cancel, EditInv, Domains
<1>2. CASE pc[a] \in Locked
  <2>1. pc' = pc /\ planned' = [planned EXCEPT ![a] = <<Head(planned[a])>>]
    BY <1>2 DEF Cancel, Locked, EditInv, Domains
  <2>2. \A b \in Agents : Head(planned'[b]) = Head(planned[b])
    BY <2>1 DEF EditInv, Domains
  <2>3. DOMAIN planned' = Agents
    BY <2>1 DEF EditInv, Domains
  <2> QED
    BY <2>1, <2>2, <2>3 DEF Cancel, EditInv, Domains, OneTransaction, StillAsChecked, Lines
<1> QED
  BY <1>1, <1>2

\* The comparison of transact is what makes the invariant true of its own agent.
LEMMA CheckKeepsInv ==
  ASSUME EditInv, NEW a \in Agents, Check(a)
  PROVE  EditInv'
<1>1. CASE Lines(file) = Lines(Head(planned[a]).before)
  <2>1. pc' = [pc EXCEPT ![a] = "checked"] /\ seen' = [seen EXCEPT ![a] = outside] /\ UNCHANGED <<file,
          planned, outside, views, batches>>
    BY <1>1 DEF Check
  <2>2. \A b \in Agents : b # a => pc'[b] = pc[b] /\ pc[b] \notin Locked
    BY <2>1 DEF Check, LockIsFree, EditInv, Domains, Locked
  <2>3. Domains'
    BY <2>1 DEF EditInv, Domains
  <2>4. OneTransaction'
    BY <2>2 DEF OneTransaction
  <2>5. seen'[a] = outside /\ outside \in Nat
    BY <2>1 DEF EditInv, Domains
  <2>6. StillAsChecked'
    BY <1>1, <2>1, <2>2, <2>5 DEF StillAsChecked, Locked, Lines
  <2> QED
    BY <2>3, <2>4, <2>6 DEF EditInv
<1>2. CASE Lines(file) # Lines(Head(planned[a]).before)
  <2>1. Finish(a) /\ UNCHANGED <<file, seen, outside, views, batches>> /\ pc[a] = "approval"
    BY <1>2 DEF Check
  <2>2. \E s \in {"idle", "planning", "approval"} : pc' = [pc EXCEPT ![a] = s]
    BY <2>1 DEF Finish
  <2>3. \E p : planned' = [planned EXCEPT ![a] = p]
    BY <2>1 DEF Finish
  <2> QED
    BY <2>1, <2>2, <2>3, AwayFromTransactions DEF EditInv, Domains, Locked
<1> QED
  BY <1>1, <1>2

\* The file changes under the lock of its one holder.
LEMMA WritesKeepInv ==
  ASSUME EditInv, NEW a \in Agents, Truncate(a) \/ Fill(a)
  PROVE  EditInv'
<1>1. pc[a] \in Locked /\ UNCHANGED <<outside, views, batches>>
  BY DEF Truncate, Fill, Locked
<1>2. \E s \in {"filling", "idle", "approval"} : pc' = [pc EXCEPT ![a] = s]
  BY DEF Truncate, Fill, Finish
<1>3. planned' = planned \/ (\E p : planned' = [planned EXCEPT ![a] = p])
  BY DEF Truncate, Fill, Finish
<1>4. seen' = seen \/ seen' = [seen EXCEPT ![a] = 0]
  BY DEF Truncate, Fill
<1>5. Domains'
  BY <1>1, <1>2, <1>3, <1>4 DEF EditInv, Domains
<1>6. \A b \in Agents : b # a => pc'[b] = pc[b] /\ pc[b] \notin Locked
  BY <1>1, <1>2 DEF EditInv, Domains, OneTransaction
<1>7. pc'[a] # "checked"
  BY <1>2 DEF EditInv, Domains
<1>8. OneTransaction'
  BY <1>6 DEF OneTransaction
<1>9. StillAsChecked'
  BY <1>6, <1>7 DEF StillAsChecked, Locked
<1> QED
  BY <1>5, <1>8, <1>9 DEF EditInv

\* A change from outside is counted, so the transaction it meets is not thought to be as checked.
LEMMA OutsideKeepsInv == ASSUME EditInv, Outside PROVE EditInv'
<1>1. outside' = outside + 1 /\ UNCHANGED <<views, pc, planned, seen, batches>>
  BY DEF Outside
<1>2. Domains' /\ OneTransaction'
  BY <1>1 DEF EditInv, Domains, OneTransaction
<1>3. StillAsChecked'
  BY <1>1 DEF EditInv, Domains, StillAsChecked
<1> QED
  BY <1>2, <1>3 DEF EditInv

\* Each step keeps the transactions apart.
LEMMA StepKeepsInv == EditInv /\ [EditsNext]_editVars => EditInv'
<1> SUFFICES ASSUME EditInv, [EditsNext]_editVars PROVE EditInv'
  OBVIOUS
<1>1. CASE UNCHANGED editVars
  BY <1>1 DEF editVars, EditInv, Domains, OneTransaction, StillAsChecked, Lines
<1>2. CASE EditsNext
  BY <1>2, ReadKeepsInv, ViewKeepsInv, DirectKeepsInv, CreateKeepsInv, ReviewsKeepInv, CancelKeepsInv,
     CheckKeepsInv, WritesKeepInv, OutsideKeepsInv DEF EditsNext
<1> QED
  BY <1>1, <1>2

\* One transaction at a time holds the path, and between its check and its write the file keeps the text
\* it compared, unless something that takes no lock has changed it.
THEOREM EditInvariant == EditsSpec => []EditInv
  BY InitEditInv, StepKeepsInv, PTL DEF EditsSpec

\* PlannedEdit.transact, for any number of agents and edits: what an edit overwrites is the text it was
\* planned on and approved against, so no other agent's write is lost.
THEOREM WritesAreOnWhatWasPlanned == EditsSpec => NoLostUpdate
<1>1. EditInv /\ [EditsNext]_editVars =>
        [\A a \in Agents : pc[a] = "checked" /\ pc'[a] = "filling" =>
            Lines(file) = Lines(Head(planned[a]).before) \/ outside # seen[a]]_editVars
  BY DEF EditInv, StillAsChecked
<1> QED
  BY <1>1, EditInvariant, PTL DEF EditsSpec, NoLostUpdate

\* path_lock: no view and no batch's snapshot is taken between a transaction's truncation and its write.
THEOREM HalvesAreUnseen == EditsSpec => HalfWrittenIsUnseen
<1>1. [EditsNext]_editVars =>
        [(\E b \in Agents : views'[b] # views[b] \/ batches'[b] # batches[b])
            => \A a \in Agents : pc[a] # "filling"]_editVars
  <2> SUFFICES ASSUME EditsNext, NEW b \in Agents, views'[b] # views[b] \/ batches'[b] # batches[b]
               PROVE  \A a \in Agents : pc[a] # "filling"
    OBVIOUS
  <2>1. CASE \E a \in Agents : (\E r \in ReadRanges : Read(a, r[1], r[2])) \/ Begin(a)
    BY <2>1 DEF Read, Begin, LockIsFree
  <2>2. CASE \E a \in Agents :
                \/ \E i \in DOMAIN views[a], edits \in EditSets : PlanView(a, views[a][i], edits)
                \/ \E old, c \in NewLines : old # <<>> /\ PlanDirect(a, old, c)
                \/ \E c \in NewLines : PlanCreate(a, c)
    BY ZenonT(60), <2>2 DEF PlanView, PlanDirect, PlanCreate, Planning
  <2>3. CASE \E a \in Agents : Review(a) \/ Decline(a) \/ Cancel(a) \/ Check(a) \/ Truncate(a) \/ Fill(a)
    BY <2>3 DEF Review, Decline, Cancel, Check, Truncate, Fill
  <2>4. CASE Outside
    BY <2>4 DEF Outside
  <2> QED
    BY <2>1, <2>2, <2>3, <2>4 DEF EditsNext
<1> QED
  BY <1>1, PTL DEF EditsSpec, HalfWrittenIsUnseen

\* The two together: a write lands on what was planned, and nobody reads the middle of one.
THEOREM WritesStayWhole == EditsSpec => WritesAreWhole
  BY WritesAreOnWhatWasPlanned, HalvesAreUnseen, PTL DEF WritesAreWhole

-----------------------------------------------------------------------------
(* Sets of naturals, sequences and splices.                                *)

\* A set of naturals below a bound has a least element.
LEMMA LeastOf ==
  ASSUME NEW n \in Nat, NEW B \in SUBSET (0 .. n), B # {}
  PROVE  \E k \in B : \A j \in B : k <= j
<1> DEFINE S == 0 .. n
           F == {0 .. k : k \in B}
           R == StrictSubsetOrdering(S)
<1>1. IsWellFoundedOn(R, FiniteSubsetsOf(S))
  BY FS_StrictSubsetOrderingWellFounded
<1>2. F \subseteq FiniteSubsetsOf(S)
  <2>1. \A k \in B : 0 .. k \subseteq S /\ IsFiniteSet(0 .. k)
    BY FS_Interval
  <2> QED BY <2>1 DEF FiniteSubsetsOf
<1>3. F # {}
  OBVIOUS
<1>4. \E x \in F : \A y \in F : <<y, x>> \notin R
  <2> HIDE DEF F, R, S
  <2> QED BY <1>1, <1>2, <1>3, WFMin
<1>5. PICK k \in B : \A y \in F : <<y, 0 .. k>> \notin R
  BY <1>4
<1>6. ASSUME NEW j \in B, j < k PROVE FALSE
  <2>1. 0 .. j \in SUBSET S /\ 0 .. k \in SUBSET S /\ 0 .. j \subseteq 0 .. k /\ 0 .. j # 0 .. k
    <3>1. k \in 0 .. k /\ k \notin 0 .. j
      BY <1>6
    <3> QED BY <1>6, <3>1
  <2>2. <<0 .. j, 0 .. k>> \in R
    BY <2>1 DEF StrictSubsetOrdering
  <2> QED BY <2>2, <1>5
<1> QED BY <1>6

\* What is true of 0 and of each number after one it is true of is true up to n.
LEMMA UpTo ==
  ASSUME NEW n \in Nat, NEW T, 0 \in T, \A k \in 0 .. n - 1 : k \in T => k + 1 \in T
  PROVE  \A k \in 0 .. n : k \in T
<1> DEFINE B == (0 .. n) \ T
<1>1. CASE B = {}
  BY <1>1
<1>2. CASE B # {}
  <2>1. PICK k \in B : \A j \in B : k <= j
    <3> B \in SUBSET (0 .. n) OBVIOUS
    <3> HIDE DEF B
    <3> QED BY <1>2, LeastOf
  <2>2. k # 0 /\ k - 1 \in 0 .. n - 1 /\ k - 1 \notin B
    BY <2>1
  <2>3. k - 1 \in T
    BY <2>2
  <2>4. (k - 1) + 1 \in T
    BY <2>2, <2>3
  <2> QED BY <2>4, <2>1
<1> QED BY <1>1, <1>2

\* splice_lines, step by step.
LEMMA SplicedSteps ==
  ASSUME NEW lines, Len(lines) \in Nat, NEW rs, NEW stampOf
  PROVE  Spliced(lines, rs, stampOf) =
            [n \in 0 .. Len(lines) + 1 |->
                IF n = 0 THEN lines
                ELSE SpliceAt(Spliced(lines, rs, stampOf)[n - 1], Len(lines) + 2 - n, rs, stampOf)]
<1> DEFINE N == Len(lines) + 1
           Step(n, x) == SpliceAt(x, Len(lines) + 2 - n, rs, stampOf)
           IsSplice(f, m) == f = [n \in 0 .. m |-> IF n = 0 THEN lines ELSE Step(n, f[n - 1])]
           T == {m \in 0 .. N : \E f : IsSplice(f, m)}
<1>1. 0 \in T
  <2> DEFINE f == [n \in 0 .. 0 |-> lines]
  <2>1. IsSplice(f, 0) OBVIOUS
  <2>2. 0 \in 0 .. N OBVIOUS
  <2> HIDE DEF IsSplice, f
  <2> QED BY <2>1, <2>2
<1>2. ASSUME NEW k \in 0 .. N - 1, k \in T PROVE k + 1 \in T
  <2>1. PICK f : IsSplice(f, k)
    BY <1>2
  <2> DEFINE g == [n \in 0 .. k + 1 |-> IF n = k + 1 THEN Step(k + 1, f[k]) ELSE f[n]]
  <2>2. \A n \in 0 .. k + 1 : g[n] = IF n = 0 THEN lines ELSE Step(n, g[n - 1])
    <3> SUFFICES ASSUME NEW n \in 0 .. k + 1 PROVE g[n] = IF n = 0 THEN lines ELSE Step(n, g[n - 1])
      OBVIOUS
    <3> HIDE DEF Step
    <3>1. CASE n = k + 1
      <4>1. n # 0 /\ n - 1 = k /\ n - 1 \in 0 .. k + 1 /\ n - 1 # k + 1
        BY <3>1
      <4> QED BY <3>1, <4>1
    <3>2. CASE n # k + 1
      <4>1. n \in 0 .. k /\ (n # 0 => n - 1 \in 0 .. k /\ n - 1 \in 0 .. k + 1 /\ n - 1 # k + 1)
        BY <3>2
      <4>2. f[n] = IF n = 0 THEN lines ELSE Step(n, f[n - 1])
        BY <4>1, <2>1
      <4> QED BY <3>2, <4>1, <4>2
    <3> QED BY <3>1, <3>2
  <2>3. IsSplice(g, k + 1)
    <3> HIDE DEF Step
    <3>1. g = [n \in 0 .. k + 1 |-> g[n]]
      OBVIOUS
    <3> HIDE DEF g
    <3> QED BY <2>2, <3>1
  <2> QED
    <3>1. k + 1 \in 0 .. N OBVIOUS
    <3> HIDE DEF IsSplice, g
    <3> QED BY <2>3, <3>1
<1>3. N \in T
  <2> N \in Nat OBVIOUS
  <2>1. \A k \in 0 .. N - 1 : k \in T => k + 1 \in T
    BY <1>2
  <2> HIDE DEF T, N
  <2>2. \A k \in 0 .. N : k \in T
    BY <1>1, <2>1, UpTo
  <2> QED BY <2>2
<1>4. \E f : f = [n \in 0 .. N |-> IF n = 0 THEN lines ELSE Step(n, f[n - 1])]
  BY <1>3
<1> QED
  BY <1>4 DEF Spliced

\* The lines of a file, and of a planned file.
LineId == Nat \X Nat \X Nat
FileLine == [text : LineTexts, id : LineId]
PlannedLine == [text : LineTexts, id : LineId, origin : {<<>>} \cup (Nat \X Nat)]
Written(line) == line.origin = <<>>

\* A part of a sequence.
LEMMA Cut ==
  ASSUME NEW S, NEW s \in Seq(S), NEW m \in 1 .. Len(s) + 1, NEW n \in m - 1 .. Len(s)
  PROVE  /\ SubSeq(s, m, n) \in Seq(S) /\ Len(SubSeq(s, m, n)) = n - m + 1
         /\ \A i \in 1 .. n - m + 1 : SubSeq(s, m, n)[i] = s[m + i - 1]
<1>1. SubSeq(s, m, n) \in Seq(S)
  BY SubSeqProperties, ElementOfSeq
<1>2. Len(SubSeq(s, m, n)) = n - m + 1
  OBVIOUS
<1>3. \A i \in 1 .. n - m + 1 : SubSeq(s, m, n)[i] = s[m + i - 1]
  OBVIOUS
<1> QED BY <1>1, <1>2, <1>3

\* Two sequences joined.
LEMMA Joined ==
  ASSUME NEW S, NEW s \in Seq(S), NEW t \in Seq(S)
  PROVE  /\ s \o t \in Seq(S) /\ Len(s \o t) = Len(s) + Len(t)
         /\ \A i \in 1 .. Len(s) : (s \o t)[i] = s[i]
         /\ \A i \in 1 .. Len(t) : (s \o t)[Len(s) + i] = t[i]
<1>1. s \o t \in Seq(S) /\ Len(s \o t) = Len(s) + Len(t)
  OBVIOUS
<1>2. \A i \in 1 .. Len(s) : (s \o t)[i] = s[i]
  OBVIOUS
<1>3. \A i \in 1 .. Len(t) : (s \o t)[Len(s) + i] = t[i]
  OBVIOUS
<1> QED BY <1>1, <1>2, <1>3

\* What a splice leaves where.
LEMMA SpliceIs ==
  ASSUME NEW S, NEW s \in Seq(S), NEW new \in Seq(S), NEW at \in 1 .. Len(s) + 1, NEW n \in Nat,
         at + n - 1 <= Len(s)
  PROVE  LET t == Splice(s, at, n, new)
         IN /\ t \in Seq(S) /\ Len(t) = Len(s) - n + Len(new)
            /\ \A i \in 1 .. at - 1 : t[i] = s[i]
            /\ \A i \in 1 .. Len(new) : t[at - 1 + i] = new[i]
            /\ \A i \in at + n .. Len(s) : t[i - n + Len(new)] = s[i]
<1> DEFINE before == SubSeq(s, 1, at - 1)
           after == SubSeq(s, at + n, Len(s))
           head == before \o new
           t == head \o after
<1>0. Len(s) \in Nat /\ Len(new) \in Nat
  OBVIOUS
<1>1. before \in Seq(S) /\ Len(before) = at - 1 /\ \A i \in 1 .. at - 1 : before[i] = s[i]
  <2>1. 1 \in 1 .. Len(s) + 1 /\ at - 1 \in 1 - 1 .. Len(s) /\ (at - 1) - 1 + 1 = at - 1
          /\ \A i \in 1 .. at - 1 : 1 + i - 1 = i
    BY <1>0
  <2> QED BY <2>1, Cut
<1>2. after \in Seq(S) /\ Len(after) = Len(s) - (at + n) + 1
        /\ \A i \in 1 .. Len(s) - (at + n) + 1 : after[i] = s[at + n + i - 1]
  <2>1. at + n \in 1 .. Len(s) + 1 /\ Len(s) \in (at + n) - 1 .. Len(s)
    BY <1>0
  <2> QED BY <2>1, Cut
<1> HIDE DEF before, after
<1>3. head \in Seq(S) /\ Len(head) = at - 1 + Len(new)
      /\ (\A i \in 1 .. at - 1 : head[i] = before[i]) /\ (\A i \in 1 .. Len(new) : head[at - 1 + i] = new[i])
  <2>1. before \in Seq(S) /\ new \in Seq(S)
    BY <1>1
  <2> HIDE DEF head
  <2>2. head = before \o new
    BY DEF head
  <2>3. /\ head \in Seq(S) /\ Len(head) = Len(before) + Len(new)
        /\ \A i \in 1 .. Len(before) : head[i] = before[i]
        /\ \A i \in 1 .. Len(new) : head[Len(before) + i] = new[i]
    BY ONLY <2>1, <2>2, Joined
  <2> QED BY <1>1, <2>3
<1> HIDE DEF head
<1>4. t \in Seq(S) /\ Len(t) = Len(head) + Len(after)
      /\ (\A i \in 1 .. Len(head) : t[i] = head[i])
              /\ (\A i \in 1 .. Len(after) : t[Len(head) + i] = after[i])
  <2>1. head \in Seq(S) /\ after \in Seq(S)
    BY <1>2, <1>3
  <2> HIDE DEF t
  <2>2. t = head \o after
    BY DEF t
  <2> QED BY ONLY <2>1, <2>2, Joined
<1>5. Splice(s, at, n, new) = t
  BY DEF Splice, head, before, after
<1> HIDE DEF t
<1>6. Len(t) = Len(s) - n + Len(new)
  BY <1>0, <1>2, <1>3, <1>4, SMTT(40)
<1>7. \A i \in 1 .. at - 1 : t[i] = s[i]
  <2> TAKE i \in 1 .. at - 1
  <2>1. i \in 1 .. Len(head)
    BY <1>0, <1>3
  <2> QED BY <2>1, <1>1, <1>3, <1>4
<1>8. \A i \in 1 .. Len(new) : t[at - 1 + i] = new[i]
  <2> TAKE i \in 1 .. Len(new)
  <2>1. at - 1 + i \in 1 .. Len(head)
    BY <1>0, <1>3
  <2> QED BY <2>1, <1>3, <1>4
<1>9. \A i \in at + n .. Len(s) : t[i - n + Len(new)] = s[i]
  <2> TAKE i \in at + n .. Len(s)
  <2> DEFINE m == i - (at + n) + 1
  <2>1. m \in 1 .. Len(after) /\ m \in 1 .. Len(s) - (at + n) + 1 /\ at + n + m - 1 = i
          /\ Len(head) + m = i - n + Len(new)
    BY <1>0, <1>2, <1>3
  <2> HIDE DEF m
  <2>2. t[Len(head) + m] = after[m] /\ after[m] = s[at + n + m - 1]
    BY <2>1, <1>2, <1>4
  <2> QED BY <2>1, <2>2
<1> QED
  BY <1>4, <1>5, <1>6, <1>7, <1>8, <1>9

\* Each line of a splice was there or is new.
LEMMA SpliceFrom ==
  ASSUME NEW S, NEW s \in Seq(S), NEW new \in Seq(S), NEW at \in 1 .. Len(s) + 1, NEW n \in Nat,
         at + n - 1 <= Len(s), NEW j \in 1 .. Len(Splice(s, at, n, new))
  PROVE  (\E i \in 1 .. Len(s) : Splice(s, at, n, new)[j] = s[i]) \/ (\E i \in 1 .. Len(new) : Splice(s, at,
          n, new)[j] = new[i])
<1> DEFINE t == Splice(s, at, n, new)
<1>0. Len(s) \in Nat /\ Len(new) \in Nat
  OBVIOUS
<1>1. /\ t \in Seq(S) /\ Len(t) = Len(s) - n + Len(new)
      /\ \A i \in 1 .. at - 1 : t[i] = s[i]
      /\ \A i \in 1 .. Len(new) : t[at - 1 + i] = new[i]
      /\ \A i \in at + n .. Len(s) : t[i - n + Len(new)] = s[i]
  BY ZenonT(60), SpliceIs
<1>2. j \in 1 .. Len(t)
  OBVIOUS
<1> HIDE DEF t
<1>3. CASE j <= at - 1
  <2>1. j \in 1 .. at - 1 /\ j \in 1 .. Len(s)
    BY <1>0, <1>1, <1>2, <1>3
  <2> QED BY <2>1, <1>1 DEF t
<1>4. CASE at <= j /\ j <= at - 1 + Len(new)
  <2>1. j - at + 1 \in 1 .. Len(new) /\ at - 1 + (j - at + 1) = j
    BY <1>0, <1>1, <1>2, <1>4
  <2>2. t[at - 1 + (j - at + 1)] = new[j - at + 1]
    BY <2>1, <1>1
  <2>3. t[j] = new[j - at + 1]
    BY <2>1, <2>2
  <2> QED BY <2>1, <2>3 DEF t
<1>5. CASE j > at - 1 + Len(new)
  <2> DEFINE i == j + n - Len(new)
  <2>1. i \in at + n .. Len(s) /\ i \in 1 .. Len(s) /\ i - n + Len(new) = j
    BY SMTT(40), <1>0, <1>1, <1>2, <1>5
  <2> HIDE DEF i
  <2>2. t[i - n + Len(new)] = s[i]
    BY <2>1, <1>1
  <2> QED BY <2>1, <2>2 DEF t
<1> QED BY <1>0, <1>1, <1>2, <1>3, <1>4, <1>5

-----------------------------------------------------------------------------
(* A call of splice_lines.                                                 *)

\* Replacements that fit into the file.
Placed(lines, rs) ==
    \A r \in rs : /\ r.at \in 1 .. Len(lines) + 1 /\ r.len \in Nat /\ r.at + r.len - 1 <= Len(lines)
                  /\ r.content \in Seq(LineTexts)

\* The lines a call's replacements take.
Covered(rs) == UNION {r.at .. r.at + r.len - 1 : r \in rs}

\* s is lines with the replacements from place p on made.
Made(lines, rs, p, s) ==
    /\ s \in Seq(PlannedLine)
    /\ \A q \in 1 .. Len(lines) + 1 : (\A r \in rs : r.at >= p => r.at >= q) =>
            Len(s) >= q - 1 /\ \A i \in 1 .. q - 1 : s[i] = lines[i]
    /\ \A j \in 1 .. Len(s) : Written(s[j]) \/ \E i \in 1 .. Len(lines) : s[j] = lines[i]
    /\ \A i \in 1 .. Len(lines) :
            (\E c \in Covered(rs) : lines[c] = lines[i]) \/ \E j \in 1 .. Len(s) : s[j] = lines[i]

\* The lines of a replacement are lines the batch wrote.
LEMMA ReplacementIs ==
  ASSUME NEW r, NEW stampOf \in Nat, r.at \in Nat, r.content \in Seq(LineTexts)
  PROVE  /\ Replacement(r, stampOf) \in Seq(PlannedLine)
         /\ \A i \in 1 .. Len(Replacement(r, stampOf)) : Written(Replacement(r, stampOf)[i])
<1>1. Len(r.content) \in Nat /\ \A i \in 1 .. Len(r.content) : r.content[i] \in LineTexts
  OBVIOUS
<1>2. \A i \in 1 .. Len(r.content) :
        [text |-> r.content[i], id |-> <<stampOf, r.at, i>>, origin |-> <<>>] \in PlannedLine
  BY <1>1 DEF PlannedLine, LineId
<1>3. Replacement(r, stampOf) \in Seq(PlannedLine) /\ Len(Replacement(r, stampOf)) = Len(r.content)
  BY <1>1, <1>2 DEF Replacement
<1>4. \A i \in 1 .. Len(r.content) : Written(Replacement(r, stampOf)[i])
  BY DEF Replacement, Written
<1> QED BY <1>3, <1>4

\* One place of splice_lines: the replacement that begins there is made, and nothing before it moves.
LEMMA StepMakes ==
  ASSUME NEW lines \in Seq(PlannedLine), NEW rs, Placed(lines, rs), ~Overlap(rs), NEW stampOf \in Nat,
         NEW p \in 1 .. Len(lines) + 1, NEW s, Made(lines, rs, p + 1, s)
  PROVE  Made(lines, rs, p, SpliceAt(s, p, rs, stampOf))
<1>0. Len(lines) \in Nat /\ s \in Seq(PlannedLine) /\ Len(s) \in Nat
  BY DEF Made
<1>t. \A r \in rs : r.at \in Nat /\ r.len \in Nat
  BY DEF Placed
<1>1. CASE \A r \in rs : r.at # p
  <2>1. {r \in rs : r.at = p} = {}
    BY <1>1
  <2>2. SpliceAt(s, p, rs, stampOf) = s
    BY <2>1 DEF SpliceAt
  <2>3. \A r \in rs : r.at >= p => r.at >= p + 1
    BY <1>1, <1>t
  <2>4. ASSUME NEW q \in 1 .. Len(lines) + 1, \A r \in rs : r.at >= p => r.at >= q
        PROVE  \A r \in rs : r.at >= p + 1 => r.at >= q
    BY <2>4, <1>t
  <2>5. Made(lines, rs, p, s)
    BY <2>4 DEF Made
  <2> QED BY <2>2, <2>5
<1>2. CASE \E r \in rs : r.at = p
  <2> DEFINE here == {x \in rs : x.at = p}
  <2>1. PICK r \in here : r = CHOOSE x \in here : TRUE
    BY <1>2
  <2>2. r \in rs /\ r.at = p /\ r.len \in Nat /\ p + r.len - 1 <= Len(lines) /\ r.content \in Seq(LineTexts)
    BY <2>1 DEF Placed
  <2> DEFINE new == Replacement(r, stampOf)
             t == Splice(s, p, r.len, new)
             q0 == p + r.len
  <2>3. SpliceAt(s, p, rs, stampOf) = t
    BY <2>1 DEF SpliceAt
  <2>4. new \in Seq(PlannedLine) /\ \A i \in 1 .. Len(new) : Written(new[i])
    BY SMTT(40), <2>2, ReplacementIs
  <2>5. Len(s) >= q0 - 1 /\ \A i \in 1 .. q0 - 1 : s[i] = lines[i]
    <3>1. q0 \in 1 .. Len(lines) + 1
      BY SMTT(40), <1>0, <2>2
    <3>2. ASSUME NEW x \in rs, x.at >= p + 1 PROVE x.at >= q0
      <4>1. x # r /\ r.at <= x.at
        BY <2>2, <3>2, <1>t
      <4>2. ~(x.at < r.at + r.len)
        BY <4>1, <2>2 DEF Overlap
      <4> QED BY SMTT(40), <4>2, <2>2, <1>t
    <3> HIDE DEF q0
    <3> QED BY <3>1, <3>2 DEF Made
  <2>6. p \in 1 .. Len(s) + 1 /\ p + r.len - 1 <= Len(s)
    BY <1>0, <2>2, <2>5
  <2> HIDE DEF new
  <2>7. /\ t \in Seq(PlannedLine) /\ Len(t) = Len(s) - r.len + Len(new)
        /\ \A i \in 1 .. p - 1 : t[i] = s[i]
        /\ \A i \in p + r.len .. Len(s) : t[i - r.len + Len(new)] = s[i]
    <3> HIDE DEF t
    <3> DEFINE n == r.len
    <3>1. n \in Nat /\ p + n - 1 <= Len(s)
      BY <2>2, <2>6
    <3> HIDE DEF n
    <3> DEFINE u == Splice(s, p, n, new)
    <3>2. /\ u \in Seq(PlannedLine) /\ Len(u) = Len(s) - n + Len(new)
          /\ \A i \in 1 .. p - 1 : u[i] = s[i]
          /\ \A i \in 1 .. Len(new) : u[p - 1 + i] = new[i]
          /\ \A i \in p + n .. Len(s) : u[i - n + Len(new)] = s[i]
      <4>1. new \in Seq(PlannedLine) /\ s \in Seq(PlannedLine) /\ p \in 1 .. Len(s) + 1
        BY <1>0, <2>4, <2>6
      <4> QED BY ONLY SMTT(40), <4>1, <3>1, SpliceIs
    <3> HIDE DEF u
    <3>3. t = u
      BY DEF t, u, n
    <3> QED BY <3>2, <3>3 DEF n
  <2>8. \A j \in 1 .. Len(t) : (\E i \in 1 .. Len(s) : t[j] = s[i])
          \/ (\E i \in 1 .. Len(new) : t[j] = new[i])
    <3> DEFINE n == r.len
    <3>1. n \in Nat /\ p + n - 1 <= Len(s)
      BY <2>2, <2>6
    <3> HIDE DEF n
    <3>2. \A j \in 1 .. Len(Splice(s, p, n, new)) :
             (\E i \in 1 .. Len(s) : Splice(s, p, n, new)[j] = s[i]) \/ (\E i \in 1 .. Len(new) : Splice(s,
                     p, n, new)[j] = new[i])
      <4>1. new \in Seq(PlannedLine) /\ s \in Seq(PlannedLine) /\ p \in 1 .. Len(s) + 1
        BY <1>0, <2>4, <2>6
      <4> QED BY ONLY SMTT(40), <4>1, <3>1, SpliceFrom
    <3> QED BY <3>2 DEF n
  <2> HIDE DEF t
  <2>9. ASSUME NEW q \in 1 .. Len(lines) + 1, \A x \in rs : x.at >= p => x.at >= q
        PROVE  Len(t) >= q - 1 /\ \A i \in 1 .. q - 1 : t[i] = lines[i]
    <3>1. q <= p
      BY <2>2, <2>9
    <3>2. Len(t) >= p - 1
      BY <1>0, <2>2, <2>4, <2>6, <2>7, SMTT(40)
    <3>3. \A i \in 1 .. q - 1 : i \in 1 .. p - 1 /\ i \in 1 .. q0 - 1
      BY <3>1, <2>2
    <3>4. \A i \in 1 .. q - 1 : t[i] = lines[i]
      <4> HIDE DEF q0
      <4> QED BY <3>3, <2>5, <2>7
    <3>5. Len(t) \in Nat
      BY <2>7
    <3> QED BY <3>1, <3>2, <3>4, <3>5
  <2>10. \A j \in 1 .. Len(t) : Written(t[j]) \/ \E i \in 1 .. Len(lines) : t[j] = lines[i]
    <3> TAKE j \in 1 .. Len(t)
    <3>1. CASE \E i \in 1 .. Len(s) : t[j] = s[i]
      BY <3>1 DEF Made
    <3>2. CASE \E i \in 1 .. Len(new) : t[j] = new[i]
      BY <3>2, <2>4
    <3> QED BY <3>1, <3>2, <2>8
  <2>11. \A i \in 1 .. Len(lines) :
            (\E c \in Covered(rs) : lines[c] = lines[i]) \/ \E j \in 1 .. Len(t) : t[j] = lines[i]
    <3> TAKE i \in 1 .. Len(lines)
    <3>1. CASE \E c \in Covered(rs) : lines[c] = lines[i]
      BY <3>1
    <3>2. CASE \E j \in 1 .. Len(s) : s[j] = lines[i]
      <4>1. PICK j \in 1 .. Len(s) : s[j] = lines[i]
        BY <3>2
      <4>2. CASE j <= p - 1
        <5>1. j \in 1 .. p - 1 /\ j \in 1 .. Len(t)
          BY <1>0, <2>2, <2>4, <2>6, <2>7, <4>2, SMTT(40)
        <5> QED BY <5>1, <4>1, <2>7
      <4>3. CASE p <= j /\ j <= p + r.len - 1
        <5>1. j \in 1 .. q0 - 1 /\ j \in r.at .. r.at + r.len - 1
          BY <2>2, <4>3
        <5>2. s[j] = lines[j]
          <6> HIDE DEF q0
          <6> QED BY <5>1, <2>5
        <5>3. j \in Covered(rs)
          BY <5>1, <2>2 DEF Covered
        <5> QED BY <4>1, <5>2, <5>3
      <4>4. CASE j >= p + r.len
        <5>1. j \in p + r.len .. Len(s) /\ j - r.len + Len(new) \in 1 .. Len(t)
          <6>1. Len(new) \in Nat /\ Len(t) = Len(s) - r.len + Len(new)
            BY <2>4, <2>7
          <6>2. r.len \in Nat /\ p \in Nat /\ j \in Nat /\ j <= Len(s) /\ Len(s) \in Nat /\ p >= 1
                  /\ j >= p + r.len
            BY <1>0, <2>2, <4>4
          <6> HIDE DEF q0
          <6> QED BY ONLY <6>1, <6>2, SMTT(40)
        <5> QED BY <5>1, <4>1, <2>7
      <4> QED BY SMTT(40), <4>2, <4>3, <4>4, <2>2
    <3> QED BY <3>1, <3>2 DEF Made
  <2> QED
    BY <2>3, <2>7, <2>9, <2>10, <2>11 DEF Made
<1> QED BY <1>1, <1>2

\* splice_lines keeps every line it does not take, and each line of its result was in the file or is new.
LEMMA SplicesKeep ==
  ASSUME NEW lines \in Seq(PlannedLine), NEW rs, Placed(lines, rs), ~Overlap(rs), NEW stampOf \in Nat
  PROVE  Made(lines, rs, 1, SpliceLines(lines, rs, stampOf))
<1> DEFINE N == Len(lines) + 1
           f == Spliced(lines, rs, stampOf)
           T == {n \in 0 .. N : Made(lines, rs, Len(lines) + 2 - n, f[n])}
<1>0. Len(lines) \in Nat /\ N \in Nat
  OBVIOUS
<1>1. f = [n \in 0 .. N |-> IF n = 0 THEN lines ELSE SpliceAt(f[n - 1], Len(lines) + 2 - n, rs, stampOf)]
  BY <1>0, SplicedSteps
<1> HIDE DEF f
<1>2. 0 \in T
  <2>1. f[0] = lines
    BY <1>0, <1>1
  <2>2. Made(lines, rs, Len(lines) + 2, lines)
    BY <1>0 DEF Made
  <2>3. 0 \in 0 .. N /\ Len(lines) + 2 - 0 = Len(lines) + 2
    BY <1>0
  <2> QED BY <2>1, <2>2, <2>3
<1>3. ASSUME NEW n \in 0 .. N - 1, n \in T PROVE n + 1 \in T
  <2> DEFINE p == Len(lines) + 2 - (n + 1)
  <2>1. p \in 1 .. Len(lines) + 1 /\ p + 1 = Len(lines) + 2 - n /\ n + 1 \in 0 .. N /\ n + 1 # 0
          /\ (n + 1) - 1 = n
    BY <1>0
  <2>2. f[n + 1] = SpliceAt(f[n], p, rs, stampOf)
    <3> HIDE DEF N
    <3> QED BY <1>1, <2>1
  <2>3. Made(lines, rs, p + 1, f[n])
    BY <1>3, <2>1
  <2> HIDE DEF p
  <2>4. Made(lines, rs, p, f[n + 1])
    BY <2>1, <2>2, <2>3, StepMakes
  <2> QED BY <2>1, <2>4 DEF p
<1>4. N \in T
  <2>1. \A n \in 0 .. N - 1 : n \in T => n + 1 \in T
    BY <1>3
  <2> HIDE DEF T, N
  <2>2. \A n \in 0 .. N : n \in T
    BY <1>0, <1>2, <2>1, UpTo
  <2> QED BY <2>2, <1>0
<1>5. Len(lines) + 2 - N = 1
  BY <1>0
<1> QED BY <1>4, <1>5 DEF SpliceLines, f

-----------------------------------------------------------------------------
(* The planned file of a batch.                                            *)

\* What a view, a batch's draft and its evidence may be.
View == [key : Nat \ {0}, first : Nat \ {0}, lines : Seq(FileLine)]

Evidence == {"", "view", "direct"}

Draft == [opened : BOOLEAN, base : Nat, original : Seq(FileLine), lines : Seq(PlannedLine),
          consumed : SUBSET (Nat \X Nat), edited : BOOLEAN, evidence : Evidence, calls : Nat]

\* A planned line is line n of the batch's snapshot.
Stands(d, line, n) ==
    line.origin = <<d.base, n>> /\ line.text = d.original[n].text /\ line.id = d.original[n].id

\* What is always true of a draft: its lines stand for lines of the snapshot or were written by the batch, and a
\* line of the snapshot is consumed or still stands.
DraftOK(d) ==
    /\ d \in Draft
    /\ ~d.opened => ~d.edited
    /\ d.opened => \A i \in 1 .. Len(d.lines) :
            Written(d.lines[i]) \/ \E n \in 1 .. Len(d.original) : Stands(d, d.lines[i], n)
    /\ d.opened => \A n \in 1 .. Len(d.original) :
            <<d.base, n>> \in d.consumed \/ \E i \in 1 .. Len(d.lines) : d.lines[i].origin = <<d.base, n>>
    /\ ~d.edited => /\ d.consumed = {}
                    /\ d.opened => /\ Len(d.lines) = Len(d.original)
                                   /\ \A i \in 1 .. Len(d.original) : Stands(d, d.lines[i], i)

\* The texts of a sequence of lines.
LEMMA LinesIs ==
  ASSUME NEW S, NEW s \in Seq(S)
  PROVE  Len(Lines(s)) = Len(s) /\ \A i \in 1 .. Len(s) : Lines(s)[i] = s[i].text
<1> DEFINE T == {s[i].text : i \in 1 .. Len(s)}
<1>1. Lines(s) \in Seq(T) /\ Len(Lines(s)) = Len(s)
  BY DEF Lines
<1>2. \A i \in 1 .. Len(s) : Lines(s)[i] = s[i].text
  BY DEF Lines
<1> QED BY <1>1, <1>2

\* The part of a view that an edit names.
LEMMA ShownIs ==
  ASSUME NEW v \in View, NEW from \in Int, NEW to \in Int, v.first <= from, from <= to + 1, to <= ViewEnd(v)
  PROVE  /\ Shown(v, from, to) \in Seq(FileLine) /\ Len(Shown(v, from, to)) = to - from + 1
         /\ \A k \in 1 .. to - from + 1 : Shown(v, from, to)[k] = v.lines[from - v.first + k]
<1>0. v.lines \in Seq(FileLine) /\ v.first \in Nat \ {0} /\ Len(v.lines) \in Nat
  BY DEF View
<1> DEFINE s == v.lines
           m == from - v.first + 1
           n == to - v.first + 1
<1>1. m \in 1 .. Len(s) + 1 /\ n \in m - 1 .. Len(s) /\ n - m + 1 = to - from + 1
  <2>1. PICK f \in Nat \ {0}, e \in Nat : f = v.first /\ e = Len(s)
    BY <1>0
  <2>2. f <= from /\ to <= f + e - 1 /\ m = from - f + 1 /\ n = to - f + 1
    BY <2>1 DEF ViewEnd
  <2> HIDE DEF s, m, n
  <2>3. m \in 1 .. e + 1 /\ n \in m - 1 .. e /\ n - m + 1 = to - from + 1
    BY <2>2
  <2> QED BY <2>1, <2>3
<1>2. Shown(v, from, to) = SubSeq(s, m, n)
  BY DEF Shown
<1>3. \A k \in 1 .. to - from + 1 : m + k - 1 = from - v.first + k
  BY <1>0
<1>4. s \in Seq(FileLine)
  BY <1>0
<1> HIDE DEF s, m, n
<1>5. SubSeq(s, m, n) \in Seq(FileLine) /\ Len(SubSeq(s, m, n)) = n - m + 1
         /\ \A i \in 1 .. n - m + 1 : SubSeq(s, m, n)[i] = s[m + i - 1]
  BY <1>1, <1>4, Cut
<1>6. \A k \in 1 .. to - from + 1 : SubSeq(s, m, n)[k] = s[from - v.first + k]
  BY <1>1, <1>3, <1>5
<1> QED BY <1>1, <1>2, <1>5, <1>6 DEF s

\* file_state: a batch's planned file begins as its snapshot.
LEMMA OpenedOK ==
  ASSUME NEW d, DraftOK(d), NEW key \in Nat
  PROVE  DraftOK(FileState(d, key)) /\ FileState(d, key).opened = TRUE /\ FileState(d,
          key).original = d.original
         /\ FileState(d, key).edited = d.edited /\ FileState(d, key).evidence = d.evidence
<1>1. CASE d.opened
  BY <1>1 DEF FileState
<1>2. CASE ~d.opened
  <2> DEFINE o == d.original
             ls == [i \in 1 .. Len(o) |-> [text |-> o[i].text, id |-> o[i].id, origin |-> <<key, i>>]]
             st == [d EXCEPT !.opened = TRUE, !.base = key, !.lines = ls]
  <2>1. FileState(d, key) = st
    BY <1>2 DEF FileState
  <2>2. d \in Draft /\ d.original \in Seq(FileLine) /\ ~d.edited /\ d.consumed = {} /\ Len(o) \in Nat
    <3>1. d \in Draft /\ ~d.edited /\ d.consumed = {}
      BY <1>2 DEF DraftOK
    <3>2. d.original \in Seq(FileLine)
      BY SMTT(40), <3>1 DEF Draft
    <3> QED BY <3>1, <3>2
  <2>3. st \in [opened : {TRUE}, base : {key}, original : {o}, lines : {ls}, consumed : {{}},
          edited : {FALSE},
                evidence : {d.evidence}, calls : {d.calls}]
    BY <2>2 DEF Draft
  <2>4. \A i \in 1 .. Len(o) : o[i].text \in LineTexts /\ o[i].id \in LineId
    <3> TAKE i \in 1 .. Len(o)
    <3>1. o[i] \in FileLine
      BY <2>2
    <3> QED BY <3>1 DEF FileLine
  <2>5. \A i \in 1 .. Len(o) : [text |-> o[i].text, id |-> o[i].id, origin |-> <<key, i>>] \in PlannedLine
    BY <2>4 DEF PlannedLine
  <2>6. ls \in Seq(PlannedLine) /\ Len(ls) = Len(o)
    BY <2>2, <2>5
  <2>7. \A i \in 1 .. Len(o) : ls[i].text = o[i].text /\ ls[i].id = o[i].id /\ ls[i].origin = <<key, i>>
    OBVIOUS
  <2>8. d.evidence \in Evidence /\ d.calls \in Nat
    BY <2>2 DEF Draft
  <2> HIDE DEF ls, st, o
  <2>9. /\ st.opened = TRUE /\ st.base = key /\ st.original = o /\ st.lines = ls /\ st.consumed = {}
        /\ st.edited = FALSE /\ st.evidence = d.evidence /\ st.calls = d.calls
    BY <2>3
  <2>10. st \in Draft
    <3>1. o \in Seq(FileLine)
      BY <2>2 DEF o
    <3> QED BY <2>3, <2>6, <2>8, <3>1 DEF Draft
  <2>11. \A i \in 1 .. Len(o) : Stands(st, ls[i], i)
    BY <2>7, <2>9 DEF Stands
  <2>12. DraftOK(st)
    BY <2>6, <2>7, <2>9, <2>10, <2>11 DEF DraftOK
  <2>13. o = d.original
    BY DEF o
  <2> QED
    <3>1. d.edited = FALSE
      BY <2>2 DEF Draft
    <3> QED BY <2>1, <3>1, <2>9, <2>12, <2>13
<1> QED BY <1>1, <1>2

\* apply and splice_lines: a call keeps account of the snapshot's lines.
LEMMA PlannedOK ==
  ASSUME NEW st, DraftOK(st), st.opened = TRUE, NEW rs, Placed(st.lines, rs), ~Overlap(rs), NEW s \in Nat,
         NEW mode \in Evidence
  PROVE  /\ SpliceLines(st.lines, rs, s) \in Seq(PlannedLine)
         /\ DraftOK([st EXCEPT !.lines = SpliceLines(st.lines, rs, s), !.consumed = @ \cup Taken(st, rs),
                               !.edited = TRUE, !.evidence = mode, !.calls = @ + 1])
<1> DEFINE ls == SpliceLines(st.lines, rs, s)
           new == [st EXCEPT !.lines = ls, !.consumed = @ \cup Taken(st, rs),
                             !.edited = TRUE, !.evidence = mode, !.calls = @ + 1]
<1>0. st \in Draft /\ st.lines \in Seq(PlannedLine) /\ st.base \in Nat /\ st.original \in Seq(FileLine)
      /\ st.consumed \in SUBSET (Nat \X Nat) /\ st.calls \in Nat
  BY DEF DraftOK, Draft
<1>1. Made(st.lines, rs, 1, ls)
  BY <1>0, SplicesKeep
<1>2. Taken(st, rs) = {st.lines[i].origin : i \in Covered(rs)} \ {<<>>}
  BY DEF Taken, Covered
<1>3. Covered(rs) \subseteq 1 .. Len(st.lines)
  <2>1. ASSUME NEW r \in rs, NEW i \in r.at .. r.at + r.len - 1 PROVE i \in 1 .. Len(st.lines)
    <3>1. r.at \in 1 .. Len(st.lines) + 1 /\ r.len \in Nat /\ r.at + r.len - 1 <= Len(st.lines)
            /\ Len(st.lines) \in Nat
      BY <1>0 DEF Placed
    <3> QED BY SMTT(40), <3>1
  <2> QED BY <2>1 DEF Covered
<1>4. Taken(st, rs) \in SUBSET (Nat \X Nat)
  <2>1. \A i \in 1 .. Len(st.lines) : st.lines[i].origin \in {<<>>} \cup (Nat \X Nat)
    <3> TAKE i \in 1 .. Len(st.lines)
    <3>1. st.lines[i] \in PlannedLine
      BY <1>0
    <3> QED BY <3>1 DEF PlannedLine
  <2> QED BY <1>2, <1>3, <2>1
<1> HIDE DEF ls
<1>5. new \in [opened : {TRUE}, base : {st.base}, original : {st.original}, lines : {ls},
               consumed : {st.consumed \cup Taken(st, rs)}, edited : {TRUE}, evidence : {mode},
                       calls : {st.calls + 1}]
  BY <1>0 DEF Draft
<1> HIDE DEF new
<1>6. /\ new.opened = TRUE /\ new.base = st.base /\ new.original = st.original /\ new.lines = ls
      /\ new.consumed = st.consumed \cup Taken(st, rs) /\ new.edited = TRUE
  BY <1>5
<1>7. new \in Draft
  <2>1. ls \in Seq(PlannedLine) /\ st.consumed \cup Taken(st, rs) \in SUBSET (Nat \X Nat)
    BY <1>0, <1>1, <1>4 DEF Made
  <2>2. new.evidence = mode /\ new.calls = st.calls + 1 /\ st.calls + 1 \in Nat
    BY <1>0, <1>5
  <2> QED BY <1>0, <1>5, <1>6, <2>1, <2>2 DEF Draft
<1>8. ASSUME NEW j \in 1 .. Len(ls) PROVE Written(ls[j]) \/ \E n \in 1 .. Len(st.original) : Stands(new,
        ls[j], n)
  <2>1. CASE Written(ls[j])
    BY <2>1
  <2>2. CASE \E i \in 1 .. Len(st.lines) : ls[j] = st.lines[i]
    <3>1. PICK i \in 1 .. Len(st.lines) : ls[j] = st.lines[i]
      BY <2>2
    <3>2. Written(st.lines[i]) \/ \E n \in 1 .. Len(st.original) : Stands(st, st.lines[i], n)
      BY DEF DraftOK
    <3> QED BY <1>6, <3>1, <3>2 DEF Stands
  <2> QED BY <1>1, <2>1, <2>2 DEF Made
<1>9. ASSUME NEW n \in 1 .. Len(st.original)
      PROVE  <<st.base, n>> \in st.consumed \cup Taken(st, rs)
              \/ \E j \in 1 .. Len(ls) : ls[j].origin = <<st.base, n>>
  <2>1. CASE <<st.base, n>> \in st.consumed
    BY <2>1
  <2>2. CASE \E i \in 1 .. Len(st.lines) : st.lines[i].origin = <<st.base, n>>
    <3>1. PICK i \in 1 .. Len(st.lines) : st.lines[i].origin = <<st.base, n>>
      BY <2>2
    <3>2. CASE \E c \in Covered(rs) : st.lines[c] = st.lines[i]
      <4>1. <<st.base, n>> # <<>>
        OBVIOUS
      <4> QED BY <1>2, <3>1, <3>2, <4>1
    <3>3. CASE \E j \in 1 .. Len(ls) : ls[j] = st.lines[i]
      BY <3>1, <3>3
    <3> QED BY <1>1, <3>2, <3>3 DEF Made
  <2> QED BY <2>1, <2>2 DEF DraftOK
<1>10. DraftOK(new)
  BY ZenonT(60), <1>6, <1>7, <1>8, <1>9 DEF DraftOK
<1> QED BY <1>1, <1>10 DEF Made, new, ls

-----------------------------------------------------------------------------
(* Where a target is found.                                                *)

\* planned_start: a refusal, nothing to offer, or the place where the wanted lines now stand.
LEMMA StartIs ==
  ASSUME NEW st, st.lines \in Seq(PlannedLine), NEW v, NEW from \in Int, NEW to \in Int, from <= to
  PROVE  \/ PlannedStart(st, v, from, to) = -1
         \/ /\ PlannedStart(st, v, from, to) = 0
            /\ \A n \in from .. to : OriginKey(st, v, n) \notin st.consumed
            /\ ~st.edited \/ \E n \in from .. to :
                    \A i \in 1 .. Len(st.lines) : st.lines[i].origin # OriginKey(st, v, n)
         \/ /\ PlannedStart(st, v, from, to) \in 1 .. Len(st.lines) /\ st.edited
            /\ \A n \in from .. to :
                    /\ PlannedStart(st, v, from, to) + (n - from) \in 1 .. Len(st.lines)
                    /\ st.lines[PlannedStart(st, v, from, to) + (n - from)].origin = OriginKey(st, v, n)
<1> DEFINE origin == [n \in from .. to |-> OriginKey(st, v, n)]
           places(n) == {i \in 1 .. Len(st.lines) : st.lines[i].origin = origin[n]}
           place(n) == CHOOSE i \in places(n) : \A j \in places(n) : i <= j
           C == \E n \in from .. to : origin[n] \in st.consumed
           E == \E n \in from .. to : places(n) = {}
           A == \E n \in from .. to : place(n) # place(from) + (n - from)
           start == PlannedStart(st, v, from, to)
<1>0. Len(st.lines) \in Nat /\ from \in from .. to
  OBVIOUS
<1>1. start = IF C THEN -1 ELSE IF ~st.edited \/ E THEN 0 ELSE IF A THEN -1 ELSE place(from)
  BY DEF PlannedStart
<1>2. \A n \in from .. to : origin[n] = OriginKey(st, v, n)
  OBVIOUS
<1> HIDE DEF start, place, origin
<1>3. CASE C
  <2> HIDE DEF C
  <2> QED BY <1>1, <1>3 DEF start
<1>4. CASE ~C /\ (~st.edited \/ E)
  <2>1. start = 0
    <3> HIDE DEF C, E
    <3> QED BY <1>1, <1>4
  <2>2. \A n \in from .. to : OriginKey(st, v, n) \notin st.consumed
    BY <1>2, <1>4
  <2>3. ~st.edited \/ \E n \in from .. to : \A i \in 1 .. Len(st.lines) : st.lines[i].origin # OriginKey(st,
          v, n)
    BY <1>2, <1>4
  <2> QED BY <2>1, <2>2, <2>3 DEF start
<1>5. CASE ~C /\ ~(~st.edited \/ E) /\ A
  <2> HIDE DEF C, E, A
  <2> QED BY <1>1, <1>5 DEF start
<1>6. CASE ~C /\ ~(~st.edited \/ E) /\ ~A
  <2>1. start = place(from)
    <3> HIDE DEF C, E, A
    <3> QED BY <1>1, <1>6
  <2>2. ASSUME NEW n \in from .. to PROVE place(n) \in 1 .. Len(st.lines)
          /\ st.lines[place(n)].origin = origin[n]
    <3> DEFINE P == places(n)
    <3>1. P # {} /\ P \in SUBSET (0 .. Len(st.lines))
      BY <1>0, <1>6, SMTT(40)
    <3>2. \E i \in P : \A j \in P : i <= j
      <4> HIDE DEF P
      <4> QED BY <1>0, <3>1, LeastOf
    <3>3. place(n) = CHOOSE i \in P : \A j \in P : i <= j
      BY DEF place
    <3>4. place(n) \in P
      <4> HIDE DEF P
      <4> QED BY <3>2, <3>3
    <3> QED BY <3>4
  <2>3. \A n \in from .. to : place(n) = start + (n - from)
    BY <1>6, <2>1
  <2>4. start \in 1 .. Len(st.lines)
    BY <1>0, <2>1, <2>2
  <2>5. ASSUME NEW n \in from .. to
        PROVE  start + (n - from) \in 1 .. Len(st.lines)
                /\ st.lines[start + (n - from)].origin = OriginKey(st, v, n)
    <3> HIDE DEF start
    <3> QED BY <1>2, <2>2, <2>3
  <2>6. st.edited
    BY <1>6
  <2> QED BY <2>4, <2>5, <2>6 DEF start
<1> QED BY <1>3, <1>4, <1>5, <1>6

\* relocate_target: what it returns is a candidate, and has the neighbours if they had to decide.
LEMMA CandidateMatches ==
  ASSUME NEW lines, NEW near, NEW target, NEW above, NEW below, RelocateTarget(lines, near, target, above,
          below) # 0
  PROVE  /\ RelocateTarget(lines, near, target, above, below) \in Candidates(lines, near, target)
         /\ Cardinality(Candidates(lines, near, target)) > 1 /\ (above # <<>> \/ below # <<>>) =>
                ContextMatches(lines, RelocateTarget(lines, near, target, above, below), target, above, below)
<1> DEFINE all == Candidates(lines, near, target)
           narrowed == Cardinality(all) > 1 /\ (above # <<>> \/ below # <<>>)
           beside == IF narrowed THEN {at \in all : ContextMatches(lines, at, target, above, below)} ELSE all
           at0 == RelocateTarget(lines, near, target, above, below)
<1>1. Cardinality(beside) = 1 /\ at0 = CHOOSE at \in beside : TRUE
  BY DEF RelocateTarget
<1>2. beside # {}
  <2>1. Cardinality({}) = 0
    BY FS_EmptySet
  <2> HIDE DEF beside
  <2> QED BY <1>1, <2>1
<1> HIDE DEF at0
<1>3. at0 \in beside
  <2> HIDE DEF beside
  <2> QED BY <1>1, <1>2
<1> QED
  <2> HIDE DEF all
  <2>1. at0 \in all
    BY <1>3
  <2>2. narrowed => ContextMatches(lines, at0, target, above, below)
    BY <1>3
  <2> QED BY <2>1, <2>2 DEF at0, all

\* locate_range and relocate_target: what is found is a copy of the target.
LEMMA LocatedMatches ==
  ASSUME NEW lines, NEW v, NEW from, NEW to, NEW start, LocateRange(lines, v, from, to, start) # 0
  PROVE  SamePosition(lines, LocateRange(lines, v, from, to, start), Lines(Shown(v, from, to)))
<1> DEFINE target == Lines(Shown(v, from, to))
           at == IF start = 0 THEN from ELSE start
           found == LocateRange(lines, v, from, to, start)
           moved == RelocateTarget(lines, at, target, Above(v, from), Below(v, to))
<1>1. \/ found = at /\ SamePosition(lines, at, target)
      \/ found = moved
  BY DEF LocateRange
<1>2. CASE found = moved
  <2>1. moved \in Candidates(lines, at, target)
    <3> HIDE DEF at, target
    <3> QED BY <1>2, CandidateMatches DEF found
  <2> QED BY <1>2, <2>1 DEF Candidates
<1> QED BY <1>1, <1>2

\* Where a target is found it fits into the planned file.
LEMMA LocatedFits ==
  ASSUME NEW st, st.lines \in Seq(PlannedLine), NEW v \in View, NEW from \in Int, NEW to \in Int,
         Located(st, v, from, to) \notin {-1, 0}
  PROVE  /\ Located(st, v, from, to) \in 1 .. Len(st.lines) /\ from <= to
         /\ Located(st, v, from, to) + (to - from + 1) - 1 <= Len(st.lines)
<1> DEFINE at == Located(st, v, from, to)
           target == Lines(Shown(v, from, to))
           start == PlannedStart(st, v, from, to)
<1>1. Visible(v, from, to) /\ at = IF start < 0 THEN start ELSE LocateRange(Lines(st.lines), v, from, to,
        start)
  BY DEF Located
<1>2. CASE start < 0
  <2>1. start = -1
    <3>1. v.first <= from /\ from <= to
      BY <1>1 DEF Visible
    <3>2. \/ start = -1 \/ start = 0 \/ start \in 1 .. Len(st.lines)
      BY <3>1, StartIs
    <3> HIDE DEF start
    <3> QED BY <1>2, <3>2
  <2> QED BY <1>1, <1>2, <2>1
<1>3. CASE ~(start < 0)
  <2> HIDE DEF start
  <2>1. at = LocateRange(Lines(st.lines), v, from, to, start)
    BY <1>1, <1>3
  <2>2. SamePosition(Lines(st.lines), at, target)
    BY <2>1, LocatedMatches
  <2>3. v.first <= from /\ from <= to /\ to <= ViewEnd(v) /\ v.first \in Nat
    BY <1>1 DEF Visible, View
  <2>4. Shown(v, from, to) \in Seq(FileLine) /\ Len(Shown(v, from, to)) = to - from + 1
    BY <2>3, ShownIs
  <2>5. Len(target) = to - from + 1
    BY <2>4, LinesIs
  <2>6. Len(Lines(st.lines)) = Len(st.lines) /\ Len(st.lines) \in Nat
    BY LinesIs
  <2> HIDE DEF at, target
  <2>7. \A k \in 1 .. to - from + 1 : at + k - 1 \in 1 .. Len(st.lines)
    BY <2>2, <2>5, <2>6 DEF SamePosition
  <2>8. 1 \in 1 .. to - from + 1 /\ to - from + 1 \in 1 .. to - from + 1
    BY <2>3
  <2>9. at + 1 - 1 \in 1 .. Len(st.lines) /\ at + (to - from + 1) - 1 \in 1 .. Len(st.lines)
    BY <2>7, <2>8
  <2>10. at \in Int
    <3>1. start = 0 \/ start \in 1 .. Len(st.lines)
      BY <1>3, <2>3, StartIs DEF start
    <3>2. LocateRange(Lines(st.lines), v, from, to, start) \in Int
      <4>1. CASE LocateRange(Lines(st.lines), v, from, to, start) = IF start = 0 THEN from ELSE start
        BY <3>1, <4>1, <2>6
      <4>2. CASE LocateRange(Lines(st.lines), v, from, to, start)
                    = RelocateTarget(Lines(st.lines), IF start = 0 THEN from ELSE start, Lines(Shown(v, from,
                            to)),
                                     Above(v, from), Below(v, to))
        <5>1. RelocateTarget(Lines(st.lines), IF start = 0 THEN from ELSE start, Lines(Shown(v, from, to)),
                             Above(v, from), Below(v, to)) # 0
          BY <1>3, <2>1, <4>2 DEF at
        <5>2. RelocateTarget(Lines(st.lines), IF start = 0 THEN from ELSE start, Lines(Shown(v, from, to)),
                             Above(v, from), Below(v, to))
              \in Candidates(Lines(st.lines), IF start = 0 THEN from ELSE start, Lines(Shown(v, from, to)))
          BY <5>1, CandidateMatches
        <5> QED BY <4>2, <5>2 DEF Candidates
      <4> QED BY <4>1, <4>2 DEF LocateRange
    <3> QED BY <2>1, <3>2
  <2> QED BY <2>3, <2>9, <2>6, <2>10 DEF at
<1> QED BY <1>2, <1>3

-----------------------------------------------------------------------------
(* Every step keeps account of the snapshot.                               *)

\* An edit that is planned, and the states in which there is one.
EditPlan == [before : Seq(FileLine), after : Seq(FileLine)]
Pending == {"approval", "checked", "filling"}

\* The kinds of the state.
Kinds ==
    /\ file \in Seq(FileLine) /\ stamp \in Nat
    /\ views \in [Agents -> Seq(View)] /\ planned \in [Agents -> Seq(EditPlan)]
    /\ DOMAIN draft = Agents

\* Whoever has an edit to approve or to write has planned one.
EditsToMake == \A a \in Agents : pc[a] \in Pending => planned[a] # <<>>

EditPlanInv == Kinds /\ (\A a \in Agents : DraftOK(draft[a])) /\ EditsToMake

\* Planned lines without where they came from are lines of a file.
LEMMA BareIs ==
  ASSUME NEW s \in Seq(PlannedLine)
  PROVE  Bare(s) \in Seq(FileLine)
<1>1. \A i \in 1 .. Len(s) : [text |-> s[i].text, id |-> s[i].id] \in FileLine
  <2> TAKE i \in 1 .. Len(s)
  <2>1. s[i] \in PlannedLine
    OBVIOUS
  <2> QED BY <2>1 DEF PlannedLine, FileLine
<1> QED BY <1>1 DEF Bare

\* A batch that has opened no file, before and after it has taken the snapshot.
LEMMA FreshDraftOK ==
  ASSUME NEW o \in Seq(FileLine)
  PROVE  DraftOK([NoPlan EXCEPT !.original = o]) /\ DraftOK(NoPlan)
<1>0. "" \in Evidence
  BY DEF Evidence
<1>1. ASSUME NEW x \in Seq(FileLine), NEW d, d = [opened |-> FALSE, base |-> 0, original |-> x,
        lines |-> <<>>,
           consumed |-> {}, edited |-> FALSE, evidence |-> "", calls |-> 0]
      PROVE  DraftOK(d)
  <2> DEFINE e == ""
  <2>1. e \in Evidence
    BY <1>0
  <2>2. d = [opened |-> FALSE, base |-> 0, original |-> x, lines |-> <<>>,
             consumed |-> {}, edited |-> FALSE, evidence |-> e, calls |-> 0]
    BY <1>1
  <2> HIDE DEF e
  <2>3. d \in Draft
    BY <2>1, <2>2 DEF Draft
  <2>4. d.opened = FALSE /\ d.edited = FALSE /\ d.consumed = {}
    BY <2>2
  <2> QED BY <2>3, <2>4 DEF DraftOK
<1>2. <<>> \in Seq(FileLine)
  OBVIOUS
<1>3. DraftOK(NoPlan)
  BY <1>1, <1>2, Zenon DEF NoPlan
<1>4. NoPlan.opened = FALSE /\ NoPlan.edited = FALSE /\ NoPlan.consumed = {}
  <2> DEFINE e == ""
  <2>1. NoPlan = [opened |-> FALSE, base |-> 0, original |-> <<>>, lines |-> <<>>,
                  consumed |-> {}, edited |-> FALSE, evidence |-> e, calls |-> 0]
    BY Zenon DEF NoPlan
  <2> HIDE DEF e
  <2> QED BY <2>1
<1>5. NoPlan \in Draft
  BY <1>3 DEF DraftOK
<1> HIDE DEF NoPlan
<1> DEFINE d == [NoPlan EXCEPT !.original = o]
<1>6. d \in [opened : {FALSE}, base : {NoPlan.base}, original : {o}, lines : {NoPlan.lines}, consumed : {{}},
             edited : {FALSE}, evidence : {NoPlan.evidence}, calls : {NoPlan.calls}]
  BY <1>4, <1>5 DEF Draft
<1>7. NoPlan.base \in Nat /\ NoPlan.lines \in Seq(PlannedLine) /\ NoPlan.evidence \in Evidence
        /\ NoPlan.calls \in Nat
  BY <1>5 DEF Draft
<1> HIDE DEF d
<1>8. d \in Draft /\ d.opened = FALSE /\ d.edited = FALSE /\ d.consumed = {}
  BY <1>6, <1>7 DEF Draft
<1>9. DraftOK(d)
  BY <1>8 DEF DraftOK
<1> QED BY <1>3, <1>9 DEF d

\* A call that is refused is counted and nothing else.
LEMMA CountedOK ==
  ASSUME NEW st, DraftOK(st)
  PROVE  DraftOK([st EXCEPT !.calls = @ + 1])
<1> DEFINE new == [st EXCEPT !.calls = @ + 1]
<1>1. st \in Draft
  BY DEF DraftOK
<1>2. new \in [opened : {st.opened}, base : {st.base}, original : {st.original}, lines : {st.lines},
               consumed : {st.consumed}, edited : {st.edited}, evidence : {st.evidence},
                       calls : {st.calls + 1}]
  BY <1>1 DEF Draft
<1> HIDE DEF new
<1>3. /\ new.opened = st.opened /\ new.base = st.base /\ new.original = st.original
      /\ new.lines = st.lines /\ new.consumed = st.consumed /\ new.edited = st.edited
  BY <1>2
<1>4. new \in Draft
  <2>1. /\ st.opened \in BOOLEAN /\ st.base \in Nat /\ st.original \in Seq(FileLine)
          /\ st.lines \in Seq(PlannedLine)
        /\ st.consumed \in SUBSET (Nat \X Nat) /\ st.edited \in BOOLEAN /\ st.evidence \in Evidence
                /\ st.calls + 1 \in Nat
    BY <1>1 DEF Draft
  <2> QED BY <1>2, <2>1 DEF Draft
<1>5. \A line, n : Stands(new, line, n) <=> Stands(st, line, n)
  BY <1>3 DEF Stands
<1>6. DraftOK(new)
  BY <1>3, <1>4, <1>5, Zenon DEF DraftOK
<1> QED BY <1>6 DEF new

\* A step that changes nothing but one agent's draft and edits.
LEMMA PlanningKeepsPlan ==
  ASSUME EditPlanInv, NEW a \in Agents, NEW d, DraftOK(d), draft' = [draft EXCEPT ![a] = d],
         planned' = planned \/ (\E p \in EditPlan : planned' = [planned EXCEPT ![a] = Append(@, p)]),
         stamp' \in Nat, UNCHANGED <<file, views, pc>>
  PROVE  EditPlanInv'
<1>1. DOMAIN draft' = Agents /\ \A b \in Agents : draft'[b] = IF b = a THEN d ELSE draft[b]
  BY DEF EditPlanInv, Kinds
<1>2. planned' \in [Agents -> Seq(EditPlan)] /\ \A b \in Agents : planned[b] # <<>> => planned'[b] # <<>>
  <2>1. CASE planned' = planned
    BY <2>1 DEF EditPlanInv, Kinds
  <2>2. CASE \E p \in EditPlan : planned' = [planned EXCEPT ![a] = Append(@, p)]
    <3>1. PICK p \in EditPlan : planned' = [planned EXCEPT ![a] = Append(@, p)]
      BY <2>2
    <3>2. planned \in [Agents -> Seq(EditPlan)]
      BY DEF EditPlanInv, Kinds
    <3>3. Append(planned[a], p) \in Seq(EditPlan) /\ Append(planned[a], p) # <<>>
      BY SMTT(40), <3>2
    <3> QED BY <3>1, <3>2, <3>3
  <2> QED BY <2>1, <2>2
<1>3. Kinds'
  BY <1>1, <1>2 DEF EditPlanInv, Kinds
<1>4. \A b \in Agents : DraftOK(draft'[b])
  BY <1>1 DEF EditPlanInv
<1>5. EditsToMake'
  BY <1>2 DEF EditPlanInv, EditsToMake
<1> QED BY <1>3, <1>4, <1>5 DEF EditPlanInv

\* A refused call keeps account of the snapshot.
LEMMA RefuseKeepsPlan ==
  ASSUME EditPlanInv, NEW a \in Agents, Planning(a), NEW st, DraftOK(st), Refuse(a, st)
  PROVE  EditPlanInv'
<1>1. DraftOK([st EXCEPT !.calls = @ + 1])
  BY CountedOK
<1>2. draft' = [draft EXCEPT ![a] = [st EXCEPT !.calls = @ + 1]] /\ planned' = planned /\ stamp' = stamp
  BY DEF Refuse
<1>3. UNCHANGED <<file, views, pc>> /\ stamp \in Nat
  BY DEF Planning, EditPlanInv, Kinds
<1> DEFINE d == [st EXCEPT !.calls = @ + 1]
<1>4. DraftOK(d) /\ draft' = [draft EXCEPT ![a] = d] /\ stamp' \in Nat
  BY <1>1, <1>2, <1>3
<1> HIDE DEF d
<1> QED BY <1>2, <1>3, <1>4, PlanningKeepsPlan

\* A call whose replacements fit and do not overlap keeps account of the snapshot.
LEMMA CallKeepsPlan ==
  ASSUME EditPlanInv, NEW a \in Agents, Planning(a), NEW st, DraftOK(st), st.opened = TRUE, NEW rs,
         Placed(st.lines, rs), ~Overlap(rs), NEW mode \in Evidence, PlanCall(a, st, rs, mode)
  PROVE  EditPlanInv'
<1> DEFINE ls == SpliceLines(st.lines, rs, stamp)
<1>1. CASE Refuse(a, st)
  BY <1>1, RefuseKeepsPlan
<1>2. CASE ~Refuse(a, st)
  <2> DEFINE d == [st EXCEPT !.lines = ls, !.consumed = @ \cup Taken(st, rs), !.edited = TRUE,
          !.evidence = mode, !.calls = @ + 1]
             p == [before |-> Bare(st.lines), after |-> Bare(ls)]
  <2>1. draft' = [draft EXCEPT ![a] = d] /\ planned' = [planned EXCEPT ![a] = Append(@, p)]
          /\ stamp' = stamp + 1
    BY <1>2 DEF PlanCall
  <2>2. stamp \in Nat /\ UNCHANGED <<file, views, pc>>
    BY DEF EditPlanInv, Kinds, Planning
  <2>3. ls \in Seq(PlannedLine) /\ DraftOK(d)
    BY <2>2, PlannedOK
  <2>4. st.lines \in Seq(PlannedLine)
    BY DEF DraftOK, Draft
  <2> HIDE DEF ls, d
  <2>5. p \in EditPlan
    BY <2>3, <2>4, BareIs DEF EditPlan
  <2> HIDE DEF p
  <2>6. stamp' \in Nat
    BY <2>1, <2>2
  <2> QED BY <2>1, <2>2, <2>3, <2>5, <2>6, PlanningKeepsPlan
<1> QED BY <1>1, <1>2

\* The edits of a call name line numbers and text.
LEMMA EditSetsAre ==
  ASSUME NEW edits \in EditSets, NEW e \in edits
  PROVE  e.from \in Nat /\ e.to \in Nat /\ e.content \in Seq(LineTexts)
<1>1. PICK t \in Targets, c \in NewLines : e = [from |-> t[1], to |-> t[2], content |-> c]
  BY DEF EditSets
<1>2. t \in (Nat \ {0}) \X Nat /\ c \in Seq(LineTexts)
  BY EditConstants DEF EditConstants
<1> QED BY <1>1, <1>2

\* No call can name a place outside the planned file.
LEMMA ViewKeepsPlan ==
  ASSUME EditPlanInv, NEW a \in Agents, NEW i \in DOMAIN views[a], NEW edits \in EditSets, PlanView(a,
          views[a][i], edits)
  PROVE  EditPlanInv'
<1> DEFINE v == views[a][i]
           st == FileState(draft[a], v.key)
           rs == {[edit |-> e, at |-> Located(st, v, e.from, e.to), len |-> e.to - e.from + 1,
                   content |-> e.content] : e \in edits}
<1>1. v \in View
  <2>1. views[a] \in Seq(View)
    BY DEF EditPlanInv, Kinds
  <2> QED BY <2>1
<1>2. v.key \in Nat
  BY <1>1 DEF View
<1> HIDE DEF v
<1>3. DraftOK(st) /\ st.opened = TRUE
  BY <1>2, OpenedOK DEF EditPlanInv
<1>4. st.lines \in Seq(PlannedLine)
  BY <1>3 DEF DraftOK, Draft
<1>5. Planning(a) /\ IF Overlap(rs) \/ \E r \in rs : r.at < 1 THEN Refuse(a, st) ELSE PlanCall(a, st, rs,
        "view")
  BY DEF PlanView, v
<1>6. CASE Overlap(rs) \/ \E r \in rs : r.at < 1
  <2>1. Refuse(a, st)
    <3> HIDE DEF st, rs
    <3> QED BY <1>5, <1>6
  <2> HIDE DEF st
  <2> QED BY <1>3, <1>5, <2>1, RefuseKeepsPlan
<1>7. CASE ~(Overlap(rs) \/ \E r \in rs : r.at < 1)
  <2>1. PlanCall(a, st, rs, "view") /\ ~Overlap(rs)
    <3> HIDE DEF st, rs
    <3> QED BY <1>5, <1>7
  <2> HIDE DEF st
  <2>2. Placed(st.lines, rs)
    <3> SUFFICES ASSUME NEW e \in edits
                 PROVE  LET r == [edit |-> e, at |-> Located(st, v, e.from, e.to), len |-> e.to - e.from + 1,
                                  content |-> e.content]
                        IN /\ r.at \in 1 .. Len(st.lines) + 1 /\ r.len \in Nat
                                /\ r.at + r.len - 1 <= Len(st.lines)
                           /\ r.content \in Seq(LineTexts)
      BY DEF Placed
    <3>1. e.from \in Nat /\ e.to \in Nat /\ e.content \in Seq(LineTexts)
      BY EditSetsAre
    <3>2. ~(Located(st, v, e.from, e.to) < 1)
      <4> DEFINE r == [edit |-> e, at |-> Located(st, v, e.from, e.to), len |-> e.to - e.from + 1,
                       content |-> e.content]
      <4>1. r \in rs /\ r.at = Located(st, v, e.from, e.to)
        OBVIOUS
      <4> HIDE DEF r, rs
      <4>2. ~(r.at < 1)
        BY <1>7, <4>1
      <4> QED BY <4>1, <4>2
    <3>3. Located(st, v, e.from, e.to) \notin {-1, 0}
      BY <3>2
    <3> DEFINE from == e.from
               to == e.to
    <3>4. from \in Int /\ to \in Int
      BY <3>1
    <3>5. Located(st, v, from, to) \notin {-1, 0}
      BY <3>3
    <3> HIDE DEF from, to
    <3>6. /\ Located(st, v, from, to) \in 1 .. Len(st.lines) /\ from <= to
          /\ Located(st, v, from, to) + (to - from + 1) - 1 <= Len(st.lines)
      BY <1>1, <1>4, <3>4, <3>5, LocatedFits
    <3>7. Len(st.lines) \in Nat
      BY <1>4
    <3>8. Located(st, v, from, to) \in 1 .. Len(st.lines) + 1 /\ to - from + 1 \in Nat
      BY <3>4, <3>6, <3>7
    <3> QED BY <3>1, <3>6, <3>8 DEF from, to
  <2> HIDE DEF rs
  <2>3. "view" \in Evidence
    BY DEF Evidence
  <2> QED BY <1>3, <1>5, <2>1, <2>2, <2>3, CallKeepsPlan
<1> QED BY <1>6, <1>7

\* apply, for text named directly: the one place that has it fits into the planned file.
LEMMA DirectKeepsPlan ==
  ASSUME EditPlanInv, NEW a \in Agents, NEW old \in NewLines, NEW content \in NewLines, PlanDirect(a, old,
          content)
  PROVE  EditPlanInv'
<1> DEFINE st == FileState(draft[a], 0)
           at == DirectTarget(st, old)
           rs == {[at |-> at, len |-> Len(old), content |-> content]}
<1>1. DraftOK(st) /\ st.opened = TRUE
  BY OpenedOK DEF EditPlanInv
<1>2. st.lines \in Seq(PlannedLine)
  BY <1>1 DEF DraftOK, Draft
<1>3. Planning(a) /\ IF at = 0 THEN Refuse(a, st) ELSE PlanCall(a, st, rs, "direct")
  BY DEF PlanDirect
<1>4. old \in Seq(LineTexts) /\ content \in Seq(LineTexts)
  BY EditConstants DEF EditConstants
<1> HIDE DEF st
<1>5. CASE at = 0
  <2>1. Refuse(a, st)
    <3> HIDE DEF at, rs
    <3> QED BY <1>3, <1>5
  <2> QED BY <1>1, <1>3, <2>1, RefuseKeepsPlan
<1>6. CASE at # 0
  <2>1. PlanCall(a, st, rs, "direct")
    <3> HIDE DEF at, rs
    <3> QED BY <1>3, <1>6
  <2> DEFINE all == {i \in 1 .. Len(st.lines) - Len(old) + 1 : SamePosition(Lines(st.lines), i, old)}
  <2>2. at = IF Cardinality(all) = 1 THEN CHOOSE i \in all : TRUE ELSE 0
    BY DEF DirectTarget
  <2>3. at \in all
    <3>1. Cardinality({}) = 0
      BY FS_EmptySet
    <3> HIDE DEF all, at
    <3> QED BY <1>6, <2>2, <3>1
  <2>4. at \in 1 .. Len(st.lines) - Len(old) + 1 /\ Len(old) \in Nat /\ Len(st.lines) \in Nat
    BY <1>2, <1>4, <2>3
  <2> HIDE DEF at
  <2>5. at \in 1 .. Len(st.lines) + 1 /\ at + Len(old) - 1 <= Len(st.lines)
    BY <2>4
  <2>6. Placed(st.lines, rs)
    BY <1>4, <2>4, <2>5 DEF Placed
  <2>7. ~Overlap(rs)
    BY DEF Overlap
  <2>8. "direct" \in Evidence
    BY DEF Evidence
  <2> HIDE DEF rs
  <2> QED BY <1>1, <1>3, <2>1, <2>6, <2>7, <2>8, CallKeepsPlan
<1> QED BY <1>5, <1>6

\* apply, for a new file: the one place of an empty file.
LEMMA CreateKeepsPlan ==
  ASSUME EditPlanInv, NEW a \in Agents, NEW content \in NewLines, PlanCreate(a, content)
  PROVE  EditPlanInv'
<1> DEFINE st == IF draft[a].original = <<>> THEN FileState(draft[a], 0) ELSE draft[a]
           rs == {[at |-> 1, len |-> 0, content |-> content]}
<1>1. DraftOK(st)
  BY OpenedOK DEF EditPlanInv
<1>2. st.lines \in Seq(PlannedLine) /\ st.evidence \in Evidence /\ st.opened \in BOOLEAN
  BY <1>1 DEF DraftOK, Draft
<1>3. Planning(a) /\ IF st.opened /\ st.lines = <<>> THEN PlanCall(a, st, rs, st.evidence) ELSE Refuse(a, st)
  BY DEF PlanCreate
<1>4. content \in Seq(LineTexts)
  BY EditConstants DEF EditConstants
<1> HIDE DEF st
<1>5. CASE st.opened /\ st.lines = <<>>
  <2>1. PlanCall(a, st, rs, st.evidence) /\ st.opened = TRUE
    <3> HIDE DEF rs
    <3> QED BY <1>2, <1>3, <1>5
  <2>2. Placed(st.lines, rs)
    BY <1>2, <1>4, <1>5 DEF Placed
  <2>3. ~Overlap(rs)
    BY DEF Overlap
  <2> HIDE DEF rs
  <2> DEFINE mode == st.evidence
  <2>4. mode \in Evidence /\ PlanCall(a, st, rs, mode)
    BY <1>2, <2>1
  <2> HIDE DEF mode
  <2> QED BY <1>1, <1>3, <2>1, <2>2, <2>3, <2>4, CallKeepsPlan
<1>6. CASE ~(st.opened /\ st.lines = <<>>)
  <2>1. Refuse(a, st)
    <3> HIDE DEF rs
    <3> QED BY <1>3, <1>6
  <2> QED BY <1>1, <1>3, <2>1, RefuseKeepsPlan
<1> QED BY <1>5, <1>6

\* Nothing is planned at the start.
LEMMA InitPlanInv == EditsInit => EditPlanInv
<1> SUFFICES ASSUME EditsInit PROVE EditPlanInv
  OBVIOUS
<1>1. PICK s \in FilesAtStart : file = [i \in 1 .. Len(s) |-> [text |-> s[i], id |-> <<0, i, 1>>]]
  BY DEF EditsInit
<1>2. s \in Seq(LineTexts)
  BY EditConstants DEF EditConstants
<1>3. \A i \in 1 .. Len(s) : [text |-> s[i], id |-> <<0, i, 1>>] \in FileLine
  BY <1>2 DEF FileLine, LineId
<1>4. file \in Seq(FileLine)
  BY <1>1, <1>2, <1>3
<1>5. <<>> \in Seq(View) /\ <<>> \in Seq(EditPlan)
  OBVIOUS
<1>6. views = [a \in Agents |-> <<>>] /\ planned = [a \in Agents |-> <<>>] /\ stamp = 1
        /\ DOMAIN draft = Agents
  BY DEF EditsInit
<1>7. Kinds
  BY <1>4, <1>5, <1>6 DEF Kinds
<1>8. \A a \in Agents : DraftOK(draft[a])
  <2>1. \A a \in Agents : draft[a] = NoPlan
    BY DEF EditsInit
  <2>2. DraftOK(NoPlan)
    BY <1>4, FreshDraftOK
  <2> HIDE DEF NoPlan
  <2> QED BY <2>1, <2>2
<1>9. EditsToMake
  BY DEF EditsInit, EditsToMake, Pending
<1> QED BY <1>7, <1>8, <1>9 DEF EditPlanInv

\* ReadTool: a view is a part of the file.
LEMMA ReadKeepsPlan ==
  ASSUME EditPlanInv, NEW a \in Agents, NEW r \in ReadRanges, Read(a, r[1], r[2])
  PROVE  EditPlanInv'
<1> DEFINE end == IF r[2] > Len(file) THEN Len(file) ELSE r[2]
           v == [key |-> Len(views[a]) + 1, first |-> r[1], lines |-> SubSeq(file, r[1], end)]
<1>1. r[1] \in Nat \ {0} /\ r[2] \in Nat
  BY EditConstants DEF EditConstants
<1>2. file \in Seq(FileLine) /\ Len(file) \in Nat /\ views \in [Agents -> Seq(View)]
  BY DEF EditPlanInv, Kinds
<1>3. views' = [views EXCEPT ![a] = Append(@, v)] /\ UNCHANGED <<file, pc, draft, planned, stamp>>
  BY DEF Read
<1>4. SubSeq(file, r[1], end) \in Seq(FileLine)
  <2> DEFINE m == r[1]
  <2>1. m \in Int /\ end \in Int /\ \A i \in m .. end : i \in 1 .. Len(file)
    BY <1>1, <1>2
  <2> HIDE DEF m, end
  <2>2. \A i \in m .. end : file[i] \in FileLine
    BY <1>2, <2>1
  <2>3. SubSeq(file, m, end) \in Seq(FileLine)
    BY <2>1, <2>2, SubSeqProperties
  <2> QED BY <2>3 DEF m
<1>5. Len(views[a]) + 1 \in Nat \ {0}
  BY <1>2
<1>6. v \in View
  BY <1>1, <1>4, <1>5 DEF View
<1> HIDE DEF v
<1>7. views' \in [Agents -> Seq(View)]
  BY <1>2, <1>3, <1>6
<1>8. Kinds'
  BY <1>3, <1>7 DEF EditPlanInv, Kinds
<1>9. EditsToMake'
  BY <1>3 DEF EditPlanInv, EditsToMake
<1> QED BY <1>3, <1>8, <1>9 DEF EditPlanInv

\* A step that replaces one agent's draft and drops edits it is done with.
LEMMA ReviewingKeepsPlan ==
  ASSUME EditPlanInv, EditInv, NEW a \in Agents,
         draft' = draft \/ (\E d : DraftOK(d) /\ draft' = [draft EXCEPT ![a] = d]),
         NEW s, NEW p \in Seq(EditPlan), pc' = [pc EXCEPT ![a] = s], planned' = [planned EXCEPT ![a] = p],
         s \in Pending => p # <<>>,
         file' \in Seq(FileLine), UNCHANGED <<views, stamp>>
  PROVE  EditPlanInv'
<1>1. DOMAIN draft' = Agents /\ \A b \in Agents : DraftOK(draft'[b])
  BY DEF EditPlanInv, Kinds
<1>2. planned' \in [Agents -> Seq(EditPlan)]
  BY DEF EditPlanInv, Kinds
<1>3. Kinds'
  BY <1>1, <1>2 DEF EditPlanInv, Kinds
<1>4. \A b \in Agents : pc'[b] = (IF b = a THEN s ELSE pc[b])
        /\ planned'[b] = (IF b = a THEN p ELSE planned[b])
  BY DEF EditPlanInv, Kinds, EditInv, Domains
<1>5. EditsToMake'
  BY <1>4 DEF EditPlanInv, EditsToMake
<1> QED BY <1>1, <1>3, <1>5 DEF EditPlanInv

\* A batch opens on a snapshot of the file.
LEMMA BeginKeepsPlan ==
  ASSUME EditPlanInv, EditInv, NEW a \in Agents, Begin(a)
  PROVE  EditPlanInv'
<1> DEFINE d == [NoPlan EXCEPT !.original = file]
           p == planned[a]
           s == "planning"
<1>1. file \in Seq(FileLine) /\ planned \in [Agents -> Seq(EditPlan)]
  BY DEF EditPlanInv, Kinds
<1>2. DraftOK(d)
  BY <1>1, FreshDraftOK
<1>3. draft' = [draft EXCEPT ![a] = d] /\ pc' = [pc EXCEPT ![a] = s] /\ UNCHANGED <<file, views, planned,
        stamp>>
  BY DEF Begin
<1>4. p \in Seq(EditPlan) /\ planned' = [planned EXCEPT ![a] = p]
  BY <1>1, <1>3
<1>5. s \in Pending => p # <<>>
  BY DEF Pending
<1> HIDE DEF d, p, s
<1> QED BY <1>1, <1>2, <1>3, <1>4, <1>5, ReviewingKeepsPlan

\* A planned batch goes to approval, or ends when there is nothing to approve.
LEMMA ReviewKeepsPlan ==
  ASSUME EditPlanInv, EditInv, NEW a \in Agents, Review(a)
  PROVE  EditPlanInv'
<1> DEFINE d == NoPlan
           p == planned[a]
           s == IF planned[a] = <<>> THEN "idle" ELSE "approval"
<1>1. file \in Seq(FileLine) /\ planned \in [Agents -> Seq(EditPlan)]
  BY DEF EditPlanInv, Kinds
<1>2. DraftOK(d)
  BY <1>1, FreshDraftOK
<1>3. draft' = [draft EXCEPT ![a] = d] /\ pc' = [pc EXCEPT ![a] = s] /\ UNCHANGED <<file, views, planned,
        stamp>>
  BY DEF Review
<1>4. p \in Seq(EditPlan) /\ planned' = [planned EXCEPT ![a] = p]
  BY <1>1, <1>3
<1>5. s \in Pending => p # <<>>
  BY DEF Pending
<1> HIDE DEF d, p, s
<1> QED BY <1>1, <1>2, <1>3, <1>4, <1>5, ReviewingKeepsPlan

\* An edit that is done with, one way or another.
LEMMA FinishKeepsPlan ==
  ASSUME EditPlanInv, EditInv, NEW a \in Agents, pc[a] \in Pending, Finish(a), file' \in Seq(FileLine),
         UNCHANGED <<views, draft, stamp>>
  PROVE  EditPlanInv'
<1> DEFINE p == Tail(planned[a])
           s == IF Len(planned[a]) = 1 THEN "idle" ELSE "approval"
<1>1. planned[a] \in Seq(EditPlan) /\ planned[a] # <<>>
  BY DEF EditPlanInv, Kinds, EditsToMake
<1>2. p \in Seq(EditPlan) /\ (s \in Pending => p # <<>>)
  <2>1. Tail(planned[a]) \in Seq(EditPlan) /\ Len(Tail(planned[a])) = Len(planned[a]) - 1
          /\ Len(planned[a]) \in Nat
    BY <1>1
  <2>2. ASSUME Len(planned[a]) # 1 PROVE Tail(planned[a]) # <<>>
    <3>1. Len(Tail(planned[a])) # 0
      BY <2>1, <2>2
    <3>2. Len(<<>>) = 0
      OBVIOUS
    <3> QED BY <3>1, <3>2, Zenon
  <2> QED BY <2>1, <2>2 DEF Pending
<1>3. pc' = [pc EXCEPT ![a] = s] /\ planned' = [planned EXCEPT ![a] = p]
  BY DEF Finish
<1> HIDE DEF p, s
<1> QED BY <1>2, <1>3, ReviewingKeepsPlan

\* A cancelled call drops every edit but the one that is being written.
LEMMA CancelKeepsPlan ==
  ASSUME EditPlanInv, EditInv, NEW a \in Agents, Cancel(a)
  PROVE  EditPlanInv'
<1> DEFINE d == NoPlan
           writing == pc[a] \in {"checked", "filling"}
           p == IF writing THEN <<Head(planned[a])>> ELSE <<>>
           s == IF writing THEN pc[a] ELSE "idle"
<1>1. file \in Seq(FileLine) /\ planned \in [Agents -> Seq(EditPlan)]
  BY DEF EditPlanInv, Kinds
<1>2. DraftOK(d)
  BY <1>1, FreshDraftOK
<1>3. draft' = [draft EXCEPT ![a] = d] /\ pc' = [pc EXCEPT ![a] = s] /\ planned' = [planned EXCEPT ![a] = p]
      /\ UNCHANGED <<file, views, stamp>>
  BY DEF Cancel
<1>4. p \in Seq(EditPlan) /\ (s \in Pending => p # <<>>)
  <2>1. CASE writing
    <3>1. planned[a] \in Seq(EditPlan) /\ planned[a] # <<>>
      BY <2>1 DEF EditPlanInv, Kinds, EditsToMake, Pending
    <3>2. Head(planned[a]) \in EditPlan
      BY <3>1
    <3>3. p = <<Head(planned[a])>>
      BY <2>1
    <3> QED BY <3>2, <3>3
  <2>2. CASE ~writing
    BY <2>2 DEF Pending
  <2> QED BY <2>1, <2>2
<1> HIDE DEF d, p, s
<1> QED BY <1>1, <1>2, <1>3, <1>4, ReviewingKeepsPlan

\* The steps of PlannedEdit.transact: the file holds what an edit planned, or nothing yet.
LEMMA WritingKeepsPlan ==
  ASSUME EditPlanInv, EditInv, NEW a \in Agents, Decline(a) \/ Check(a) \/ Truncate(a) \/ Fill(a)
  PROVE  EditPlanInv'
<1>1. pc[a] \in Pending /\ file \in Seq(FileLine) /\ planned[a] \in Seq(EditPlan) /\ planned[a] # <<>>
      /\ planned \in [Agents -> Seq(EditPlan)] /\ UNCHANGED <<views, draft, stamp>>
  <2>1. pc[a] \in Pending /\ UNCHANGED <<views, draft, stamp>>
    BY DEF Decline, Check, Truncate, Fill, Pending
  <2> QED BY <2>1 DEF EditPlanInv, Kinds, EditsToMake
<1>2. CASE Finish(a) /\ file' = file
  BY <1>1, <1>2, FinishKeepsPlan
<1>3. CASE Fill(a)
  <2>1. Head(planned[a]) \in EditPlan
    BY <1>1
  <2>2. file' \in Seq(FileLine)
    BY <1>3, <2>1 DEF Fill, EditPlan
  <2> QED BY <1>1, <1>3, <2>2, FinishKeepsPlan DEF Fill
<1>4. CASE Truncate(a) \/ (Check(a) /\ planned' = planned)
  <2>1. CASE Truncate(a)
    <3> DEFINE s == "filling"
               p == planned[a]
    <3>1. pc' = [pc EXCEPT ![a] = s] /\ planned' = planned /\ file' = <<>>
      BY <2>1 DEF Truncate
    <3>2. planned' = [planned EXCEPT ![a] = p] /\ p \in Seq(EditPlan) /\ p # <<>> /\ file' \in Seq(FileLine)
      BY <1>1, <3>1
    <3> HIDE DEF s, p
    <3> QED BY <1>1, <3>1, <3>2, ReviewingKeepsPlan
  <2>2. CASE Check(a) /\ pc' = [pc EXCEPT ![a] = "checked"] /\ planned' = planned
    <3> DEFINE s == "checked"
               p == planned[a]
    <3>1. pc' = [pc EXCEPT ![a] = s] /\ planned' = planned /\ file' = file
      BY <2>2 DEF Check
    <3>2. planned' = [planned EXCEPT ![a] = p] /\ p \in Seq(EditPlan) /\ p # <<>> /\ file' \in Seq(FileLine)
      BY <1>1, <3>1
    <3> HIDE DEF s, p
    <3> QED BY <1>1, <3>1, <3>2, ReviewingKeepsPlan
  <2>3. Check(a) => (pc' = [pc EXCEPT ![a] = "checked"] /\ planned' = planned) \/ (Finish(a) /\ file' = file)
    BY DEF Check
  <2> QED BY <1>2, <1>4, <2>1, <2>2, <2>3
<1>5. Decline(a) => Finish(a) /\ file' = file
  BY DEF Decline
<1>6. Check(a) => (planned' = planned \/ (Finish(a) /\ file' = file))
  BY DEF Check
<1> QED BY <1>2, <1>3, <1>4, <1>5, <1>6

\* A line added or taken away from outside.
LEMMA OutsideKeepsPlan ==
  ASSUME EditPlanInv, Outside
  PROVE  EditPlanInv'
<1>1. file \in Seq(FileLine) /\ stamp \in Nat /\ Len(file) \in Nat
  BY DEF EditPlanInv, Kinds
<1>2. stamp' = stamp + 1 /\ UNCHANGED <<views, pc, draft, planned>>
  BY DEF Outside
<1>3. file' \in Seq(FileLine)
  <2>1. ASSUME NEW t \in LineTexts, NEW at \in 1 .. Len(file) + 1,
               file' = Splice(file, at, 0, <<[text |-> t, id |-> <<stamp, at, 1>>]>>)
        PROVE  file' \in Seq(FileLine)
    <3> DEFINE new == <<[text |-> t, id |-> <<stamp, at, 1>>]>>
    <3>1. [text |-> t, id |-> <<stamp, at, 1>>] \in FileLine
      BY <1>1 DEF FileLine, LineId
    <3>2. new \in Seq(FileLine)
      BY <3>1
    <3> HIDE DEF new
    <3>3. 0 \in Nat /\ at + 0 - 1 <= Len(file)
      BY <1>1
    <3>4. Splice(file, at, 0, new) \in Seq(FileLine)
      BY <1>1, <3>2, <3>3, SpliceIs
    <3> QED BY <2>1, <3>4 DEF new
  <2>2. ASSUME NEW at \in 1 .. Len(file), file' = Splice(file, at, 1, <<>>)
        PROVE  file' \in Seq(FileLine)
    <3> DEFINE new == <<>>
    <3>1. new \in Seq(FileLine)
      OBVIOUS
    <3> HIDE DEF new
    <3>2. at \in 1 .. Len(file) + 1 /\ 1 \in Nat /\ at + 1 - 1 <= Len(file)
      BY <1>1
    <3>3. Splice(file, at, 1, new) \in Seq(FileLine)
      BY <1>1, <3>1, <3>2, SpliceIs
    <3> QED BY <2>2, <3>3 DEF new
  <2> QED BY <2>1, <2>2 DEF Outside
<1>4. Kinds'
  BY <1>1, <1>2, <1>3 DEF EditPlanInv, Kinds
<1>5. EditsToMake'
  BY <1>2 DEF EditPlanInv, EditsToMake
<1> QED BY <1>2, <1>4, <1>5 DEF EditPlanInv

\* Each step keeps account of every snapshot.
LEMMA StepKeepsPlan == EditInv /\ EditPlanInv /\ [EditsNext]_editVars => EditPlanInv'
<1> SUFFICES ASSUME EditInv, EditPlanInv, [EditsNext]_editVars PROVE EditPlanInv'
  OBVIOUS
<1>1. CASE UNCHANGED editVars
  BY <1>1 DEF editVars, EditPlanInv, Kinds, EditsToMake
<1>2. CASE EditsNext
  BY <1>2, ReadKeepsPlan, ViewKeepsPlan, DirectKeepsPlan, CreateKeepsPlan, BeginKeepsPlan, ReviewKeepsPlan,
     CancelKeepsPlan, WritingKeepsPlan, OutsideKeepsPlan DEF EditsNext
<1> QED BY <1>1, <1>2

\* EditTool.apply, for every batch: a planned line is a line of the snapshot with its text and identity, or
\* was written by the batch, and a line of the snapshot is still planned or was consumed.
THEOREM PlanInvariant == EditsSpec => []EditPlanInv
  BY InitPlanInv, StepKeepsPlan, EditInvariant, PTL DEF EditsSpec

-----------------------------------------------------------------------------
(* Targets are exact.                                                      *)

\* What a view shows of a file it still matches is the file's own line.
LEMMA FreshShows ==
  ASSUME NEW v \in View, NEW o \in Seq(FileLine), Fresh(v, o)
  PROVE  \A n \in v.first .. ViewEnd(v) : n \in 1 .. Len(o) /\ v.lines[n - v.first + 1] = o[n] /\ Shown(v, n,
          n)[1] = o[n]
<1> TAKE n \in v.first .. ViewEnd(v)
<1>1. v.first \in Nat \ {0} /\ Len(v.lines) \in Nat /\ Len(o) \in Nat
  BY DEF View
<1>2. n \in Int /\ v.first <= n /\ n <= n + 1 /\ n <= ViewEnd(v) /\ n - n + 1 = 1
  BY <1>1 DEF ViewEnd
<1>3. Shown(v, n, n)[1] = v.lines[n - v.first + 1]
  BY <1>2, ShownIs
<1>4. n <= Len(o) /\ Shown(v, n, n)[1] = o[n]
  BY DEF Fresh
<1> QED BY <1>1, <1>2, <1>3, <1>4

\* Lines n .. m of the file, where a view that still matches it shows them.
LEMMA FreshMatches ==
  ASSUME NEW v \in View, NEW o \in Seq(FileLine), Fresh(v, o), NEW n \in Int, NEW m \in Int,
         v.first <= n, n <= m + 1, m <= ViewEnd(v),
         NEW texts, Len(texts) = Len(o), \A i \in 1 .. Len(o) : texts[i] = o[i].text
  PROVE  Len(Lines(Shown(v, n, m))) = m - n + 1 /\ SamePosition(texts, n, Lines(Shown(v, n, m)))
<1>1. v.first \in Nat \ {0} /\ Len(o) \in Nat
  BY DEF View
<1>2. /\ Shown(v, n, m) \in Seq(FileLine) /\ Len(Shown(v, n, m)) = m - n + 1
      /\ \A k \in 1 .. m - n + 1 : Shown(v, n, m)[k] = v.lines[n - v.first + k]
  BY ShownIs
<1>3. Len(Lines(Shown(v, n, m))) = m - n + 1 /\ \A k \in 1 .. m - n + 1 : Lines(Shown(v, n, m))[k] = Shown(v,
        n, m)[k].text
  BY <1>2, LinesIs
<1>4. ASSUME NEW k \in 1 .. m - n + 1
      PROVE  n + k - 1 \in 1 .. Len(o) /\ v.lines[n - v.first + k] = o[n + k - 1]
  <2> DEFINE j == n + k - 1
  <2>1. ViewEnd(v) \in Int
    BY DEF ViewEnd, View
  <2>2. j \in v.first .. ViewEnd(v) /\ j - v.first + 1 = n - v.first + k
    BY SMTT(40), <1>1, <2>1
  <2> HIDE DEF j
  <2>3. j \in 1 .. Len(o) /\ v.lines[j - v.first + 1] = o[j]
    BY <2>2, FreshShows
  <2> QED BY <2>2, <2>3 DEF j
<1>5. \A k \in 1 .. m - n + 1 : n + k - 1 \in 1 .. Len(texts) /\ texts[n + k - 1] = Lines(Shown(v, n, m))[k]
  <2> TAKE k \in 1 .. m - n + 1
  <2> DEFINE j == n + k - 1
  <2>1. j \in 1 .. Len(o) /\ v.lines[n - v.first + k] = o[j]
    BY <1>4
  <2>2. Shown(v, n, m)[k] = o[j]
    BY <1>2, <2>1
  <2>3. Lines(Shown(v, n, m))[k] = o[j].text
    BY <1>3, <2>2
  <2> HIDE DEF j
  <2>4. j \in 1 .. Len(texts) /\ texts[j] = o[j].text
    BY <2>1
  <2> QED BY <2>3, <2>4 DEF j
<1> QED BY <1>3, <1>5 DEF SamePosition

\* An untouched file is found where the view has it.
LEMMA FreshIsLocated ==
  ASSUME NEW v \in View, NEW o \in Seq(FileLine), Fresh(v, o), NEW from \in Int, NEW to \in Int,
         v.first <= from, from <= to, to <= ViewEnd(v),
         NEW texts, Len(texts) = Len(o), \A i \in 1 .. Len(o) : texts[i] = o[i].text
  PROVE  LocateRange(texts, v, from, to, 0) = from
<1> DEFINE target == Lines(Shown(v, from, to))
           low == IF from - 2 < v.first THEN v.first ELSE from - 2
           high == IF to + 2 > ViewEnd(v) THEN ViewEnd(v) ELSE to + 2
<1>1. v.first \in Nat \ {0} /\ ViewEnd(v) \in Int
  BY DEF View, ViewEnd
<1>2. Len(target) = to - from + 1 /\ SamePosition(texts, from, target)
  <2>1. from <= to + 1
    OBVIOUS
  <2>2. Len(Lines(Shown(v, from, to))) = to - from + 1 /\ SamePosition(texts, from, Lines(Shown(v, from, to)))
    BY <2>1, FreshMatches
  <2> QED BY <2>2
<1>3. Len(Above(v, from)) = from - low /\ SamePosition(texts, low, Above(v, from))
  <2>1. low \in Int /\ from - 1 \in Int /\ v.first <= low /\ low <= (from - 1) + 1 /\ from - 1 <= ViewEnd(v)
        /\ (from - 1) - low + 1 = from - low
    BY SMTT(40), <1>1
  <2> DEFINE m == from - 1
  <2> HIDE DEF low, m
  <2>2. Len(Lines(Shown(v, low, m))) = m - low + 1 /\ SamePosition(texts, low, Lines(Shown(v, low, m)))
    BY <2>1, FreshMatches DEF m
  <2> QED BY <2>1, <2>2 DEF Above, low, m
<1>4. SamePosition(texts, to + 1, Below(v, to))
  <2>1. high \in Int /\ to + 1 \in Int /\ v.first <= to + 1 /\ to + 1 <= high + 1 /\ high <= ViewEnd(v)
    BY <1>1
  <2> DEFINE n == to + 1
  <2> HIDE DEF high, n
  <2>2. SamePosition(texts, n, Lines(Shown(v, n, high)))
    BY <2>1, FreshMatches DEF n
  <2> QED BY <2>2 DEF Below, high, n
<1>5. ContextMatches(texts, from, target, Above(v, from), Below(v, to))
  <2>1. from > Len(Above(v, from)) /\ from - Len(Above(v, from)) = low /\ from + Len(target) = to + 1
    <3>1. low \in Int /\ low >= 1
      BY <1>1
    <3> HIDE DEF low, target
    <3> QED BY SMTT(40), <1>2, <1>3, <3>1
  <2> HIDE DEF low, target
  <2> QED BY <1>3, <1>4, <2>1 DEF ContextMatches
<1> QED BY <1>2, <1>5 DEF LocateRange

\* Lines from .. to of o stand, text and identity, from position p of ls on.
SameAt(ls, p, o, from, to) ==
  \A n \in from .. to : /\ p + (n - from) \in 1 .. Len(ls)
                        /\ ls[p + (n - from)].text = o[n].text /\ ls[p + (n - from)].id = o[n].id

\* The planned file from place p on reads, text and identity, as the snapshot from line `from` on.
LEMMA SameLines ==
  ASSUME NEW v \in View, NEW o \in Seq(FileLine), Fresh(v, o), NEW ls \in Seq(PlannedLine),
         NEW from \in v.first .. ViewEnd(v), NEW to \in v.first .. ViewEnd(v), from <= to, NEW p \in Int,
         SameAt(ls, p, o, from, to)
  PROVE  /\ SamePosition(Lines(ls), p, Lines(Shown(v, from, to)))
         /\ Ids(SubSeq(ls, p, p + to - from)) = Ids(Shown(v, from, to))
<1>1. v.first \in Nat \ {0} /\ ViewEnd(v) \in Int /\ Len(ls) \in Nat
  BY DEF View, ViewEnd
<1>2. /\ Shown(v, from, to) \in Seq(FileLine) /\ Len(Shown(v, from, to)) = to - from + 1
      /\ \A k \in 1 .. to - from + 1 : Shown(v, from, to)[k] = v.lines[from - v.first + k]
  BY <1>1, ShownIs
<1>3. ASSUME NEW k \in 1 .. to - from + 1
      PROVE  /\ p + k - 1 \in 1 .. Len(ls)
             /\ ls[p + k - 1].text = Shown(v, from, to)[k].text /\ ls[p + k - 1].id = Shown(v, from, to)[k].id
  <2> DEFINE n == from + k - 1
             j == p + k - 1
  <2>1. n \in from .. to /\ n \in v.first .. ViewEnd(v) /\ n - v.first + 1 = from - v.first + k
          /\ p + (n - from) = j
    <3>1. PICK f \in Nat \ {0}, e \in Int : f = v.first /\ e = ViewEnd(v)
      BY <1>1
    <3>2. from \in f .. e /\ to \in f .. e
      BY <3>1
    <3>3. n \in from .. to /\ n \in f .. e /\ n - f + 1 = from - f + k /\ p + (n - from) = j
      BY <3>2
    <3> QED BY <3>1, <3>3
  <2> HIDE DEF n, j
  <2>2. v.lines[n - v.first + 1] = o[n]
    BY <2>1, FreshShows
  <2>3. Shown(v, from, to)[k] = o[n]
    BY <1>2, <2>1, <2>2
  <2>4. j \in 1 .. Len(ls) /\ ls[j].text = o[n].text /\ ls[j].id = o[n].id
    BY <2>1 DEF SameAt
  <2> QED BY <2>3, <2>4 DEF j
<1>4. SamePosition(Lines(ls), p, Lines(Shown(v, from, to)))
  <2>1. Len(Lines(Shown(v, from, to))) = to - from + 1
        /\ \A k \in 1 .. to - from + 1 : Lines(Shown(v, from, to))[k] = Shown(v, from, to)[k].text
    BY <1>2, LinesIs
  <2>2. Len(Lines(ls)) = Len(ls) /\ \A i \in 1 .. Len(ls) : Lines(ls)[i] = ls[i].text
    BY LinesIs
  <2> QED BY ZenonT(60), <1>3, <2>1, <2>2 DEF SamePosition
<1>5. Ids(SubSeq(ls, p, p + to - from)) = Ids(Shown(v, from, to))
  <2> DEFINE q == p + to - from
             s == SubSeq(ls, p, q)
  <2>1. 1 \in 1 .. to - from + 1 /\ to - from + 1 \in 1 .. to - from + 1
    BY <1>1
  <2>2. p + 1 - 1 \in 1 .. Len(ls) /\ p + (to - from + 1) - 1 \in 1 .. Len(ls)
    BY <1>3, <2>1
  <2>3. p \in 1 .. Len(ls) + 1 /\ q \in p - 1 .. Len(ls) /\ q - p + 1 = to - from + 1
    BY <1>1, <2>2
  <2> HIDE DEF q
  <2>4. s \in Seq(PlannedLine) /\ Len(s) = q - p + 1 /\ \A i \in 1 .. q - p + 1 : s[i] = ls[p + i - 1]
    BY ZenonT(60), <2>3, Cut
  <2> HIDE DEF s
  <2>5. Len(s) = to - from + 1 /\ \A k \in 1 .. to - from + 1 : s[k].id = Shown(v, from, to)[k].id
    BY <1>3, <2>3, <2>4
  <2>6. Ids(s) = Ids(Shown(v, from, to))
    BY <1>2, <2>5 DEF Ids
  <2> QED BY <2>6 DEF s, q
<1> QED BY <1>4, <1>5

\* planned_start and locate_range together.
LEMMA TargetIsExact ==
  ASSUME NEW st, DraftOK(st), st.opened = TRUE, NEW v \in View, Fresh(v, st.original),
         NEW from \in v.first .. ViewEnd(v), NEW to \in v.first .. ViewEnd(v), from <= to,
         st.base # 0 \/ ~st.edited, Located(st, v, from, to) > 0
  PROVE  Ids(SubSeq(st.lines, Located(st, v, from, to), Located(st, v, from, to) + to - from))
            = Ids(Shown(v, from, to))
<1> DEFINE o == st.original
           ls == st.lines
           at == Located(st, v, from, to)
           start == PlannedStart(st, v, from, to)
<1>0. v \in View /\ Fresh(v, o) /\ from \in v.first .. ViewEnd(v) /\ to \in v.first .. ViewEnd(v) /\ from <= to
  OBVIOUS
<1>1. /\ o \in Seq(FileLine) /\ ls \in Seq(PlannedLine) /\ v.first \in Nat \ {0} /\ ViewEnd(v) \in Int
      /\ Len(o) \in Nat /\ Len(ls) \in Nat /\ Len(Lines(ls)) = Len(ls)
              /\ \A i \in 1 .. Len(ls) : Lines(ls)[i] = ls[i].text
  <2>1. o \in Seq(FileLine) /\ ls \in Seq(PlannedLine)
    BY DEF DraftOK, Draft
  <2>2. v.first \in Nat \ {0} /\ ViewEnd(v) \in Int
    BY DEF View, ViewEnd
  <2>3. Len(Lines(ls)) = Len(ls) /\ \A i \in 1 .. Len(ls) : Lines(ls)[i] = ls[i].text
    BY <2>1, LinesIs
  <2> QED BY <2>1, <2>2, <2>3
<1>2. at = IF start < 0 THEN start ELSE LocateRange(Lines(ls), v, from, to, start)
  BY <1>1 DEF Located, Visible
<1>3. \A n \in from .. to : n \in 1 .. Len(o) /\ n \in v.first .. ViewEnd(v)
  <2> TAKE n \in from .. to
  <2>1. n \in v.first .. ViewEnd(v)
    BY <1>1
  <2> QED BY <1>1, <2>1, FreshShows
<1>4. from \in Int /\ to \in Int /\ v.first <= from /\ to <= ViewEnd(v)
  BY <1>1
<1>5. CASE ~st.edited
  <2>1. /\ Len(ls) = Len(o)
        /\ \A n \in 1 .. Len(o) : ls[n].text = o[n].text /\ ls[n].id = o[n].id
    BY <1>5 DEF DraftOK, Stands
  <2>2. start = 0
    <3>1. start = -1 \/ start = 0
      BY <1>1, <1>4, <1>5, StartIs
    <3>2. start # -1
      <4> HIDE DEF start
      <4> QED BY <1>2
    <3> QED BY <3>1, <3>2
  <2>3. LocateRange(Lines(ls), v, from, to, 0) = from
    <3> DEFINE texts == Lines(ls)
    <3>1. Len(texts) = Len(o) /\ \A i \in 1 .. Len(o) : texts[i] = o[i].text
      BY <1>1, <2>1
    <3> HIDE DEF texts, o
    <3>2. LocateRange(texts, v, from, to, 0) = from
      BY SMTT(40), <1>1, <1>4, <3>1, FreshIsLocated DEF o
    <3> QED BY <3>2 DEF texts
  <2>4. at = from
    <3> HIDE DEF at, start
    <3> QED BY <1>2, <2>2, <2>3
  <2>5. \A n \in from .. to : /\ from + (n - from) \in 1 .. Len(ls)
                              /\ ls[from + (n - from)].text = o[n].text /\ ls[from + (n - from)].id = o[n].id
    <3> TAKE n \in from .. to
    <3>1. from + (n - from) = n
      BY <1>4
    <3> QED BY <1>3, <2>1, <3>1
  <2> HIDE DEF at, o, ls
  <2>6. Ids(SubSeq(ls, from, from + to - from)) = Ids(Shown(v, from, to))
    <3>1. SameAt(ls, from, o, from, to)
      BY <2>5 DEF SameAt
    <3>2. from \in Int
      BY <1>1
    <3> QED BY ONLY <1>0, <1>1, <3>1, <3>2, SameLines
  <2> QED BY <2>4, <2>6 DEF at, ls
<1>6. CASE st.edited /\ st.base # 0
  <2>1. \A n \in from .. to : OriginKey(st, v, n) = <<st.base, n>>
    <3> TAKE n \in from .. to
    <3>1. n <= Len(st.original) /\ Shown(v, n, n)[1].text = st.original[n].text
      BY <1>1, <1>3, FreshShows
    <3> QED BY <1>6, <3>1 DEF OriginKey
  <2>2. \A n \in from .. to : <<st.base, n>> \in st.consumed
          \/ \E i \in 1 .. Len(ls) : ls[i].origin = <<st.base, n>>
    BY <1>3 DEF DraftOK
  <2>3. start # -1
    <3> HIDE DEF start
    <3> QED BY <1>2
  <2>4. start \in 1 .. Len(ls) /\ \A n \in from .. to :
            start + (n - from) \in 1 .. Len(ls) /\ ls[start + (n - from)].origin = OriginKey(st, v, n)
    <3>1. \/ start = -1
          \/ /\ \A n \in from .. to : OriginKey(st, v, n) \notin st.consumed
             /\ ~st.edited \/ \E n \in from .. to : \A i \in 1 .. Len(ls) : ls[i].origin # OriginKey(st, v, n)
          \/ start \in 1 .. Len(ls) /\ \A n \in from .. to :
                start + (n - from) \in 1 .. Len(ls) /\ ls[start + (n - from)].origin = OriginKey(st, v, n)
      BY ZenonT(60), <1>1, <1>4, StartIs
    <3> HIDE DEF start, ls
    <3> QED BY <1>6, <2>1, <2>2, <2>3, <3>1
  <2> HIDE DEF start
  <2>5. ASSUME NEW n \in from .. to
        PROVE  /\ start + (n - from) \in 1 .. Len(ls)
               /\ ls[start + (n - from)].text = o[n].text /\ ls[start + (n - from)].id = o[n].id
    <3> DEFINE i == start + (n - from)
    <3>1. i \in 1 .. Len(ls) /\ ls[i].origin = <<st.base, n>>
      BY <2>1, <2>4
    <3> HIDE DEF i
    <3>2. ~Written(ls[i])
      BY <3>1 DEF Written
    <3>3. PICK m \in 1 .. Len(o) : Stands(st, ls[i], m)
      BY <3>1, <3>2 DEF DraftOK
    <3>4. m = n
      BY <3>1, <3>3 DEF Stands
    <3> QED BY <3>1, <3>3, <3>4 DEF Stands, i
  <2>6. start \in Int
    BY <2>4
  <2>7. /\ SamePosition(Lines(ls), start, Lines(Shown(v, from, to)))
        /\ Ids(SubSeq(ls, start, start + to - from)) = Ids(Shown(v, from, to))
    <3> HIDE DEF o, ls
    <3>1. SameAt(ls, start, o, from, to)
      BY <2>5 DEF SameAt
    <3> QED BY ONLY <1>0, <1>1, <2>6, <3>1, SameLines
  <2>8. LocateRange(Lines(ls), v, from, to, start) = start
    BY <2>4, <2>7 DEF LocateRange
  <2>9. at = start
    <3> HIDE DEF at
    <3> QED BY <1>2, <2>4, <2>8
  <2> HIDE DEF at
  <2> QED BY <2>7, <2>9 DEF at
<1> QED BY <1>5, <1>6

\* planned_start, locate_range and splice_lines: a target that a view shows as the snapshot has it lands on the
\* very lines the view showed, however many calls of the batch have moved them.
THEOREM FreshExact == EditsSpec => []FreshTargetsAreExact
<1>1. EditPlanInv => FreshTargetsAreExact
  <2> SUFFICES ASSUME EditPlanInv, NEW a \in Agents, NEW v \in Views(a), Fresh(v, draft[a].original),
                      NEW from \in v.first .. ViewEnd(v), NEW to \in v.first .. ViewEnd(v), from <= to,
                      Located(FileState(draft[a], v.key), v, from, to) > 0,
                      FileState(draft[a], v.key).base # 0 \/ ~FileState(draft[a], v.key).edited
               PROVE  LET st == FileState(draft[a], v.key)
                          at == Located(st, v, from, to)
                      IN Ids(SubSeq(st.lines, at, at + to - from)) = Ids(Shown(v, from, to))
    BY DEF FreshTargetsAreExact
  <2> DEFINE st == FileState(draft[a], v.key)
  <2>1. v \in View
    <3>1. views[a] \in Seq(View)
      BY DEF EditPlanInv, Kinds
    <3> QED BY <3>1 DEF Views
  <2>2. v.key \in Nat /\ DraftOK(draft[a])
    BY <2>1 DEF View, EditPlanInv
  <2>3. DraftOK(st) /\ st.opened = TRUE /\ st.original = draft[a].original
    BY <2>2, OpenedOK
  <2> HIDE DEF st
  <2>4. Fresh(v, st.original) /\ (st.base # 0 \/ ~st.edited) /\ Located(st, v, from, to) > 0
    BY <2>3 DEF st
  <2>5. Ids(SubSeq(st.lines, Located(st, v, from, to), Located(st, v, from, to) + to - from))
            = Ids(Shown(v, from, to))
    BY <2>1, <2>3, <2>4, TargetIsExact
  <2> QED BY <2>5 DEF st
<1> QED BY <1>1, PlanInvariant, PTL

\* The candidates of a target are finitely many.
LEMMA CandidatesAreFinite ==
  ASSUME NEW lines, Len(lines) \in Nat, NEW near, NEW target, Len(target) \in Nat
  PROVE  IsFiniteSet(Candidates(lines, near, target))
<1> DEFINE n == Len(lines) - Len(target) + 1
<1>1. IsFiniteSet(1 .. n)
  BY FS_Interval
<1>2. Candidates(lines, near, target) \in SUBSET (1 .. n)
  BY DEF Candidates
<1> HIDE DEF n
<1> QED BY <1>1, <1>2, FS_Subset

\* Two members make more than one.
LEMMA TwoAreMany ==
  ASSUME NEW S, IsFiniteSet(S), NEW x \in S, NEW y \in S, x # y
  PROVE  Cardinality(S) > 1
<1>1. Cardinality(S) \in Nat
  BY FS_CardinalityType
<1>2. Cardinality(S) # 0
  BY FS_EmptySet
<1>3. Cardinality(S) # 1
  BY FS_Singleton
<1> QED BY <1>1, <1>2, <1>3

\* relocate_target: a copy that is taken among others has the view's neighbours, and no other has them.
LEMMA RelocatedIsOnlyOne ==
  ASSUME NEW lines, Len(lines) \in Nat, NEW near, NEW target, Len(target) \in Nat, NEW above, NEW below,
         RelocateTarget(lines, near, target, above, below) # 0,
         NEW copy \in Candidates(lines, near, target), copy # RelocateTarget(lines, near, target, above,
                 below)
  PROVE  /\ ContextMatches(lines, RelocateTarget(lines, near, target, above, below), target, above, below)
         /\ ~ContextMatches(lines, copy, target, above, below)
<1> DEFINE all == Candidates(lines, near, target)
           fits(i) == ContextMatches(lines, i, target, above, below)
           at0 == RelocateTarget(lines, near, target, above, below)
           some == above # <<>> \/ below # <<>>
           beside == IF Cardinality(all) > 1 /\ some THEN {at \in all : fits(at)} ELSE all
<1>1. Cardinality(beside) = 1 /\ at0 = CHOOSE at \in beside : TRUE
  BY DEF RelocateTarget
<1>2. at0 \in all
  BY CandidateMatches
<1>3. IsFiniteSet(all)
  BY CandidatesAreFinite
<1> HIDE DEF all, at0, fits, some
<1>4. Cardinality(all) > 1
  BY <1>2, <1>3, TwoAreMany DEF all, at0
<1>5. IsFiniteSet(beside)
  <2>1. beside \in SUBSET all
    OBVIOUS
  <2> HIDE DEF beside
  <2> QED BY <1>3, <2>1, FS_Subset
<1>6. some
  <2> SUFFICES ASSUME ~some PROVE FALSE
    OBVIOUS
  <2>1. beside = all
    OBVIOUS
  <2> HIDE DEF beside
  <2> QED BY <1>1, <1>4, <2>1
<1>7. beside = {at \in all : fits(at)}
  BY <1>4, <1>6
<1> HIDE DEF beside
<1>8. \E x : beside = {x}
  BY <1>1, <1>5, FS_Singleton
<1>9. beside = {at0}
  BY <1>1, <1>8
<1>10. fits(at0) /\ ~fits(copy)
  BY <1>7, <1>9 DEF all, at0
<1> QED BY <1>10 DEF fits, at0

\* locate_range without a place of its own.
LEMMA LocatedIsBest ==
  ASSUME NEW lines, Len(lines) \in Nat, NEW v, NEW from, from # 0, NEW to, Len(Lines(Shown(v, from,
          to))) \in Nat,
         NEW at, at = LocateRange(lines, v, from, to, 0), at # 0
  PROVE  LET target == Lines(Shown(v, from, to))
             copies == Candidates(lines, from, target) \ {at}
             fits(i) == ContextMatches(lines, i, target, Above(v, from), Below(v, to))
         IN /\ SamePosition(lines, at, target)
            /\ copies # {} => fits(at)
            /\ (\E i \in copies : fits(i)) => at = from
<1> DEFINE target == Lines(Shown(v, from, to))
           above == Above(v, from)
           below == Below(v, to)
           fits(i) == ContextMatches(lines, i, target, above, below)
<1>1. SamePosition(lines, at, target)
  BY LocatedMatches
<1>2. \/ at = from /\ fits(from)
      \/ at = RelocateTarget(lines, from, target, above, below)
  BY DEF LocateRange
<1> HIDE DEF target, above, below
<1>3. CASE at = from /\ fits(from)
  BY <1>1, <1>3 DEF target, above, below
<1>4. CASE at = RelocateTarget(lines, from, target, above, below)
  <2>1. ASSUME NEW i \in Candidates(lines, from, target) \ {at}
        PROVE  fits(at) /\ ~fits(i)
    <3>1. Len(target) \in Nat
      BY DEF target
    <3>2. i # RelocateTarget(lines, from, target, above, below) /\ RelocateTarget(lines, from, target, above,
            below) # 0
      BY <1>4
    <3>3. i \in Candidates(lines, from, target)
      OBVIOUS
    <3>4. fits(RelocateTarget(lines, from, target, above, below)) /\ ~fits(i)
      BY <3>1, <3>2, <3>3, RelocatedIsOnlyOne
    <3> QED BY <1>4, <3>4
  <2> QED BY <1>1, <2>1 DEF target, above, below
<1> QED BY <1>2, <1>3, <1>4

\* locate_range and relocate_target: in a file the batch has not touched, a target lands on a copy of what the view
\* showed, and on one among several only if the neighbours the view showed are beside that one and no other.
THEOREM EvidenceIsBest == EditsSpec => []BestEvidence
<1>1. EditPlanInv => BestEvidence
  <2> SUFFICES ASSUME EditPlanInv, NEW a \in Agents, ~draft[a].edited, NEW v \in Views(a),
                      NEW from \in 1 .. MaxLines, NEW to \in 1 .. MaxLines, Visible(v, from, to),
                      Located(FileState(draft[a], v.key), v, from, to) > 0
               PROVE  LET st == FileState(draft[a], v.key)
                          lines == Lines(st.lines)
                          target == Lines(Shown(v, from, to))
                          at == Located(st, v, from, to)
                          copies == Candidates(lines, from, target) \ {at}
                          fits(i) == ContextMatches(lines, i, target, Above(v, from), Below(v, to))
                      IN /\ SamePosition(lines, at, target)
                         /\ copies # {} => fits(at)
                         /\ (\E i \in copies : fits(i)) => at = from
    BY DEF BestEvidence
  <2> DEFINE st == FileState(draft[a], v.key)
             lines == Lines(st.lines)
             at == Located(st, v, from, to)
             start == PlannedStart(st, v, from, to)
  <2>1. v \in View
    <3>1. views[a] \in Seq(View)
      BY DEF EditPlanInv, Kinds
    <3> QED BY <3>1 DEF Views
  <2>2. v.key \in Nat /\ DraftOK(draft[a])
    BY <2>1 DEF View, EditPlanInv
  <2>3. DraftOK(st) /\ st.edited = draft[a].edited
    BY <2>2, OpenedOK
  <2> HIDE DEF st
  <2>4. st.lines \in Seq(PlannedLine) /\ ~st.edited
    BY <2>3 DEF DraftOK, Draft
  <2>5. from \in Int /\ to \in Int /\ from # 0 /\ v.first <= from /\ from <= to /\ to <= ViewEnd(v)
    BY DEF Visible
  <2>6. Len(lines) \in Nat
    BY <2>4, LinesIs
  <2>7. Len(Lines(Shown(v, from, to))) \in Nat
    <3>1. Shown(v, from, to) \in Seq(FileLine) /\ from <= to + 1
      BY <2>1, <2>5, ShownIs
    <3>2. Len(Lines(Shown(v, from, to))) = Len(Shown(v, from, to))
      BY <3>1, LinesIs
    <3> QED BY <3>1, <3>2
  <2>8. at = IF start < 0 THEN start ELSE LocateRange(lines, v, from, to, start)
    BY DEF Located
  <2>9. start = -1 \/ start = 0
    BY <2>4, <2>5, StartIs
  <2>10. at > 0
    BY DEF st
  <2> HIDE DEF start, lines
  <2>11. at = LocateRange(lines, v, from, to, 0) /\ at # 0
    <3> HIDE DEF at
    <3> QED BY <2>8, <2>9, <2>10
  <2> HIDE DEF at
  <2>12. LET target == Lines(Shown(v, from, to))
             copies == Candidates(lines, from, target) \ {at}
             fits(i) == ContextMatches(lines, i, target, Above(v, from), Below(v, to))
         IN /\ SamePosition(lines, at, target)
            /\ copies # {} => fits(at)
            /\ (\E i \in copies : fits(i)) => at = from
    BY ZenonT(60), <2>5, <2>6, <2>7, <2>11, LocatedIsBest
  <2> QED BY <2>12, Zenon DEF st, lines, at
<1> QED BY <1>1, PlanInvariant, PTL

\* The two together: an edit replaces the lines its view showed, or the only copy that evidence can single out.
THEOREM TargetsStayExact == EditsSpec => []TargetsAreExact
  BY FreshExact, EvidenceIsBest, PTL DEF TargetsAreExact
=============================================================================
