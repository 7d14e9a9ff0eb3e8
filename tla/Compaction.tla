------------------------------ MODULE Compaction ------------------------------
(***************************************************************************)
(* How a conversation is kept within its token budget (agent/context.py,   *)
(* agent/compaction.py, agent/history.py).  Before each request the prior  *)
(* history, and if need be the active turn, is split into a span to evict  *)
(* and a tail to keep; a summarizing request is handed the span, and the   *)
(* span is replaced by one checkpoint and exported as a segment.           *)
(***************************************************************************)
EXTENDS Naturals, SequencesExt, FiniteSetsExt

CONSTANTS Recent,        \* COMPACT_RECENT_MESSAGES
          MinimumRecent, \* COMPACT_MINIMUM_RECENT
          Budget,        \* request_token_budget
          Line,          \* auto_compaction_limit: Budget times compaction.threshold
          Sizes,         \* tokens a message may have
          MaxSegments,   \* MAX_HISTORY_SEGMENTS
          FollowUps,     \* whether the user types while a turn runs
          MaxMessages,   \* bound on messages ever added
          MaxPasses      \* bound on compactions

VARIABLES
  history,   \* session.messages
  turn,      \* the live turn
  request,   \* the turn as the request carries it: the live list, or a copy with the follow-up
  pc,        \* where the agent is
  pending,   \* a claimed follow-up is not accepted yet
  manual,    \* session.context_compact_requested
  overdue,   \* _overdue_by_usage
  marks,     \* _auto_compacted_at
  records,   \* keys of session.tool_records
  segments,  \* session.history: the retained segments
  files,     \* history.N.md on disk: key -> span
  index,     \* the entries of history.md
  count,     \* messages added so far
  passes,    \* state.compaction_count
  last       \* history: what the last pass evicted, showed the summarizer and started from

archive == <<segments, files, index>>
vars == <<history, turn, request, pc, pending, manual, overdue, marks, records, archive, count, passes, last>>

Kinds == {"user", "event", "call", "result", "text", "summary"}
Checkpoint == [id |-> 0, kind |-> "summary", size |-> 1]
NoPass == [evicted |-> {}, seen |-> {}, scope |-> <<>>, outcome |-> "none"]

Ids(s) == {s[i].id : i \in DOMAIN s}
OfKind(s, kinds) == {i \in DOMAIN s : s[i].kind \in kinds}
request_tokens(s) == FoldSeq(LAMBDA m, sum : m.size + sum, 0, s)

------------------------------------------------------------------------------
(* Where the cut goes *)

\* 0 when there is none: session events and checkpoints are no requests.
latest_user_index(s) == LET users == OfKind(s, {"user"}) IN IF users = {} THEN 0 ELSE Max(users)

without_summaries(s) == FlattenSeq([i \in DOMAIN s |-> IF s[i].kind = "summary" THEN <<>> ELSE <<s[i]>>])

safe_cut_mut(s, cut) ==   \* Mutant: backs off the results and leaves their call behind
  IF cut < Len(s) /\ s[cut + 1].kind = "result"
  THEN Max({c \in 0..cut : c = 0 \/ s[c].kind # "result"}) ELSE cut

\* A cut among tool results moves back to before the call they answer.
safe_cut(s, cut) ==
  IF cut < Len(s) /\ s[cut + 1].kind = "result"
  THEN LET c == Max({k \in 0..cut : k = 0 \/ s[k].kind # "result"})
       IN IF c > 0 /\ s[c].kind = "call" THEN c - 1 ELSE c
  ELSE cut

\* The kept tail: at most recent messages and a quarter of the budget, at
\* least one message.
keep_start(s, recent) ==
  LET share == Max({1, Budget \div 4})
      Fits(n) == n <= recent /\ (n <= 1 \/ request_tokens(SubSeq(s, Len(s) - n + 1, Len(s))) <= share)
  IN safe_cut(s, Len(s) - Max({n \in 0..Len(s) : Fits(n)}))

split_mut(s, latest, recent) ==   \* Mutant: a request before the window goes with the span
  LET start == keep_start(s, recent)
  IN [compacted |-> SubSeq(s, 1, start), keep |-> SubSeq(s, start + 1, Len(s))]

\* A request before the window is carried on its own.
split(s, latest, recent) ==
  LET start == keep_start(s, recent)
  IN IF start < latest \/ latest = 0
     THEN [compacted |-> SubSeq(s, 1, start), keep |-> SubSeq(s, start + 1, Len(s))]
     ELSE [compacted |-> SubSeq(s, 1, latest - 1) \o SubSeq(s, latest + 1, start),
           keep |-> <<s[latest]>> \o SubSeq(s, start + 1, Len(s))]

\* parts and turn_parts: history without a request is handed over whole.
Parts(scope, s, recent) ==
  LET cut == IF scope = "history" /\ latest_user_index(s) = 0 THEN [compacted |-> s, keep |-> <<>>]
             ELSE split(s, latest_user_index(s), recent)
  IN [compacted |-> without_summaries(cut.compacted), keep |-> without_summaries(cut.keep)]

\* The window a pass uses: the small one when the ordinary one leaves nothing.
Window(scope, s) == IF Parts(scope, s, Recent).compacted = <<>> THEN MinimumRecent ELSE Recent

prefix_count_mut(scope, s, recent) ==   \* Mutant: counts with the ordinary window
  IF scope = "history" /\ latest_user_index(s) = 0 THEN Len(s) ELSE keep_start(s, Recent)

\* How much of the scope the inline summary request carries.
prefix_count(scope, s, recent) ==
  IF scope = "history" /\ latest_user_index(s) = 0 THEN Len(s) ELSE keep_start(s, recent)

\* The summary request rides the projection the turn sent, up to the cut.
Inline(scope, s, recent) == SubSeq(s, 1, prefix_count(scope, s, recent))

\* What a summary request that is not stopped comes to: a summary, after one
\* correction at most, or a failure that leaves the span trimmed without one.
Summarized == {"summary", "trimmed"}

------------------------------------------------------------------------------
(* The checkpoint and the export *)

\* A turn's checkpoint goes after its latest request, history's to the front.
Rebuilt(scope, keep) ==
  LET insert == IF latest_user_index(keep) = 0 THEN Len(keep) ELSE latest_user_index(keep)
  IN IF scope = "history" THEN <<Checkpoint>> \o keep
     ELSE SubSeq(keep, 1, insert) \o <<Checkpoint>> \o SubSeq(keep, insert + 1, Len(keep))

next_segment_key_mut(retained) == Len(retained) + 1   \* Mutant: counts the retained list

\* One more than the highest key still retained.
next_segment_key(retained) == Max({segment.key : segment \in ToSet(retained)} \cup {0}) + 1

\* Every retained segment without a file is written, the new one last, or the
\* writes fail; an index entry follows a file that landed.
Export(span) ==
  LET key == next_segment_key(segments)
      all == Append(segments, [key |-> key, span |-> span])
      retained == SubSeq(all, Max({0, Len(all) - MaxSegments}) + 1, Len(all))
      missing == {segment \in ToSet(retained) : segment.key = key \/ segment.key \notin DOMAIN files}
  IN /\ segments' = retained
     /\ \E landed \in {missing, {}} :
          /\ files' = [k \in DOMAIN files \cup {s.key : s \in landed} |->
                         IF \E s \in landed : s.key = k THEN (CHOOSE s \in landed : s.key = k).span ELSE files[k]]
          /\ index' = index \cup {<<s.key, s.span>> : s \in landed}

\* The tool records nothing in the context names any more are dropped.
Prune(context) == records' = records \cap Ids(context)

\* apply_compaction, for the history or for the turn as the request carries it.
Apply(scope, s, recent, outcome) ==
  LET parts == Parts(scope, s, recent)
      rebuilt == Rebuilt(scope, parts.keep)
  IN /\ passes' = passes + 1 /\ overdue' = FALSE
     /\ Export(Ids(parts.compacted))
     /\ last' = [evicted |-> Ids(parts.compacted), seen |-> Ids(Inline(scope, s, recent)),
                 scope |-> s, outcome |-> outcome]
     /\ IF scope = "history" THEN history' = rebuilt /\ Prune(rebuilt \o request) /\ UNCHANGED <<turn, request>>
        ELSE /\ request' = rebuilt /\ Prune(history \o rebuilt)
             /\ turn' = IF pending THEN turn ELSE rebuilt
             /\ UNCHANGED history

------------------------------------------------------------------------------
(* A pass: the summary arrives, fails and the span is trimmed without one, is *)
(* cancelled and the span is trimmed before the turn ends, or a hook or a     *)
(* plugin stops it and nothing is trimmed *)

EndTurn == pc' = "settle"

Pass(scope, s, next) ==
  /\ passes < MaxPasses
  /\ LET recent == Window(scope, s) IN
     IF Parts(scope, s, recent).compacted = <<>>
     THEN /\ pc' = next
          /\ marks' = [marks EXCEPT ![scope] = Len(s)]
          /\ UNCHANGED <<history, turn, request, overdue, records, archive, passes, last>>
     ELSE \/ \E outcome \in Summarized :
               /\ Apply(scope, s, recent, outcome)
               /\ marks' = [marks EXCEPT ![scope] = Len(IF scope = "history" THEN history' ELSE request')]
               /\ pc' = next
          \/ Apply(scope, s, recent, "cancelled") /\ EndTurn /\ UNCHANGED marks
          \/ /\ last' = [NoPass EXCEPT !.scope = s, !.outcome = "stopped"] /\ EndTurn
             /\ UNCHANGED <<history, turn, request, overdue, marks, records, archive, passes>>

Allowed(scope, s) == marks[scope] # Len(s)
Projection == history \o request
raw == request_tokens(Projection)

HistoryPass ==
  /\ pc = "history" /\ Pass("history", history, "turn_pass")
  /\ UNCHANGED <<pending, manual, count>>

NeedsTurnPass == raw >= Budget /\ Allowed("turn", request)

TurnPass ==
  /\ pc = "turn_pass" /\ NeedsTurnPass /\ Pass("turn", request, "send")
  /\ UNCHANGED <<pending, manual, count>>

SkipTurnPass ==
  /\ pc = "turn_pass" /\ ~NeedsTurnPass /\ pc' = "send"
  /\ UNCHANGED <<history, turn, request, pending, manual, overdue, marks, records, archive, count, passes, last>>

\* prepare_request and prepare_messages: a follow-up makes the request carry a
\* copy; the manual flag is spent here.
Prepare ==
  /\ pc = "prepare"
  /\ \E claim \in IF pending THEN {TRUE} ELSE IF FollowUps /\ count < MaxMessages THEN BOOLEAN ELSE {FALSE} :
       /\ pending' = claim
       /\ count' = IF claim /\ ~pending THEN count + 1 ELSE count
       /\ request' = IF claim THEN Append(turn, [id |-> count', kind |-> "user", size |-> 1]) ELSE turn
  /\ manual' = FALSE
  /\ LET tokens == request_tokens(history \o request')
     IN pc' = IF tokens < Line /\ ~overdue /\ ~manual THEN "send"
              ELSE IF manual \/ Allowed("history", history) THEN "history" ELSE "turn_pass"
  /\ UNCHANGED <<history, turn, overdue, marks, records, archive, passes, last>>

------------------------------------------------------------------------------
(* The turn around it *)

New(kind, size) == [id |-> count + 1, kind |-> kind, size |-> size]

Start ==
  /\ pc = "idle" /\ count < MaxMessages
  /\ \E size \in Sizes : turn' = <<New("user", size)>>
  /\ count' = count + 1 /\ pc' = "prepare"
  /\ UNCHANGED <<history, request, pending, manual, overdue, marks, records, archive, passes, last>>

\* The provider accepts the request and calls tools; the batch may ask for a
\* compaction and is followed by an event of its own.
Calls ==
  /\ pc = "send" /\ count + 3 <= MaxMessages
  /\ \E size \in Sizes, results \in 1..2, asks \in BOOLEAN :
       /\ turn' = request \o <<New("call", 1)>>
                  \o [i \in 1..results |-> [id |-> count + 1 + i, kind |-> "result", size |-> size]]
       /\ records' = records \cup {count + 1 + i : i \in 1..results}
       /\ count' = count + 1 + results
       /\ manual' = asks
  /\ overdue' \in BOOLEAN
  /\ pending' = FALSE /\ pc' = "prepare"
  /\ UNCHANGED <<history, request, marks, archive, passes, last>>

\* An answer without calls that is not accepted as the end: a correction or a
\* stop hook's redirect follows it as a session event.
Corrected ==
  /\ pc = "send" /\ count + 2 <= MaxMessages
  /\ turn' = request \o <<New("text", 1), [id |-> count + 2, kind |-> "event", size |-> 1]>>
  /\ count' = count + 2
  /\ pending' = FALSE /\ pc' = "prepare"
  /\ UNCHANGED <<history, request, manual, overdue, marks, records, archive, passes, last>>

\* The user has the request sent again: it is prepared anew.
Resend ==
  /\ pc = "send" /\ pc' = "prepare"
  /\ UNCHANGED <<history, turn, request, pending, manual, overdue, marks, records, archive, count, passes, last>>

Finish(messages, n) ==
  /\ history' = history \o messages
  /\ turn' = <<>> /\ request' = <<>> /\ pending' = FALSE /\ pc' = "idle" /\ count' = count + n

Answer ==
  /\ pc = "send" /\ count < MaxMessages
  /\ Finish(Append(request, New("text", 1)), 1)
  /\ overdue' \in BOOLEAN
  /\ UNCHANGED <<manual, marks, records, archive, passes, last>>

\* A request that failed for good commits what was sent, follow-up included.
Fails ==
  /\ pc = "send" /\ Finish(request, 0)
  /\ UNCHANGED <<manual, overdue, marks, records, archive, passes, last>>

\* settle_interrupted_turn keeps the live turn and appends a marker, unless
\* nothing but the request has happened; the error path keeps it as it is.
Settle ==
  /\ pc = "settle"
  /\ IF last.outcome # "cancelled" THEN Finish(turn, 0)
     ELSE IF OfKind(turn, {"user"}) = DOMAIN turn THEN Finish(<<>>, 0)
     ELSE Finish(Append(turn, New("user", 1)), 1)
  /\ UNCHANGED <<manual, overdue, marks, records, archive, passes, last>>

\* /compact between two turns: no recent window but the ordinary one.
Compact ==
  /\ pc = "idle" /\ passes < MaxPasses /\ Parts("history", history, Recent).compacted # <<>>
  /\ \E outcome \in Summarized : Apply("history", history, Recent, outcome)
  /\ UNCHANGED <<pc, pending, manual, marks, count>>

------------------------------------------------------------------------------
Init ==
  /\ history = <<>> /\ turn = <<>> /\ request = <<>> /\ pc = "idle" /\ pending = FALSE
  /\ manual = FALSE /\ overdue = FALSE /\ marks = [history |-> MaxMessages + 2, turn |-> MaxMessages + 2]
  /\ records = {} /\ segments = <<>> /\ files = <<>> /\ index = {}
  /\ count = 0 /\ passes = 0 /\ last = NoPass

Next == \/ Start \/ Prepare \/ HistoryPass \/ TurnPass \/ SkipTurnPass \/ Calls \/ Corrected
        \/ Resend \/ Answer \/ Fails \/ Settle \/ Compact

Spec == Init /\ [][Next]_vars

------------------------------------------------------------------------------
(* Properties *)

\* Whatever is evicted, by whichever pass, the conversation a provider is sent
\* has every tool result right after its call or a sibling, and no call without
\* one: the cut never lands inside an exchange (compaction.py:523).
ExchangesAreWhole ==
  \A i \in DOMAIN Projection :
    /\ Projection[i].kind = "result" => i > 1 /\ Projection[i - 1].kind \in {"call", "result"}
    /\ Projection[i].kind = "call" => i < Len(Projection) /\ Projection[i + 1].kind = "result"

\* The request a turn is executing is never summarized away: after any pass the
\* latest user message of the list it rewrote is still there (compaction.py:485).
LatestRequestSurvives ==
  latest_user_index(last.scope) # 0 => last.scope[latest_user_index(last.scope)].id \notin last.evicted

\* The summarizer is shown everything its pass evicts and, beyond that, nothing
\* of the kept tail but the latest request: the inline slice and the split are
\* the same cut (compaction.py:446).
SummaryCoversTheSpan ==
  last.outcome \in {"summary", "trimmed", "cancelled"} =>
    /\ last.evicted \subseteq last.seen
    /\ last.seen \ last.evicted \subseteq
         {0} \cup (IF latest_user_index(last.scope) = 0 THEN {} ELSE {last.scope[latest_user_index(last.scope)].id})

\* A history.N.md names one span for good: retention, failed writes and
\* backfills never give a key to another one, and the index lists each once
\* (context.py:512, history.py:145).
FilesNameOneSpan ==
  \A a \in index : a[1] \in DOMAIN files /\ files[a[1]] = a[2]

\* A cancelled pass still trims: the turn that is settled no longer holds what
\* the pass evicted (compaction.py:105).
\* Not kept: with a follow-up claimed, the pass trims a copy of the turn
\* (engine.py:720-725).
CancelledTrimStands ==
  last.outcome = "cancelled" => last.evicted \cap Ids(history \o turn) = {}
==============================================================================
