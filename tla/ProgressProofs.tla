---------------------------- MODULE ProgressProofs ----------------------------
(***************************************************************************)
(* Theorems of what an agent sets going.                                   *)
(*                                                                         *)
(* Batches, for any batches, requests, capacities and number of            *)
(* cancellations: calls that change something run alone, nothing a batch   *)
(* started is left when run() is over, and what a batch tells of itself is *)
(* true: the messages it returns are its calls' in their order, a refusal  *)
(* stops the segments after it, and the receipt of an intercepted call     *)
(* never denies an effect that began nor claims one that did not.          *)
(* RunnerInv says where in its segment each call of a frame stands, and    *)
(* ties the script's thread, its request and the batch's script call       *)
(* together; ResultsInv adds what each status says of a call, of its       *)
(* receipt and of the messages.                                            *)
(*                                                                         *)
(* Commands, for any number of commands, bytes and jobs, any limit of a    *)
(* buffer and commands as deaf as they may be: what a job shows is an      *)
(* unbroken end of what its command wrote, a call that was not promoted    *)
(* leaves nothing, and a shutdown reaps every job.  JobInv says who holds  *)
(* a command's pipe, that the byte held back is the one the last read      *)
(* stopped in, that no two jobs share a command, and how far a shutdown    *)
(* has come.                                                               *)
(***************************************************************************)
EXTENDS MCProgress, SequenceTheorems, FiniteSetTheorems, WellFoundedInduction, TLAPS

Statuses == {"waiting", "queued", "asking", "wrapping", "recording", "recorded", "relaying"} \cup Live \cup Final

Ended(s) == s \in Final \/ s = "waiting"

Shape(w) ==
    /\ DOMAIN w = {"calls", "many", "at", "end", "parallel", "cancelled", "st", "ran", "declined", "core", "disk"}
    /\ w.calls \in Seq(Kinds) /\ w.at \in Nat /\ w.end \in Nat
    /\ w.parallel \in BOOLEAN /\ w.cancelled \in BOOLEAN /\ w.many \in BOOLEAN
    /\ w.st \in [DOMAIN w.calls -> Statuses]

\* Calls before the segment have ended, calls after it wait; in a serial one only the current call is
\* under way, in a parallel one all may overlap; a cancelled frame only has calls that are stopping.
Position(w) ==
    /\ 1 <= w.at /\ w.at <= w.end + 1 /\ w.end <= Len(w.calls)
    /\ \A i \in DOMAIN w.calls :
        /\ i < w.at => w.st[i] \in Final
        /\ i > w.end => w.st[i] = "waiting"
        /\ ~w.parallel /\ i > w.at => w.st[i] = "waiting"
        /\ w.parallel /\ w.at <= i /\ i <= w.end => ParallelSafe(w.calls[i])
        /\ w.cancelled => Ended(w.st[i]) \/ w.st[i] = "stopping"

FrameInv(w) == Shape(w) /\ Position(w)

Quiet(w) == \A i \in DOMAIN w.calls : Ended(w.st[i])

RunsScript(w) == \E i \in DOMAIN w.calls : w.calls[i] = "script" /\ w.st[i] = "running"

\* pc, the script's thread, its request and the frames agree.
Agreement ==
    /\ pc \in {"idle", "running", "closing", "winding", "joining", "returned", "cancelled"}
    /\ (script # "none") <=> RunsScript(work["batch"])
    /\ pc \in {"closing", "winding", "joining"} => script # "none"
    /\ request # "none" => script = "blocked"
    /\ answer # "none" => request = "none"
    /\ request # "serving" => Quiet(work["nested"])
    /\ pc \notin {"running", "closing", "winding", "joining"} => Quiet(work["batch"])
    /\ \A i \in DOMAIN work["nested"].calls : work["nested"].calls[i] # "script"

RunnerInv ==
    /\ DOMAIN work = Frames
    /\ FrameInv(work["batch"]) /\ FrameInv(work["nested"]) /\ Agreement

-----------------------------------------------------------------------------
(* Frames.                                                                 *)

LEMMA FreshFrame ==
  ASSUME NEW calls \in Seq(Kinds), NEW many \in BOOLEAN
  PROVE  FrameInv(Fresh(calls, many)) /\ Quiet(Fresh(calls, many))
<1> DEFINE w == Fresh(calls, many)
<1>1. w.calls = calls /\ w.many = many /\ w.at = 1 /\ w.end = 0 /\ w.parallel = FALSE /\ w.cancelled = FALSE
      /\ w.st = [i \in DOMAIN calls |-> "waiting"]
  BY DEF Fresh
<1>2. Shape(w)
  BY <1>1 DEF Fresh, Shape, Statuses
<1>3. DOMAIN calls = 1 .. Len(calls) /\ Len(calls) \in Nat
  OBVIOUS
<1>4. \A i \in DOMAIN w.calls : w.st[i] = "waiting"
  BY <1>1
<1> HIDE DEF w
<1>5. Position(w) /\ Quiet(w)
  BY <1>1, <1>3, <1>4 DEF Position, Quiet, Ended
<1> QED
  BY <1>2, <1>5 DEF FrameInv, w

\* The status of a call under way, or of the current call, may change.
LEMMA StatusChanges ==
  ASSUME NEW w, FrameInv(w), NEW v, Shape(v), NEW i \in DOMAIN w.calls, NEW s \in Statuses,
         ~Ended(w.st[i]) \/ (i = w.at /\ i <= w.end),
         w.cancelled => Ended(s) \/ s = "stopping",
         v.calls = w.calls, v.at = w.at, v.end = w.end, v.parallel = w.parallel, v.cancelled = w.cancelled,
         v.st = [w.st EXCEPT ![i] = s]
  PROVE  FrameInv(v)
<1>1. DOMAIN w.calls = 1 .. Len(w.calls) /\ w.at \in Nat /\ w.end \in Nat /\ i \in Nat
  BY DEF FrameInv, Shape
<1>2. w.at <= i /\ i <= w.end /\ (~w.parallel => i = w.at)
  BY <1>1 DEF FrameInv, Position, Ended
<1>3. \A k \in DOMAIN w.calls : k # i => v.st[k] = w.st[k]
  BY DEF FrameInv, Shape
<1>4. v.st[i] = s
  BY DEF FrameInv, Shape
<1>5. Position(v)
  <2> SUFFICES ASSUME NEW k \in DOMAIN w.calls
               PROVE  /\ k < w.at => v.st[k] \in Final
                      /\ k > w.end => v.st[k] = "waiting"
                      /\ ~w.parallel /\ k > w.at => v.st[k] = "waiting"
                      /\ w.parallel /\ w.at <= k /\ k <= w.end => ParallelSafe(w.calls[k])
                      /\ w.cancelled => Ended(v.st[k]) \/ v.st[k] = "stopping"
    BY DEF FrameInv, Position
  <2>1. CASE k = i
    BY <1>1, <1>2, <1>4, <2>1 DEF FrameInv, Position
  <2>2. CASE k # i
    BY <1>3, <2>2 DEF FrameInv, Position
  <2> QED
    BY <2>1, <2>2
<1> QED
  BY <1>5 DEF FrameInv

LEMMA LiveIsNotEnded == \A s \in Live : ~Ended(s)
  BY DEF Live, Ended, Final

LEMMA StopKeepsFrame ==
  ASSUME NEW w, FrameInv(w)
  PROVE  /\ FrameInv(Stop(w)) /\ Stop(w).calls = w.calls /\ Stop(w).at = w.at /\ Stop(w).end = w.end
         /\ Stop(w).cancelled /\ ~RunsScript(Stop(w))
         /\ \A i \in DOMAIN w.calls : Ended(w.st[i]) => Stop(w).st[i] = w.st[i]
         /\ Quiet(w) => Quiet(Stop(w))
<1> DEFINE v == Stop(w)
           ends == {"asking", "queued", "wrapping", "recording", "recorded", "relaying"}
<1>1. v.calls = w.calls /\ v.many = w.many /\ v.at = w.at /\ v.end = w.end /\ v.parallel = w.parallel /\ v.cancelled = TRUE
      /\ v.st = [i \in DOMAIN w.st |-> IF w.st[i] \in ends THEN "cancelled"
                                       ELSE IF w.st[i] \in {"running", "breaking"} THEN "stopping" ELSE w.st[i]]
  BY DEF FrameInv, Shape, Stop
<1>2. DOMAIN v = DOMAIN w
  BY DEF Stop
<1> HIDE DEF v
<1>3. \A i \in DOMAIN w.calls :
        /\ v.st[i] \in Statuses
        /\ Ended(w.st[i]) => v.st[i] = w.st[i]
        /\ Ended(v.st[i]) \/ v.st[i] = "stopping"
  BY <1>1 DEF FrameInv, Shape, Statuses, Live, Final, Ended
<1>4. Shape(v)
  BY ZenonT(60), <1>1, <1>2, <1>3 DEF FrameInv, Shape
<1>5. Position(v)
  BY <1>1, <1>3 DEF FrameInv, Position, Ended
<1>6. (Quiet(w) => Quiet(v)) /\ ~RunsScript(v)
  BY <1>1, <1>3 DEF Quiet, RunsScript, Ended, Final
<1> QED
  BY <1>1, <1>3, <1>4, <1>5, <1>6 DEF FrameInv, v

\* Only calls that may overlap are under way together.
LEMMA LiveTogether ==
  ASSUME NEW w, FrameInv(w), NEW i \in DOMAIN w.calls, NEW j \in DOMAIN w.calls, i # j,
         w.st[i] \in Live, w.st[j] \in Live
  PROVE  ParallelSafe(w.calls[i])
<1>1. ~Ended(w.st[i]) /\ ~Ended(w.st[j])
  BY LiveIsNotEnded
<1>2. DOMAIN w.calls = 1 .. Len(w.calls) /\ w.at \in Nat /\ w.end \in Nat
  BY DEF FrameInv, Shape
<1>3. w.at <= i /\ i <= w.end /\ w.at <= j /\ j <= w.end /\ (~w.parallel => i = w.at /\ j = w.at)
  BY <1>1, <1>2 DEF FrameInv, Position, Ended
<1> QED
  BY <1>3 DEF FrameInv, Position, Shape

LEMMA OneScriptRuns ==
  ASSUME NEW w, FrameInv(w), NEW i \in DOMAIN w.calls, w.calls[i] = "script", w.st[i] = "running"
  PROVE  i = w.at /\ \A j \in DOMAIN w.calls : j # i => w.st[j] \notin Live
<1>1. "running" \in Live /\ ~ParallelSafe("script")
  BY DEF Live, ParallelSafe
<1>2. \A j \in DOMAIN w.calls : j # i => w.st[j] \notin Live
  BY <1>1, LiveTogether
<1>3. ~Ended(w.st[i])
  BY <1>1, LiveIsNotEnded
<1>4. DOMAIN w.calls = 1 .. Len(w.calls) /\ w.at \in Nat /\ w.end \in Nat
  BY DEF FrameInv, Shape
<1>5. i = w.at
  BY <1>1, <1>3, <1>4 DEF FrameInv, Position, Ended, Shape
<1> QED
  BY <1>2, <1>5

LEMMA PublishedIsQuiet == ASSUME NEW w, FrameInv(w), w.at = Len(w.calls) + 1 PROVE Quiet(w)
<1>1. DOMAIN w.calls = 1 .. Len(w.calls) /\ Len(w.calls) \in Nat
  BY DEF FrameInv, Shape
<1> QED
  BY <1>1 DEF FrameInv, Position, Quiet, Ended

LEMMA StoppedIsQuiet ==
  ASSUME NEW w, FrameInv(w), w.cancelled, \A i \in DOMAIN w.calls : w.st[i] # "stopping"
  PROVE  Quiet(w) /\ ~RunsScript(w)
  BY DEF FrameInv, Position, Quiet, Ended, RunsScript, Final

LEMMA QuietRunsNoScript == ASSUME NEW w, Quiet(w) PROVE ~RunsScript(w)
  BY DEF Quiet, RunsScript, Ended, Final

-----------------------------------------------------------------------------
(* Steps of one frame.                                                     *)

Busy(f) == IF f = "batch" THEN pc \in {"running", "closing", "winding", "joining"} ELSE request = "serving"

Others(f) == DOMAIN work' = Frames /\ \A g \in Frames : g # f => work'[g] = work[g]

LEMMA FrameMoves ==
  ASSUME RunnerInv, NEW f \in Frames, Busy(f), Others(f),
         FrameInv(work'[f]), work'[f].calls = work[f].calls,
         RunsScript(work'["batch"]) <=> RunsScript(work["batch"]),
         UNCHANGED <<pc, script, request, answer>>
  PROVE  RunnerInv'
<1>1. FrameInv(work'["batch"]) /\ FrameInv(work'["nested"])
  BY DEF RunnerInv, Others, Frames
<1>2. work'["nested"].calls = work["nested"].calls
  BY DEF Others, Frames
<1>3. request # "serving" => Quiet(work'["nested"])
  BY DEF RunnerInv, Agreement, Others, Frames, Busy
<1>4. pc \notin {"running", "closing", "winding", "joining"} => Quiet(work'["batch"])
  BY DEF RunnerInv, Agreement, Others, Frames, Busy
<1>5. Agreement'
  BY <1>2, <1>3, <1>4 DEF RunnerInv, Agreement
<1> QED
  BY <1>1, <1>5 DEF RunnerInv, Others

\* Call i of a frame changes its status to s.
SameButStatus(w, v, i, s) ==
    /\ DOMAIN v = DOMAIN w /\ v.calls = w.calls /\ v.many = w.many /\ v.at = w.at /\ v.end = w.end
    /\ v.parallel = w.parallel /\ v.cancelled = w.cancelled
    /\ v.st = [w.st EXCEPT ![i] = s]

LEMMA StatusKeepsFrame ==
  ASSUME NEW w, FrameInv(w), NEW v, NEW i \in DOMAIN w.calls, NEW s \in Statuses, SameButStatus(w, v, i, s),
         ~Ended(w.st[i]) \/ (i = w.at /\ i <= w.end),
         w.cancelled => Ended(s) \/ s = "stopping"
  PROVE  FrameInv(v)
<1>1. Shape(v)
  BY DEF FrameInv, Shape, SameButStatus
<1> QED
  BY <1>1, StatusChanges DEF SameButStatus

LEMMA StatusKeepsScripts ==
  ASSUME NEW w, FrameInv(w), NEW v, NEW i \in DOMAIN w.calls, NEW s \in Statuses, SameButStatus(w, v, i, s),
         w.calls[i] # "script" \/ (w.st[i] # "running" /\ s # "running")
  PROVE  RunsScript(v) <=> RunsScript(w)
<1>1. \A k \in DOMAIN w.calls : k # i => v.st[k] = w.st[k]
  BY DEF FrameInv, Shape, SameButStatus
<1>2. v.st[i] = s /\ v.calls = w.calls
  BY DEF FrameInv, Shape, SameButStatus
<1> QED
  BY <1>1, <1>2 DEF RunsScript

LEMMA CallMoves ==
  ASSUME RunnerInv, NEW f \in Frames, Busy(f), Others(f), NEW i \in DOMAIN work[f].calls, NEW s \in Statuses,
         SameButStatus(work[f], work'[f], i, s),
         ~Ended(work[f].st[i]) \/ (i = work[f].at /\ i <= work[f].end),
         work[f].cancelled => Ended(s) \/ s = "stopping",
         work[f].calls[i] # "script" \/ (work[f].st[i] # "running" /\ s # "running"),
         UNCHANGED <<pc, script, request, answer>>
  PROVE  RunnerInv'
<1>1. FrameInv(work[f])
  BY DEF RunnerInv, Frames
<1>2. FrameInv(work'[f])
  BY <1>1, StatusKeepsFrame
<1>3. RunsScript(work'[f]) <=> RunsScript(work[f])
  BY <1>1, StatusKeepsScripts
<1>4. RunsScript(work'["batch"]) <=> RunsScript(work["batch"])
  BY <1>3 DEF Others, Frames
<1> QED
  BY <1>2, <1>4, FrameMoves DEF SameButStatus

LEMMA ActiveIsBusy == \A f \in Frames : Active(f) => Busy(f) /\ ~work[f].cancelled
  BY DEF Active, Busy, Frames

LEMMA SetMoves ==
  ASSUME RunnerInv, NEW f \in Frames, NEW i \in DOMAIN work[f].calls, NEW s, Set(f, i, s)
  PROVE  Others(f) /\ SameButStatus(work[f], work'[f], i, s)
  BY SMTT(40) DEF RunnerInv, FrameInv, Shape, Set, Others, SameButStatus, Frames

LEMMA MarkMoves ==
  ASSUME RunnerInv, NEW f \in Frames, NEW i \in DOMAIN work[f].calls, NEW s, NEW c, NEW d, NEW b,
         \/ work' = [work EXCEPT ![f].st[i] = s, ![f].core[i] = c]
         \/ work' = [work EXCEPT ![f].st[i] = s, ![f].disk[i] = d]
         \/ work' = [work EXCEPT ![f].st[i] = s, ![f].ran[i] = b]
         \/ work' = [work EXCEPT ![f].st[i] = s, ![f].core[i] = c, ![f].disk[i] = d]
         \/ work' = [work EXCEPT ![f].declined[i] = b, ![f].st[i] = s, ![f].core[i] = c]
  PROVE  Others(f) /\ SameButStatus(work[f], work'[f], i, s)
<1>1. CASE work' = [work EXCEPT ![f].st[i] = s, ![f].core[i] = c]
  BY <1>1 DEF RunnerInv, FrameInv, Shape, Others, SameButStatus, Frames
<1>2. CASE work' = [work EXCEPT ![f].st[i] = s, ![f].disk[i] = d]
  BY <1>2 DEF RunnerInv, FrameInv, Shape, Others, SameButStatus, Frames
<1>3. CASE work' = [work EXCEPT ![f].st[i] = s, ![f].ran[i] = b]
  BY <1>3 DEF RunnerInv, FrameInv, Shape, Others, SameButStatus, Frames
<1>4. CASE work' = [work EXCEPT ![f].st[i] = s, ![f].core[i] = c, ![f].disk[i] = d]
  BY ZenonT(60), <1>4 DEF RunnerInv, FrameInv, Shape, Others, SameButStatus, Frames
<1>5. CASE work' = [work EXCEPT ![f].declined[i] = b, ![f].st[i] = s, ![f].core[i] = c]
  BY ZenonT(60), <1>5 DEF RunnerInv, FrameInv, Shape, Others, SameButStatus, Frames
<1> QED
  BY <1>1, <1>2, <1>3, <1>4, <1>5

LEMMA ApproveKeepsInv ==
  ASSUME RunnerInv, NEW f \in Frames, NEW i \in Indices(f), Approve(f, i) \/ Decline(f, i)
  PROVE  RunnerInv'
<1>1. PICK s \in {"queued", "recorded", "refused"} : Others(f) /\ SameButStatus(work[f], work'[f], i, s)
  <2>1. CASE Approve(f, i)
    BY SMTT(40), <2>1, SetMoves DEF Approve, Indices
  <2>2. CASE Decline(f, i)
    <3> DEFINE s == IF Kind(f, i) = "wrapped" THEN "recorded" ELSE "refused"
               c == IF work[f].core[i] = "started" THEN "not_run" ELSE work[f].core[i]
    <3>1. work' = [work EXCEPT ![f].declined[i] = TRUE, ![f].st[i] = s, ![f].core[i] = c]
      BY <2>2 DEF Decline
    <3>2. s \in {"recorded", "refused"}
      OBVIOUS
    <3> HIDE DEF s, c
    <3> QED
      BY <3>1, <3>2, MarkMoves DEF Indices
  <2> QED
    BY <2>1, <2>2
<1>2. Active(f) /\ work[f].st[i] = "asking" /\ UNCHANGED <<pc, script, request, answer>>
  BY DEF Approve, Decline, Status, Elsewhere, BatchVars, ScriptVars
<1>3. s \in Statuses /\ s # "running" /\ ~Ended("asking")
  BY DEF Statuses, Final, Ended
<1> QED
  BY <1>1, <1>2, <1>3, CallMoves, ActiveIsBusy DEF Indices

LEMMA StartKeepsInv ==
  ASSUME RunnerInv, NEW f \in Frames, Start(f)
  PROVE  RunnerInv'
<1> DEFINE i == work[f].at
<1>1. Active(f) /\ i <= work[f].end /\ work[f].st[i] = "waiting" /\ UNCHANGED <<pc, script, request, answer>>
  BY DEF Start, Status, Elsewhere, BatchVars, ScriptVars
<1>2. i \in DOMAIN work[f].calls
  BY SMTT(40), <1>1 DEF RunnerInv, FrameInv, Shape, Position, Frames
<1>3. PICK s \in {"wrapping", "failed", "queued", "asking"} : Others(f) /\ SameButStatus(work[f], work'[f], i, s)
  <2>1. CASE Kind(f, i) = "wrapped"
    <3>1. work' = [work EXCEPT ![f].st[i] = "wrapping", ![f].core[i] = "not_run"]
      BY <2>1 DEF Start
    <3> HIDE DEF i
    <3> QED
      BY <1>2, <3>1, MarkMoves
  <2>2. CASE Kind(f, i) # "wrapped"
    <3>1. PICK s \in Admissions(Kind(f, i)) : Set(f, i, s)
      BY <2>2 DEF Start
    <3>2. s \in {"failed", "queued", "asking"}
      BY <3>1 DEF Admissions
    <3> QED
      BY <1>2, <3>1, <3>2, SetMoves
  <2> QED
    BY <2>1, <2>2
<1>4. s \in Statuses /\ s # "running"
  BY DEF Statuses, Final
<1> HIDE DEF i
<1> QED
  BY <1>1, <1>2, <1>3, <1>4, CallMoves, ActiveIsBusy DEF i

\* The steps of an intercepted call.
LEMMA WrappedKeepsInv ==
  ASSUME RunnerInv, NEW f \in Frames, NEW i \in Indices(f),
         \/ AnswerInstead(f, i) \/ CallNext(f, i) \/ AdmitRecorded(f, i)
         \/ HandlerBreaks(f, i) \/ Relay(f, i) \/ Settle(f, i)
  PROVE  RunnerInv'
<1> DEFINE Next6 == {"ok", "failed", "recording", "recorded", "queued", "asking", "breaking", "relaying", "refused"}
<1>1. /\ Active(f) /\ work[f].calls[i] = "wrapped" /\ UNCHANGED <<pc, script, request, answer>>
      /\ work[f].st[i] \in {"wrapping", "recording", "asking", "queued", "running", "recorded", "relaying"}
  BY DEF AnswerInstead, CallNext, AdmitRecorded, HandlerBreaks, Relay, Settle, Wrapped, Status, Kind,
         Elsewhere, BatchVars, ScriptVars
<1>2. PICK s \in Next6 : Others(f) /\ SameButStatus(work[f], work'[f], i, s)
  <2>1. CASE AnswerInstead(f, i)
    <3>1. PICK s \in {"ok", "failed"} : work' = [work EXCEPT ![f].st[i] = s, ![f].disk[i] = "not_run"]
      BY <2>1 DEF AnswerInstead
    <3> QED
      BY <3>1, MarkMoves DEF Indices
  <2>2. CASE CallNext(f, i)
    BY ZenonT(60), <2>2, MarkMoves DEF CallNext, Indices
  <2>3. CASE AdmitRecorded(f, i)
    <3>1. PICK a \in Admissions("write") :
             work' = [work EXCEPT ![f].st[i] = IF a = "failed" THEN "recorded" ELSE a,
                                  ![f].core[i] = IF a = "failed" THEN "not_run" ELSE @,
                                  ![f].disk[i] = "started"]
      BY <2>3 DEF AdmitRecorded
    <3> DEFINE s == IF a = "failed" THEN "recorded" ELSE a
               c == IF a = "failed" THEN "not_run" ELSE work[f].core[i]
    <3>2. work' = [work EXCEPT ![f].st[i] = s, ![f].core[i] = c, ![f].disk[i] = "started"]
      BY <3>1
    <3>3. s \in {"recorded", "queued", "asking"}
      BY SMTT(40) DEF Admissions
    <3> HIDE DEF s, c
    <3> QED
      BY ZenonT(60), <3>2, <3>3, MarkMoves DEF Indices
  <2>4. CASE HandlerBreaks(f, i)
    <3> DEFINE c == IF Status(f, i) \in {"asking", "queued"} THEN "not_run" ELSE "started"
               s == IF Status(f, i) = "running" THEN "breaking" ELSE "failed"
    <3>1. work' = [work EXCEPT ![f].st[i] = s, ![f].core[i] = c, ![f].disk[i] = c]
      BY <2>4 DEF HandlerBreaks
    <3>2. s \in {"breaking", "failed"}
      BY SMTT(40)
    <3> HIDE DEF s, c
    <3> QED
      BY <3>1, <3>2, MarkMoves DEF Indices
  <2>5. CASE Relay(f, i)
    BY <2>5, MarkMoves DEF Relay, Indices
  <2>6. CASE Settle(f, i)
    <3>1. PICK s \in {"ok", "refused", "failed"} : Set(f, i, s)
      BY <2>6 DEF Settle
    <3> QED
      BY <3>1, SetMoves DEF Indices
  <2> QED
    BY SMTT(40), <2>1, <2>2, <2>3, <2>4, <2>5, <2>6
<1>3. s \in Statuses /\ s # "running" /\ ~Ended(work[f].st[i]) /\ work[f].calls[i] # "script"
  BY <1>1 DEF Statuses, Live, Final, Ended
<1> HIDE DEF Next6
<1> QED
  BY SMTT(40), <1>1, <1>2, <1>3, CallMoves, ActiveIsBusy DEF Indices

LEMMA StoppedKeepsInv ==
  ASSUME RunnerInv, NEW f \in Frames, NEW i \in Indices(f), Stopped(f, i)
  PROVE  RunnerInv'
<1> DEFINE s == IF work[f].st[i] = "breaking" THEN "failed" ELSE "cancelled"
           c == IF work[f].core[i] = "started" THEN "interrupted" ELSE work[f].core[i]
           d == IF work[f].disk[i] = "started" THEN "interrupted" ELSE work[f].disk[i]
<1>1. work' = [work EXCEPT ![f].st[i] = s, ![f].core[i] = c, ![f].disk[i] = d]
  BY DEF Stopped
<1>2. s \in Statuses /\ s # "running" /\ Ended(s)
  BY DEF Statuses, Final, Ended
<1>3. work[f].st[i] \in {"stopping", "breaking"} /\ UNCHANGED <<pc, script, request, answer>>
  BY DEF Stopped, Status, Elsewhere, BatchVars, ScriptVars
<1>4. ~Ended(work[f].st[i]) /\ work[f].st[i] # "running"
  BY <1>3 DEF Ended, Final
<1>5. Busy(f)
  BY SMTT(40), <1>4 DEF RunnerInv, Agreement, Quiet, Busy, Frames, Indices
<1> HIDE DEF s, c, d
<1>6. Others(f) /\ SameButStatus(work[f], work'[f], i, s)
  BY <1>1, MarkMoves DEF Indices
<1> QED
  BY <1>2, <1>3, <1>4, <1>5, <1>6, CallMoves DEF Indices

\* A call that may not overlap is under way alone, and it is the current one.
LEMMA BarrierIsAlone ==
  ASSUME NEW w, FrameInv(w), NEW i \in DOMAIN w.calls, ~ParallelSafe(w.calls[i]), ~Ended(w.st[i])
  PROVE  i = w.at /\ \A j \in DOMAIN w.calls : j # i => Ended(w.st[j])
<1>1. DOMAIN w.calls = 1 .. Len(w.calls) /\ w.at \in Nat /\ w.end \in Nat
  BY DEF FrameInv, Shape
<1>2. w.at <= i /\ i <= w.end /\ ~w.parallel /\ i = w.at
  BY <1>1 DEF FrameInv, Position, Ended, Shape
<1>3. ASSUME NEW j \in DOMAIN w.calls, j # i PROVE Ended(w.st[j])
  BY <1>1, <1>2, <1>3 DEF FrameInv, Position, Ended
<1> QED
  BY <1>2, <1>3

\* A script is a call of the batch, under way alone.
LEMMA ScriptIsAlone ==
  ASSUME RunnerInv, NEW f \in Frames, NEW i \in DOMAIN work[f].calls,
         work[f].calls[i] = "script", ~Ended(work[f].st[i])
  PROVE  f = "batch" /\ \A j \in DOMAIN work[f].calls : j # i => Ended(work[f].st[j])
<1>1. f = "batch" /\ FrameInv(work[f])
  BY DEF RunnerInv, Agreement, Frames
<1> QED
  BY <1>1, BarrierIsAlone DEF ParallelSafe

LEMMA ExecuteKeepsInv ==
  ASSUME RunnerInv, NEW f \in Frames, NEW i \in Indices(f), Execute(f, i)
  PROVE  RunnerInv'
<1>1. Others(f) /\ SameButStatus(work[f], work'[f], i, "running")
  BY MarkMoves DEF Execute, Indices
<1>2. Active(f) /\ work[f].st[i] = "queued" /\ UNCHANGED <<pc, request, answer>>
  BY DEF Execute, Status, BatchVars
<1>3. "running" \in Statuses /\ ~Ended("queued")
  BY DEF Statuses, Live, Ended, Final
<1>4. FrameInv(work[f])
  BY DEF RunnerInv, Frames
<1>5. CASE work[f].calls[i] # "script"
  BY <1>1, <1>2, <1>3, <1>5, CallMoves, ActiveIsBusy DEF Indices, Execute, Kind
<1>6. CASE work[f].calls[i] = "script"
  <2>1. f = "batch" /\ \A j \in DOMAIN work[f].calls : j # i => Ended(work[f].st[j])
    BY <1>2, <1>3, <1>6, ScriptIsAlone DEF Indices
  <2>2. ~RunsScript(work["batch"])
    BY <2>1, <1>2 DEF RunsScript, Ended, Final
  <2>3. script = "none" /\ request = "none" /\ pc = "running" /\ script' = "computing"
    BY <1>2, <1>6, <2>1, <2>2 DEF RunnerInv, Agreement, Active, Execute, Kind
  <2>4. FrameInv(work'["batch"])
    BY <1>1, <1>2, <1>3, <1>4, <2>1, StatusKeepsFrame, ActiveIsBusy DEF Indices
  <2>5. work'["nested"] = work["nested"] /\ DOMAIN work' = Frames
    BY <1>1, <2>1 DEF Others, Frames
  <2>6. RunsScript(work'["batch"])
    BY <1>1, <1>4, <1>6, <2>1 DEF RunsScript, SameButStatus, FrameInv, Shape, Indices
  <2> QED
    BY <1>2, <2>3, <2>4, <2>5, <2>6 DEF RunnerInv, Agreement
<1> QED
  BY SMTT(40), <1>5, <1>6

LEMMA EndKeepsInv ==
  ASSUME RunnerInv, NEW f \in Frames, NEW i \in Indices(f), End(f, i)
  PROVE  RunnerInv'
<1>1. PICK s \in {"recorded", "ok", "failed"} : Others(f) /\ SameButStatus(work[f], work'[f], i, s)
  <2>1. CASE Kind(f, i) = "wrapped"
    <3>1. work' = [work EXCEPT ![f].st[i] = "recorded", ![f].core[i] = "completed"]
      BY <2>1 DEF End
    <3> QED
      BY <3>1, MarkMoves DEF Indices
  <2>2. CASE Kind(f, i) # "wrapped"
    <3>1. PICK s \in {"ok", "failed"} : Set(f, i, s)
      BY <2>2 DEF End
    <3> QED
      BY <3>1, SetMoves DEF Indices
  <2> QED
    BY SMTT(40), <2>1, <2>2
<1>2. Active(f) /\ work[f].st[i] = "running" /\ UNCHANGED <<pc, request, answer>>
  BY DEF End, Status, BatchVars
<1>3. s \in Statuses /\ s # "running" /\ ~Ended("running")
  BY DEF Statuses, Final, Ended
<1>4. FrameInv(work[f])
  BY DEF RunnerInv, Frames
<1>5. CASE work[f].calls[i] # "script"
  BY <1>1, <1>2, <1>3, <1>5, CallMoves, ActiveIsBusy DEF Indices, End, Kind
<1>6. CASE work[f].calls[i] = "script"
  <2>1. f = "batch" /\ \A j \in DOMAIN work[f].calls : j # i => Ended(work[f].st[j])
    BY <1>2, <1>3, <1>6, ScriptIsAlone DEF Indices
  <2>2. script = "ended" /\ request = "none" /\ pc = "running" /\ script' = "none"
    BY <1>2, <1>6, <2>1 DEF RunnerInv, Agreement, Active, End, Kind
  <2>3. FrameInv(work'["batch"])
    BY <1>1, <1>2, <1>3, <1>4, <2>1, StatusKeepsFrame, ActiveIsBusy DEF Indices
  <2>4. work'["nested"] = work["nested"] /\ DOMAIN work' = Frames
    BY <1>1, <2>1 DEF Others, Frames
  <2>5. ASSUME NEW j \in DOMAIN work'["batch"].calls PROVE work'["batch"].st[j] # "running"
    <3>1. CASE j = i
      BY <1>1, <1>3, <1>4, <2>1, <3>1 DEF SameButStatus, FrameInv, Shape
    <3>2. CASE j # i
      <4>1. work'["batch"].st[j] = work["batch"].st[j] /\ j \in DOMAIN work["batch"].calls
        BY <1>1, <1>4, <2>1, <2>5, <3>2 DEF SameButStatus, FrameInv, Shape
      <4> QED
        BY <1>3, <2>1, <3>2, <4>1
    <3> QED
      BY <3>1, <3>2
  <2>6. ~RunsScript(work'["batch"])
    BY <2>5 DEF RunsScript
  <2> QED
    BY <1>2, <2>2, <2>3, <2>4, <2>6 DEF RunnerInv, Agreement
<1> QED
  BY <1>5, <1>6

-----------------------------------------------------------------------------
(* Segments.                                                               *)

LEMMA PublishKeepsInv ==
  ASSUME RunnerInv, NEW f \in Frames, Publish(f)
  PROVE  RunnerInv'
<1> DEFINE w == work[f]
           v == work'[f]
           last == IF w.parallel THEN w.end ELSE w.at
<1>1. /\ Active(f) /\ w.at <= w.end /\ UNCHANGED <<pc, script, request, answer>>
      /\ \A k \in w.at .. last : w.st[k] \in Final
      /\ work' = [work EXCEPT ![f].at = last + 1]
  BY DEF Publish, Status, ScriptVars
<1>2. FrameInv(w) /\ DOMAIN work = Frames
  BY DEF RunnerInv, Frames
<1>3. DOMAIN w.calls = 1 .. Len(w.calls) /\ Len(w.calls) \in Nat /\ w.at \in Nat /\ w.end \in Nat /\ last \in Nat
  BY <1>2 DEF FrameInv, Shape
<1>4. w.at <= last /\ last <= w.end
  BY <1>1, <1>3
<1> HIDE DEF last
<1>5. /\ DOMAIN v = DOMAIN w /\ v.at = last + 1 /\ v.calls = w.calls /\ v.many = w.many /\ v.end = w.end
      /\ v.parallel = w.parallel /\ v.cancelled = w.cancelled /\ v.st = w.st
  BY <1>1, <1>2 DEF FrameInv, Shape
<1>6. Others(f)
  BY <1>1, <1>2 DEF Others
<1> HIDE DEF w, v
<1>7. Shape(v)
  BY <1>2, <1>3, <1>5 DEF FrameInv, Shape
<1>8. Position(v)
  <2> SUFFICES ASSUME NEW k \in DOMAIN v.calls
               PROVE  /\ k < v.at => v.st[k] \in Final
                      /\ k > v.end => v.st[k] = "waiting"
                      /\ ~v.parallel /\ k > v.at => v.st[k] = "waiting"
                      /\ v.parallel /\ v.at <= k /\ k <= v.end => ParallelSafe(v.calls[k])
                      /\ v.cancelled => Ended(v.st[k]) \/ v.st[k] = "stopping"
    BY <1>2, <1>3, <1>4, <1>5 DEF FrameInv, Position
  <2>1. k \in Nat /\ k \in DOMAIN w.calls
    BY <1>3, <1>5
  <2>2. k < w.at \/ k \in w.at .. last \/ k > last
    BY <1>3, <2>1
  <2> QED
    BY <1>1, <1>2, <1>3, <1>4, <1>5, <2>1, <2>2 DEF FrameInv, Position, w
<1>9. RunsScript(work'["batch"]) <=> RunsScript(work["batch"])
  BY <1>5, <1>6 DEF RunsScript, Others, Frames, w, v
<1> QED
  BY <1>1, <1>5, <1>6, <1>7, <1>8, <1>9, FrameMoves, ActiveIsBusy DEF FrameInv, w, v

\* _run_batch: a call that is skipped or echoed is answered where it stands.
LEMMA SkipKeepsInv ==
  ASSUME RunnerInv, Skip \/ Echo
  PROVE  RunnerInv'
<1> DEFINE w == work["batch"]
           v == work'["batch"]
           i == w.at
<1>1. PICK s \in {"skipped", "ok"} :
         work' = [work EXCEPT !["batch"].st[i] = s, !["batch"].at = i + 1, !["batch"].end = w.end + 1]
  BY DEF Skip, Echo
<1>2. /\ AtSegment("batch") /\ UNCHANGED <<pc, script, request, answer>>
      /\ i = w.end + 1 /\ i \in DOMAIN w.calls /\ ~w.cancelled /\ Busy("batch")
  BY ActiveIsBusy DEF Skip, Echo, AtSegment, ScriptVars, Indices, Frames
<1>3. FrameInv(w) /\ DOMAIN work = Frames
  BY DEF RunnerInv
<1>4. DOMAIN w.calls = 1 .. Len(w.calls) /\ Len(w.calls) \in Nat /\ w.at \in Nat /\ w.end \in Nat
  BY <1>3 DEF FrameInv, Shape
<1>5. s \in Statuses /\ s \in Final /\ s # "running" /\ w.st[i] # "running"
  BY <1>2, <1>3, <1>4 DEF Statuses, Final, FrameInv, Position
<1>6. /\ DOMAIN v = DOMAIN w /\ v.at = i + 1 /\ v.end = i /\ v.calls = w.calls /\ v.many = w.many
      /\ v.parallel = w.parallel /\ v.cancelled = w.cancelled /\ v.st = [w.st EXCEPT ![i] = s]
  BY <1>1, <1>2, <1>3 DEF FrameInv, Shape, Frames
<1>7. Others("batch")
  BY <1>1, <1>3 DEF Others, Frames
<1>8. Shape(v)
  <2> HIDE DEF v
  <2>1. v.st \in [DOMAIN w.calls -> Statuses]
    BY <1>3, <1>5, <1>6 DEF FrameInv, Shape
  <2>2. v.at \in Nat /\ v.end \in Nat
    BY <1>4, <1>6
  <2> HIDE DEF w, i
  <2> QED
    BY <1>3, <1>6, <2>1, <2>2 DEF FrameInv, Shape
<1>9. /\ v.st[i] = s
      /\ \A k \in DOMAIN w.calls : k # i => v.st[k] = w.st[k]
  BY <1>2, <1>3, <1>6 DEF FrameInv, Shape
<1>10. Position(v)
  <2> SUFFICES ASSUME NEW k \in DOMAIN w.calls
               PROVE  /\ k < v.at => v.st[k] \in Final
                      /\ k > v.end => v.st[k] = "waiting"
                      /\ ~v.parallel /\ k > v.at => v.st[k] = "waiting"
                      /\ v.parallel /\ v.at <= k /\ k <= v.end => ParallelSafe(v.calls[k])
                      /\ v.cancelled => Ended(v.st[k]) \/ v.st[k] = "stopping"
    <3>1. 1 <= v.at /\ v.at <= v.end + 1 /\ v.end <= Len(v.calls)
      BY <1>2, <1>4, <1>6
    <3> HIDE DEF w, v, i
    <3> QED
      BY <1>6, <3>1 DEF Position
  <2>1. CASE k = i
    BY <1>2, <1>4, <1>5, <1>6, <1>9, <2>1
  <2>2. CASE k # i
    BY <1>2, <1>3, <1>4, <1>6, <1>9, <2>2 DEF FrameInv, Position
  <2> QED
    BY <2>1, <2>2
<1>11. RunsScript(v) <=> RunsScript(w)
  BY <1>5, <1>6, <1>9 DEF RunsScript
<1> QED
  BY <1>2, <1>6, <1>7, <1>8, <1>10, <1>11, FrameMoves DEF FrameInv, Frames

\* At the border of two segments nothing is under way.
LEMMA BorderIsQuiet == ASSUME NEW w, FrameInv(w), w.at = w.end + 1 PROVE Quiet(w)
<1>1. DOMAIN w.calls = 1 .. Len(w.calls) /\ w.at \in Nat /\ w.end \in Nat
  BY DEF FrameInv, Shape
<1> QED
  BY <1>1 DEF FrameInv, Position, Quiet, Ended

\* The new segment starts at the current call and ends at a call; a parallel one has only calls
\* that may overlap, and queues them.
LEMMA SegmentKeepsFrame ==
  ASSUME NEW w, FrameInv(w), w.at = w.end + 1, ~w.cancelled, NEW v, NEW end \in w.at .. Len(w.calls),
         DOMAIN v = DOMAIN w, v.calls = w.calls, v.many = w.many, v.at = w.at, v.end = end, v.cancelled = w.cancelled,
         \/ v.parallel = FALSE /\ v.st = w.st
         \/ /\ v.parallel = TRUE /\ \A k \in w.at .. end : ParallelSafe(w.calls[k])
            /\ v.st = [i \in DOMAIN w.calls |-> IF i \in w.at .. end THEN "queued" ELSE w.st[i]]
  PROVE  FrameInv(v) /\ ~RunsScript(v)
<1>1. DOMAIN w.calls = 1 .. Len(w.calls) /\ Len(w.calls) \in Nat /\ w.at \in Nat /\ w.end \in Nat /\ end \in Nat
      /\ w.at <= end /\ end <= Len(w.calls) /\ 1 <= w.at
  BY DEF FrameInv, Shape, Position
<1>2. Shape(v)
  <2>1. "queued" \in Statuses
    BY DEF Statuses
  <2>2. v.st \in [DOMAIN w.calls -> Statuses]
    BY <2>1 DEF FrameInv, Shape
  <2>3. v.parallel \in BOOLEAN
    OBVIOUS
  <2> QED
    BY <1>1, <2>2, <2>3 DEF FrameInv, Shape
<1>3. Position(v)
  BY SMTT(40), <1>1 DEF FrameInv, Position
<1>4. Quiet(w)
  BY BorderIsQuiet
<1>5. ~RunsScript(v)
  BY <1>4 DEF RunsScript, Quiet, Ended, Final
<1> QED
  BY <1>2, <1>3, <1>5 DEF FrameInv

LEMMA OpenKeepsInv ==
  ASSUME RunnerInv, NEW f \in Frames, AtSegment(f), NEW end \in work[f].at .. Len(work[f].calls),
         \/ OpenSerial(f, end)
         \/ OpenParallel(f, end) /\ \A k \in work[f].at .. end : ParallelSafe(work[f].calls[k]),
         UNCHANGED <<pc, script, request, answer>>
  PROVE  RunnerInv'
<1> DEFINE w == work[f]
           v == work'[f]
<1>1. FrameInv(w) /\ DOMAIN work = Frames /\ w.at = w.end + 1 /\ ~w.cancelled /\ Busy(f)
  BY ActiveIsBusy DEF RunnerInv, AtSegment, Frames
<1>2. Others(f)
  BY <1>1 DEF OpenSerial, OpenParallel, Others
<1>3. /\ DOMAIN v = DOMAIN w /\ v.calls = w.calls /\ v.many = w.many /\ v.at = w.at /\ v.end = end
      /\ v.cancelled = w.cancelled
      /\ \/ v.parallel = FALSE /\ v.st = w.st
         \/ /\ v.parallel = TRUE /\ \A k \in w.at .. end : ParallelSafe(w.calls[k])
            /\ v.st = [i \in DOMAIN w.calls |-> IF i \in w.at .. end THEN "queued" ELSE w.st[i]]
  <2>1. CASE OpenSerial(f, end)
    BY <1>1, <2>1 DEF OpenSerial, FrameInv, Shape
  <2>2. CASE OpenParallel(f, end) /\ \A k \in w.at .. end : ParallelSafe(w.calls[k])
    BY <1>1, <2>2 DEF OpenParallel, FrameInv, Shape, Indices
  <2> QED
    BY <2>1, <2>2
<1>4. FrameInv(v) /\ ~RunsScript(v)
  <2> HIDE DEF v
  <2> QED
    BY <1>1, <1>3, SegmentKeepsFrame
<1>5. ~RunsScript(w)
  BY <1>1, BorderIsQuiet, QuietRunsNoScript
<1>6. RunsScript(work'["batch"]) <=> RunsScript(work["batch"])
  BY <1>2, <1>4, <1>5 DEF Others, Frames
<1> QED
  BY <1>1, <1>2, <1>3, <1>4, <1>6, FrameMoves

LEMMA SegmentKeepsInv ==
  ASSUME RunnerInv, OpenSegment \/ OpenNested
  PROVE  RunnerInv'
<1>1. UNCHANGED <<pc, script, request, answer>>
  BY DEF OpenSegment, OpenNested, Elsewhere, BatchVars, ScriptVars
<1>2. \A f \in Frames : DOMAIN work[f].calls = 1 .. Len(work[f].calls) /\ work[f].at \in Nat /\ Len(work[f].calls) \in Nat
  BY DEF RunnerInv, FrameInv, Shape, Frames
<1>3. CASE OpenSegment
  <2> DEFINE i == work["batch"].at
             calls == work["batch"].calls
  <2>1. AtSegment("batch") /\ i \in 1 .. Len(calls)
    BY <1>2, <1>3 DEF OpenSegment, AtSegment, Indices, Frames
  <2>2. PICK parallel \in i - 1 .. Len(calls) :
           /\ ParallelSegment(calls, i, parallel)
           /\ IF parallel > i /\ capacity > 1 THEN OpenParallel("batch", parallel)
              ELSE \E end \in i .. Len(calls) : SerialSegment(calls, i, end) /\ OpenSerial("batch", end)
    BY <1>3 DEF OpenSegment
  <2>3. CASE parallel > i /\ capacity > 1
    <3>1. parallel \in i .. Len(calls)
      BY <2>1, <2>3
    <3> QED
      BY <1>1, <2>1, <2>2, <2>3, <3>1, OpenKeepsInv DEF ParallelSegment, Frames
  <2>4. CASE ~(parallel > i /\ capacity > 1)
    <3>1. PICK end \in i .. Len(calls) : OpenSerial("batch", end)
      BY <2>2, <2>4
    <3> QED
      BY <1>1, <2>1, <3>1, OpenKeepsInv DEF Frames
  <2> QED
    BY <2>3, <2>4
<1>4. CASE OpenNested
  <2> DEFINE i == work["nested"].at
             calls == work["nested"].calls
  <2>1. AtSegment("nested") /\ i \in 1 .. Len(calls)
    BY <1>2, <1>4 DEF OpenNested, AtSegment, Indices, Frames
  <2>2. PICK parallel \in i - 1 .. Len(calls) :
           /\ ParallelSegment(calls, i, parallel)
           /\ IF work["nested"].many /\ parallel > i THEN OpenParallel("nested", parallel)
              ELSE OpenSerial("nested", i)
    BY <1>4 DEF OpenNested
  <2>3. CASE work["nested"].many /\ parallel > i
    <3>1. parallel \in i .. Len(calls)
      BY <2>1, <2>3
    <3> QED
      BY <1>1, <2>1, <2>2, <2>3, <3>1, OpenKeepsInv DEF ParallelSegment, Frames
  <2>4. CASE ~(work["nested"].many /\ parallel > i)
    <3>1. i \in i .. Len(calls)
      BY <2>1
    <3> QED
      BY <1>1, <2>1, <2>2, <2>4, <3>1, OpenKeepsInv DEF Frames
  <2> QED
    BY <2>3, <2>4
<1> QED
  BY <1>3, <1>4

-----------------------------------------------------------------------------
(* Batches, scripts and cancellation.                                      *)

LEMMA BeginKeepsInv ==
  ASSUME RunnerInv, NEW calls \in Batches, Begin(calls)
  PROVE  RunnerInv'
<1>1. calls \in Seq(Kinds) /\ FALSE \in BOOLEAN /\ <<>> \in Seq(Kinds)
  BY WellFormed
<1>2. FrameInv(Fresh(calls, FALSE)) /\ Quiet(Fresh(calls, FALSE)) /\ FrameInv(Empty) /\ Quiet(Empty)
  BY <1>1, FreshFrame DEF Empty
<1>3. work' = [work EXCEPT !["batch"] = Fresh(calls, FALSE), !["nested"] = Empty]
      /\ pc' = "running" /\ script' = "none" /\ request' = "none"
  BY DEF Begin
<1>4. DOMAIN work' = Frames /\ work'["batch"] = Fresh(calls, FALSE) /\ work'["nested"] = Empty
  BY <1>3 DEF RunnerInv, Frames
<1>5. DOMAIN Empty.calls = {}
  BY DEF Empty, Fresh
<1> QED
  BY <1>2, <1>3, <1>4, <1>5, QuietRunsNoScript DEF RunnerInv, Agreement

LEMMA ReturnKeepsInv ==
  ASSUME RunnerInv, Return
  PROVE  RunnerInv'
<1>1. Quiet(work["batch"])
  BY PublishedIsQuiet DEF Return, AllPublished, RunnerInv
<1>2. script = "none" /\ request = "none"
  BY <1>1, QuietRunsNoScript DEF RunnerInv, Agreement
<1> QED
  BY <1>1, <1>2 DEF Return, RunnerInv, Agreement

LEMMA SubmitKeepsInv ==
  ASSUME RunnerInv, NEW r \in Requests, Submit(r)
  PROVE  RunnerInv'
<1>1. r.calls \in Seq(NestedKinds) /\ r.many \in BOOLEAN
  BY WellFormed
<1>2. r.calls \in Seq(Kinds) /\ \A i \in DOMAIN r.calls : r.calls[i] # "script"
  BY <1>1 DEF NestedKinds
<1>3. FrameInv(Fresh(r.calls, r.many)) /\ Quiet(Fresh(r.calls, r.many)) /\ Fresh(r.calls, r.many).calls = r.calls
  BY <1>1, <1>2, FreshFrame DEF Fresh
<1>4. DOMAIN work' = Frames /\ work'["batch"] = work["batch"] /\ work'["nested"] = Fresh(r.calls, r.many)
  BY DEF Submit, RunnerInv, Frames
<1> QED
  BY <1>2, <1>3, <1>4 DEF Submit, BatchVars, RunnerInv, Agreement

LEMMA ScriptKeepsInv ==
  ASSUME RunnerInv, Resume \/ ScriptEnds \/ Accept \/ Serve \/ Answer \/ CancelClose
  PROVE  RunnerInv'
<1>1. CASE Resume
  BY <1>1 DEF Resume, BatchVars, RunnerInv, Agreement
<1>2. CASE ScriptEnds
  BY <1>2 DEF ScriptEnds, BatchVars, RunnerInv, Agreement
<1>3. CASE Accept
  BY <1>3 DEF Accept, BatchVars, RunnerInv, Agreement
<1>4. CASE Serve
  BY <1>4 DEF Serve, BatchVars, RunnerInv, Agreement
<1>5. CASE Answer
  <2>1. Quiet(work["nested"])
    BY <1>5, StoppedIsQuiet, PublishedIsQuiet DEF Answer, NoneStops, AllPublished, Indices, Status, RunnerInv
  <2> QED
    BY <1>5, <2>1 DEF Answer, BatchVars, RunnerInv, Agreement
<1>6. CASE CancelClose
  BY <1>6 DEF CancelClose, ScriptVars, RunnerInv, Agreement
<1> QED
  BY <1>1, <1>2, <1>3, <1>4, <1>5, <1>6

LEMMA CancelKeepsInv ==
  ASSUME RunnerInv, CancelCalls \/ CancelScript
  PROVE  RunnerInv'
<1>1. CASE CancelCalls
  <2>1. DOMAIN work' = Frames /\ work'["batch"] = Stop(work["batch"]) /\ work'["nested"] = work["nested"]
    BY <1>1 DEF CancelCalls, RunnerInv, Frames
  <2>2. FrameInv(work'["batch"]) /\ ~RunsScript(work'["batch"])
    BY <2>1, StopKeepsFrame DEF RunnerInv
  <2>3. ~RunsScript(work["batch"])
    BY <1>1 DEF CancelCalls, ScriptRuns, RunsScript, Indices, Kind, Status
  <2> QED
    BY <1>1, <2>1, <2>2, <2>3 DEF CancelCalls, Active, ScriptVars, RunnerInv, Agreement
<1>2. CASE CancelScript
  <2>1. RunsScript(work["batch"]) /\ script # "none"
    BY <1>2 DEF CancelScript, ScriptRuns, RunsScript, Indices, Kind, Status, RunnerInv, Agreement
  <2>2. CASE request \in {"accepted", "serving"}
    <3>1. DOMAIN work' = Frames /\ work'["batch"] = work["batch"] /\ work'["nested"] = Stop(work["nested"])
      BY <1>2, <2>2 DEF CancelScript, RunnerInv, Frames
    <3>2. /\ FrameInv(work'["nested"]) /\ work'["nested"].calls = work["nested"].calls
          /\ Quiet(work["nested"]) => Quiet(work'["nested"])
      BY <3>1, StopKeepsFrame DEF RunnerInv
    <3> QED
      BY <1>2, <2>1, <2>2, <3>1, <3>2 DEF CancelScript, RunnerInv, Agreement
  <2>3. CASE request \notin {"accepted", "serving"}
    BY <1>2, <2>1, <2>3 DEF CancelScript, RunnerInv, Agreement
  <2> QED
    BY <2>2, <2>3
<1> QED
  BY <1>1, <1>2

LEMMA EndingKeepsInv ==
  ASSUME RunnerInv, Unwind \/ Closed \/ Join
  PROVE  RunnerInv'
<1>1. CASE Unwind
  <2>1. Quiet(work["batch"]) /\ ~RunsScript(work["batch"])
    BY <1>1, StoppedIsQuiet DEF Unwind, NoneStops, Indices, Status, RunnerInv
  <2> QED
    BY <1>1, <2>1 DEF Unwind, RunnerInv, Agreement
<1>2. CASE Closed
  BY <1>2 DEF Closed, RunnerInv, Agreement
<1>3. CASE Join
  <2> DEFINE w == work["batch"]
             u == Stop(w)
             v == [u EXCEPT !.st[w.at] = "cancelled"]
  <2>1. FrameInv(w) /\ RunsScript(w) /\ request = "none"
    BY <1>3 DEF Join, RunnerInv, Agreement
  <2>2. PICK i \in DOMAIN w.calls : w.calls[i] = "script" /\ w.st[i] = "running"
    BY <2>1 DEF RunsScript
  <2>3. ~Ended(w.st[i])
    BY <2>2 DEF Ended, Final
  <2>4. i = w.at /\ \A j \in DOMAIN w.calls : j # i => Ended(w.st[j])
    BY <2>1, <2>2, <2>3, BarrierIsAlone DEF ParallelSafe
  <2>5. i <= w.end
    BY <2>1, <2>3 DEF FrameInv, Shape, Position, Ended
  <2>6. /\ FrameInv(u) /\ u.calls = w.calls /\ u.at = w.at /\ u.end = w.end
        /\ \A j \in DOMAIN w.calls : j # i => Ended(u.st[j])
    BY <2>1, <2>4, StopKeepsFrame
  <2>7. DOMAIN work' = Frames /\ work'["batch"] = v /\ work'["nested"] = work["nested"]
    BY <1>3 DEF Join, RunnerInv, Frames
  <2> HIDE DEF u, w
  <2>8. SameButStatus(u, v, i, "cancelled") /\ "cancelled" \in Statuses /\ Ended("cancelled")
    BY <2>4, <2>6 DEF SameButStatus, FrameInv, Shape, Statuses, Ended, Final
  <2> HIDE DEF v
  <2>9. FrameInv(v)
    BY <2>2, <2>4, <2>5, <2>6, <2>8, StatusKeepsFrame
  <2>10. Quiet(v)
    BY <2>2, <2>6, <2>8 DEF SameButStatus, Quiet, FrameInv, Shape
  <2> QED
    BY <1>3, <2>1, <2>7, <2>9, <2>10, QuietRunsNoScript DEF Join, RunnerInv, Agreement
<1> QED
  BY <1>1, <1>2, <1>3

LEMMA InitKeepsInv == Init => RunnerInv
<1>1. <<>> \in Seq(Kinds) /\ FALSE \in BOOLEAN
  OBVIOUS
<1>2. FrameInv(Empty) /\ Quiet(Empty)
  BY <1>1, FreshFrame DEF Empty
<1>3. DOMAIN Empty.calls = {}
  BY DEF Empty, Fresh
<1> QED
  BY <1>2, <1>3, QuietRunsNoScript DEF Init, RunnerInv, Agreement, Frames

LEMMA StepKeepsInv == RunnerInv /\ [Next]_vars => RunnerInv'
<1> SUFFICES ASSUME RunnerInv, [Next]_vars
             PROVE  RunnerInv'
  OBVIOUS
<1>1. CASE \E calls \in Batches : Begin(calls)
  BY <1>1, BeginKeepsInv
<1>2. CASE UserAnswers
  BY <1>2, ApproveKeepsInv DEF UserAnswers
<1>3. CASE Cancelling
  BY <1>3, CancelKeepsInv, ScriptKeepsInv DEF Cancelling
<1>4. CASE Progress
  <2>1. ASSUME NEW f \in Frames, Start(f) \/ Publish(f)
        PROVE  RunnerInv'
    BY <2>1, StartKeepsInv, PublishKeepsInv
  <2>2. ASSUME NEW f \in Frames, NEW i \in Indices(f),
               \/ Execute(f, i) \/ End(f, i) \/ Stopped(f, i)
               \/ AnswerInstead(f, i) \/ CallNext(f, i) \/ AdmitRecorded(f, i)
               \/ HandlerBreaks(f, i) \/ Relay(f, i) \/ Settle(f, i)
        PROVE  RunnerInv'
    BY <2>2, ExecuteKeepsInv, EndKeepsInv, StoppedKeepsInv, WrappedKeepsInv
  <2>3. CASE Skip \/ Echo \/ OpenSegment \/ OpenNested \/ Return
    BY <2>3, SkipKeepsInv, SegmentKeepsInv, ReturnKeepsInv
  <2>4. CASE (\E r \in Requests : Submit(r)) \/ Resume \/ ScriptEnds \/ Accept \/ Serve \/ Answer
    BY <2>4, SubmitKeepsInv, ScriptKeepsInv
  <2>5. CASE Unwind \/ Closed \/ Join
    BY <2>5, EndingKeepsInv
  <2> QED
    BY <1>4, <2>1, <2>2, <2>3, <2>4, <2>5 DEF Progress
<1>5. CASE UNCHANGED vars
  BY <1>5 DEF vars, RunnerInv, Agreement
<1> QED
  BY <1>1, <1>2, <1>3, <1>4, <1>5 DEF Next

-----------------------------------------------------------------------------
(* Theorems.                                                               *)

\* The invariant: where the calls of run()'s batch and of run_nested's stand, and how the script's
\* thread, its request and the batch's script call belong together.
THEOREM RunnerInvariant == Spec => []RunnerInv
<1> QED
  BY InitKeepsInv, StepKeepsInv, PTL DEF Spec

\* Whatever the batch, the requests, the capacity and the cancellations: a call that changes something
\* runs beside no other, and nested calls run only while the batch's script waits for them.
THEOREM EffectsAlone == Spec => []EffectsRunAlone
<1>1. RunnerInv => EffectsRunAlone
  <2> SUFFICES ASSUME RunnerInv
               PROVE  EffectsRunAlone
    OBVIOUS
  <2>1. ASSUME NEW f \in Frames, NEW i \in Indices(f), NEW j \in Indices(f), i # j,
               Status(f, i) \in Live, Status(f, j) \in Live
        PROVE  ~Mutates(Kind(f, i))
    <3>1. ParallelSafe(work[f].calls[i])
      BY <2>1, LiveTogether DEF RunnerInv, Frames, Indices, Status
    <3> QED
      BY <3>1 DEF ParallelSafe, Mutates, MayAsk, Kind
  <2>2. ASSUME NEW i \in Indices("nested"), Status("nested", i) \in Live
        PROVE  script = "blocked" /\ ScriptRuns
    <3>1. request = "serving"
      BY <2>2, LiveIsNotEnded DEF RunnerInv, Agreement, Quiet, Indices, Status
    <3>2. script = "blocked" /\ RunsScript(work["batch"])
      BY <3>1 DEF RunnerInv, Agreement
    <3> QED
      BY <3>2 DEF ScriptRuns, RunsScript, Indices, Kind, Status
  <2> QED
    BY <2>1, <2>2 DEF EffectsRunAlone
<1> QED
  BY <1>1, RunnerInvariant, PTL

\* However run() ends, it leaves no call under way, no question, no script and no request behind.
THEOREM NothingIsLeft == Spec => []NothingOutlives
<1>1. RunnerInv => NothingOutlives
  <2> SUFFICES ASSUME RunnerInv, Over
               PROVE  /\ \A f \in Frames : \A i \in Indices(f) : Status(f, i) \in Final \cup {"waiting"}
                      /\ script = "none" /\ request = "none"
    BY DEF NothingOutlives
  <2>1. Quiet(work["batch"])
    BY DEF Over, RunnerInv, Agreement
  <2>2. script = "none" /\ request = "none"
    BY <2>1, QuietRunsNoScript DEF RunnerInv, Agreement
  <2>3. Quiet(work["nested"])
    BY <2>2 DEF RunnerInv, Agreement
  <2> QED
    BY <2>1, <2>2, <2>3 DEF Quiet, Ended, Frames, Indices, Status
<1> QED
  BY <1>1, RunnerInvariant, PTL

\* The two together: effects run alone, and none of what a batch started outlives it.
THEOREM CallsStayContained == Spec => []CallsAreContained
<1>1. EffectsRunAlone /\ NothingOutlives => CallsAreContained
  BY DEF CallsAreContained
<1> QED
  BY <1>1, EffectsAlone, NothingIsLeft, PTL

-----------------------------------------------------------------------------
(* What a batch tells of itself.                                           *)

CallTypes(w) ==
    /\ w.ran \in [DOMAIN w.calls -> BOOLEAN] /\ w.declined \in [DOMAIN w.calls -> BOOLEAN]
    /\ DOMAIN w.core = DOMAIN w.calls /\ DOMAIN w.disk = DOMAIN w.calls

\* What the receipt of an intercepted call says, in memory and in the log, at each of its statuses.
Receipt(s, ran, core, disk) ==
    /\ s \in {"waiting", "wrapping", "recording", "asking", "queued"} => ~ran
    /\ s = "wrapping" => core = "not_run"
    /\ s = "recording" => core = "started"
    /\ s \in {"asking", "queued"} => core = "started" /\ disk = "started"
    /\ s \in Live => ran /\ core = "started" /\ disk = "started"
    /\ s = "recorded" => disk = "started"
    /\ s = "relaying" => disk = core
    /\ s \in {"recorded", "relaying"} => (core = "completed" /\ ran) \/ (core = "not_run" /\ ~ran)
    /\ ran => disk \notin {NoReceipt, "not_run"}
    /\ disk \in {"completed", "interrupted"} => ran

Receipts(w) == \A i \in DOMAIN w.calls :
    w.calls[i] = "wrapped" => Receipt(w.st[i], w.ran[i], w.core[i], w.disk[i])

\* A call that ran is past its admission; the user is asked of calls that may ask, and declined ones
\* have ended or are on their way back to their handler.
History(kind, s, ran, declined, cancelled) ==
    /\ ran => s \in Live \cup {"recorded", "relaying", "ok", "failed", "refused", "cancelled"}
    /\ s = "asking" => MayAsk(kind)
    /\ declined => MayAsk(kind) /\ s \in {"refused", "recorded", "relaying", "failed", "cancelled"}
    /\ s \in {"cancelled", "stopping"} => cancelled

Histories(w) == \A i \in DOMAIN w.calls : History(w.calls[i], w.st[i], w.ran[i], w.declined[i], w.cancelled)

\* A barrier is a serial segment of its own.
Segment(w) == ~w.parallel /\ w.at < w.end => \A k \in w.at .. w.end : ~EditBarrier(w.calls[k])

FrameTruth(w) == CallTypes(w) /\ Receipts(w) /\ Histories(w) /\ Segment(w)

\* No call behind a declined one ran or will run in the open segment, but for those no barrier separates
\* from it; once it is answered the batch knows that it was refused.
Refusals(w, known) == \A i \in DOMAIN w.calls : w.declined[i] /\ w.st[i] # "failed" =>
    /\ \A j \in DOMAIN w.calls : i < j /\ (w.ran[j] \/ (w.at <= j /\ j <= w.end)) =>
          \A k \in i .. j : ~EditBarrier(w.calls[k])
    /\ w.st[i] = "refused" /\ i < w.at => known

Looked(w) == {i \in DOMAIN w.calls : i < w.at /\ w.calls[i] = "look" /\ w.st[i] = "ok"}

Counts(seq, n) == seq \in Seq(Nat) /\ Len(seq) = n /\ \A i \in 1 .. n : seq[i] = i

\* One message for each call before the segment, and one observation for each of them that looked.
Messages(w, answers, looks) ==
    /\ Counts(answers, w.at - 1)
    /\ looks \in Seq(Nat)
    /\ {looks[n] : n \in DOMAIN looks} = Looked(w)
    /\ \A m, n \in DOMAIN looks : m < n => looks[m] < looks[n]

BatchTruth(w, known, answers, looks) ==
    FrameTruth(w) /\ Refusals(w, known) /\ Messages(w, answers, looks)

Truth ==
    /\ FrameTruth(work["nested"])
    /\ BatchTruth(work["batch"], refused, out, observed)
    /\ refused \in BOOLEAN
    /\ pc = "returned" => work["batch"].at = Len(work["batch"].calls) + 1 /\ ~work["batch"].cancelled

ResultsInv == RunnerInv /\ Truth

-----------------------------------------------------------------------------
(* One call moves.                                                         *)

\* Of two states of a frame: only call i differs.
OneCall(w, v, i) ==
    /\ v.calls = w.calls /\ v.at = w.at /\ v.end = w.end
    /\ v.parallel = w.parallel /\ v.cancelled = w.cancelled
    /\ CallTypes(v)
    /\ \A k \in DOMAIN w.calls : k # i =>
          /\ v.st[k] = w.st[k] /\ v.ran[k] = w.ran[k] /\ v.declined[k] = w.declined[k]
          /\ v.core[k] = w.core[k] /\ v.disk[k] = w.disk[k]

\* What the new state of call i must keep true.
Sound(w, v, i) ==
    /\ w.calls[i] = "wrapped" => Receipt(v.st[i], v.ran[i], v.core[i], v.disk[i])
    /\ History(w.calls[i], v.st[i], v.ran[i], v.declined[i], w.cancelled)
    /\ v.declined[i] /\ v.st[i] # "failed" => (w.declined[i] /\ w.st[i] # "failed") \/ w.st[i] = "asking"

LEMMA MovesInSegment ==
  ASSUME NEW w, FrameInv(w), NEW i \in DOMAIN w.calls, ~Ended(w.st[i]) \/ (i = w.at /\ i <= w.end)
  PROVE  /\ DOMAIN w.calls = 1 .. Len(w.calls) /\ Len(w.calls) \in Nat /\ w.at \in Nat /\ w.end \in Nat
         /\ i \in Nat /\ w.at <= i /\ i <= w.end
<1>1. DOMAIN w.calls = 1 .. Len(w.calls) /\ Len(w.calls) \in Nat /\ w.at \in Nat /\ w.end \in Nat /\ i \in Nat
  BY DEF FrameInv, Shape
<1> QED
  BY <1>1 DEF FrameInv, Position, Ended

LEMMA CallKeepsFrameTruth ==
  ASSUME NEW w, FrameInv(w), FrameTruth(w), NEW v, NEW i \in DOMAIN w.calls, OneCall(w, v, i), Sound(w, v, i)
  PROVE  FrameTruth(v)
<1>1. CallTypes(v)
  BY DEF OneCall
<1>2. Receipts(v)
  <2> SUFFICES ASSUME NEW k \in DOMAIN v.calls, v.calls[k] = "wrapped"
               PROVE  Receipt(v.st[k], v.ran[k], v.core[k], v.disk[k])
    BY DEF Receipts
  <2>1. k \in DOMAIN w.calls /\ w.calls[k] = "wrapped"
    BY DEF OneCall
  <2>2. CASE k = i
    BY <2>1, <2>2 DEF Sound
  <2>3. CASE k # i
    BY <2>1, <2>3 DEF OneCall, FrameTruth, Receipts
  <2> QED
    BY <2>2, <2>3
<1>3. Histories(v)
  <2> SUFFICES ASSUME NEW k \in DOMAIN v.calls
               PROVE  History(v.calls[k], v.st[k], v.ran[k], v.declined[k], v.cancelled)
    BY DEF Histories
  <2>1. k \in DOMAIN w.calls /\ v.calls[k] = w.calls[k] /\ v.cancelled = w.cancelled
    BY DEF OneCall
  <2>2. CASE k = i
    BY <2>1, <2>2 DEF Sound
  <2>3. CASE k # i
    BY <2>1, <2>3 DEF OneCall, FrameTruth, Histories
  <2> QED
    BY <2>2, <2>3
<1>4. Segment(v)
  BY DEF OneCall, FrameTruth, Segment
<1> QED
  BY <1>1, <1>2, <1>3, <1>4 DEF FrameTruth

LEMMA CallKeepsMessages ==
  ASSUME NEW w, FrameInv(w), NEW v, NEW i \in DOMAIN w.calls, OneCall(w, v, i),
         ~Ended(w.st[i]) \/ (i = w.at /\ i <= w.end),
         NEW answers, NEW looks, Messages(w, answers, looks)
  PROVE  Messages(v, answers, looks)
<1>1. i \in Nat /\ w.at \in Nat /\ ~(i < w.at)
  BY MovesInSegment
<1>2. Looked(v) = Looked(w)
  BY <1>1 DEF Looked, OneCall
<1>3. v.at = w.at
  BY DEF OneCall
<1> QED
  BY <1>2, <1>3 DEF Messages

LEMMA CallKeepsRefusals ==
  ASSUME NEW w, FrameInv(w), FrameTruth(w), NEW v, NEW i \in DOMAIN w.calls, OneCall(w, v, i), Sound(w, v, i),
         ~Ended(w.st[i]) \/ (i = w.at /\ i <= w.end),
         NEW known, Refusals(w, known)
  PROVE  Refusals(v, known)
<1>1. /\ DOMAIN w.calls = 1 .. Len(w.calls) /\ Len(w.calls) \in Nat /\ w.at \in Nat /\ w.end \in Nat
      /\ i \in Nat /\ w.at <= i /\ i <= w.end
  BY MovesInSegment
<1>2. v.calls = w.calls /\ v.at = w.at /\ v.end = w.end
  BY DEF OneCall
<1> SUFFICES ASSUME NEW a \in DOMAIN w.calls, v.declined[a], v.st[a] # "failed"
             PROVE  /\ \A j \in DOMAIN w.calls : a < j /\ (v.ran[j] \/ (w.at <= j /\ j <= w.end)) =>
                          \A k \in a .. j : ~EditBarrier(w.calls[k])
                    /\ v.st[a] = "refused" /\ a < w.at => known
  BY <1>2 DEF Refusals
<1>3. \A j \in DOMAIN w.calls : v.ran[j] => w.ran[j] \/ (w.at <= j /\ j <= w.end)
  BY <1>1 DEF OneCall
<1>4. CASE w.declined[a] /\ w.st[a] # "failed"
  <2>1. \A j \in DOMAIN w.calls : a < j /\ (v.ran[j] \/ (w.at <= j /\ j <= w.end)) =>
            \A k \in a .. j : ~EditBarrier(w.calls[k])
    BY <1>3, <1>4 DEF Refusals
  <2>2. v.st[a] = "refused" /\ a < w.at => known
    BY <1>1, <1>4 DEF Refusals, OneCall
  <2> QED
    BY <2>1, <2>2
<1>5. CASE ~(w.declined[a] /\ w.st[a] # "failed")
  <2>1. a = i /\ w.st[a] = "asking"
    BY <1>5 DEF OneCall, Sound
  <2>2. MayAsk(w.calls[a])
    BY <2>1 DEF FrameTruth, Histories, History
  <2>3. ~Ended(w.st[a]) /\ ~ParallelSafe(w.calls[a])
    BY <2>1, <2>2 DEF Ended, Final, MayAsk, ParallelSafe
  <2>4. a = w.at /\ \A j \in DOMAIN w.calls : j # a => Ended(w.st[j])
    BY <2>3, BarrierIsAlone
  <2>5. ~w.parallel
    BY <1>1, <2>1, <2>3, <2>4 DEF FrameInv, Position, Shape
  <2>6. ASSUME NEW j \in DOMAIN w.calls, a < j, v.ran[j] \/ (w.at <= j /\ j <= w.end)
        PROVE  \A k \in a .. j : ~EditBarrier(w.calls[k])
    <3>1. w.st[j] = "waiting" /\ v.ran[j] = w.ran[j] /\ j \in Nat
      BY <1>1, <2>1, <2>4, <2>5, <2>6 DEF FrameInv, Position, OneCall
    <3>2. ~w.ran[j]
      BY <3>1 DEF FrameTruth, Histories, History, Live
    <3>3. w.at <= j /\ j <= w.end
      BY <2>6, <3>1, <3>2
    <3>4. \A k \in w.at .. w.end : ~EditBarrier(w.calls[k])
      BY <1>1, <2>4, <2>5, <2>6, <3>1, <3>3 DEF FrameTruth, Segment
    <3> QED
      BY <1>1, <2>4, <3>1, <3>3, <3>4
  <2> QED
    BY <1>1, <2>4, <2>6
<1> QED
  BY <1>4, <1>5

LEMMA CallKeepsTruth ==
  ASSUME ResultsInv, NEW f \in Frames, Others(f), NEW i \in DOMAIN work[f].calls,
         OneCall(work[f], work'[f], i), Sound(work[f], work'[f], i),
         ~Ended(work[f].st[i]) \/ (i = work[f].at /\ i <= work[f].end),
         UNCHANGED <<pc, out, observed, refused>>
  PROVE  Truth'
<1>1. FrameInv(work[f]) /\ FrameTruth(work[f])
  BY DEF ResultsInv, RunnerInv, Truth, BatchTruth, Frames
<1>2. FrameTruth(work'[f])
  BY <1>1, CallKeepsFrameTruth
<1>3. CASE f = "batch"
  <2>1. Refusals(work["batch"], refused) /\ Messages(work["batch"], out, observed)
    BY DEF ResultsInv, Truth, BatchTruth
  <2>2. Refusals(work'["batch"], refused)
    BY <1>1, <1>3, <2>1, CallKeepsRefusals
  <2>3. Messages(work'["batch"], out, observed)
    BY <1>1, <1>3, <2>1, CallKeepsMessages
  <2>4. work'["nested"] = work["nested"]
    BY <1>3 DEF Others, Frames
  <2> QED
    BY <1>2, <1>3, <2>2, <2>3, <2>4 DEF ResultsInv, Truth, BatchTruth, OneCall
<1>4. CASE f = "nested"
  <2>1. work'["batch"] = work["batch"]
    BY <1>4 DEF Others, Frames
  <2> QED
    BY <1>2, <1>4, <2>1 DEF ResultsInv, Truth, BatchTruth
<1> QED
  BY <1>3, <1>4 DEF Frames

-----------------------------------------------------------------------------
(* What the actions write of a call.                                       *)

\* A call with its status and whatever else an action writes; v says what each field now is.
Written(w, v, i, s, r, d, c, k) ==
    /\ OneCall(w, v, i)
    /\ v.st[i] = s /\ v.ran[i] = r /\ v.declined[i] = d /\ v.core[i] = c /\ v.disk[i] = k

LEMMA StatusWritten ==
  ASSUME ResultsInv, NEW f \in Frames, NEW i \in DOMAIN work[f].calls, NEW s,
         work' = [work EXCEPT ![f].st[i] = s]
  PROVE  Others(f) /\ Written(work[f], work'[f], i, s, work[f].ran[i], work[f].declined[i], work[f].core[i], work[f].disk[i])
  BY DEF ResultsInv, RunnerInv, FrameInv, Shape, Truth, BatchTruth, FrameTruth, CallTypes, Written, OneCall, Others, Frames

LEMMA RunWritten ==
  ASSUME ResultsInv, NEW f \in Frames, NEW i \in DOMAIN work[f].calls, NEW s, NEW r \in BOOLEAN,
         work' = [work EXCEPT ![f].st[i] = s, ![f].ran[i] = r]
  PROVE  Others(f) /\ Written(work[f], work'[f], i, s, r, work[f].declined[i], work[f].core[i], work[f].disk[i])
  BY DEF ResultsInv, RunnerInv, FrameInv, Shape, Truth, BatchTruth, FrameTruth, CallTypes, Written, OneCall, Others, Frames

LEMMA CoreWritten ==
  ASSUME ResultsInv, NEW f \in Frames, NEW i \in DOMAIN work[f].calls, NEW s, NEW c,
         work' = [work EXCEPT ![f].st[i] = s, ![f].core[i] = c]
  PROVE  Others(f) /\ Written(work[f], work'[f], i, s, work[f].ran[i], work[f].declined[i], c, work[f].disk[i])
  BY DEF ResultsInv, RunnerInv, FrameInv, Shape, Truth, BatchTruth, FrameTruth, CallTypes, Written, OneCall, Others, Frames

LEMMA DiskWritten ==
  ASSUME ResultsInv, NEW f \in Frames, NEW i \in DOMAIN work[f].calls, NEW s, NEW k,
         work' = [work EXCEPT ![f].st[i] = s, ![f].disk[i] = k]
  PROVE  Others(f) /\ Written(work[f], work'[f], i, s, work[f].ran[i], work[f].declined[i], work[f].core[i], k)
  BY SMTT(40) DEF ResultsInv, RunnerInv, FrameInv, Shape, Truth, BatchTruth, FrameTruth, CallTypes, Written, OneCall, Others, Frames

LEMMA ReceiptWritten ==
  ASSUME ResultsInv, NEW f \in Frames, NEW i \in DOMAIN work[f].calls, NEW s, NEW c, NEW k,
         work' = [work EXCEPT ![f].st[i] = s, ![f].core[i] = c, ![f].disk[i] = k]
  PROVE  Others(f) /\ Written(work[f], work'[f], i, s, work[f].ran[i], work[f].declined[i], c, k)
  BY SMTT(40) DEF ResultsInv, RunnerInv, FrameInv, Shape, Truth, BatchTruth, FrameTruth, CallTypes, Written, OneCall, Others, Frames

LEMMA DeclineWritten ==
  ASSUME ResultsInv, NEW f \in Frames, NEW i \in DOMAIN work[f].calls, NEW s, NEW c,
         work' = [work EXCEPT ![f].declined[i] = TRUE, ![f].st[i] = s, ![f].core[i] = c]
  PROVE  Others(f) /\ Written(work[f], work'[f], i, s, work[f].ran[i], TRUE, c, work[f].disk[i])
  BY DEF ResultsInv, RunnerInv, FrameInv, Shape, Truth, BatchTruth, FrameTruth, CallTypes, Written, OneCall, Others, Frames

\* What the invariant says of one call of a frame.
LEMMA CallIsTrue ==
  ASSUME ResultsInv, NEW f \in Frames, NEW i \in DOMAIN work[f].calls
  PROVE  /\ FrameInv(work[f]) /\ FrameTruth(work[f]) /\ DOMAIN work = Frames
         /\ work[f].ran[i] \in BOOLEAN /\ work[f].declined[i] \in BOOLEAN
         /\ work[f].calls[i] = "wrapped" => Receipt(work[f].st[i], work[f].ran[i], work[f].core[i], work[f].disk[i])
         /\ History(work[f].calls[i], work[f].st[i], work[f].ran[i], work[f].declined[i], work[f].cancelled)
  BY DEF ResultsInv, RunnerInv, Truth, BatchTruth, FrameTruth, CallTypes, Receipts, Histories, Frames

LEMMA WrittenKeepsTruth ==
  ASSUME ResultsInv, NEW f \in Frames, Others(f), NEW i \in DOMAIN work[f].calls,
         NEW s, NEW r, NEW d, NEW c, NEW k, Written(work[f], work'[f], i, s, r, d, c, k),
         ~Ended(work[f].st[i]) \/ (i = work[f].at /\ i <= work[f].end),
         work[f].calls[i] = "wrapped" => Receipt(s, r, c, k),
         History(work[f].calls[i], s, r, d, work[f].cancelled),
         d /\ s # "failed" => (work[f].declined[i] /\ work[f].st[i] # "failed") \/ work[f].st[i] = "asking",
         UNCHANGED <<pc, out, observed, refused>>
  PROVE  Truth'
<1>1. Sound(work[f], work'[f], i) /\ OneCall(work[f], work'[f], i)
  BY DEF Sound, Written
<1> QED
  BY <1>1, CallKeepsTruth

-----------------------------------------------------------------------------
(* The actions of one call.                                                *)

LEMMA AnswersKeepTruth ==
  ASSUME ResultsInv, NEW f \in Frames, NEW i \in Indices(f), Approve(f, i) \/ Decline(f, i)
  PROVE  Truth'
<1> DEFINE w == work[f]
<1>1. i \in DOMAIN w.calls /\ w.st[i] = "asking" /\ UNCHANGED <<pc, out, observed, refused>>
  BY DEF Approve, Decline, Status, Indices, Elsewhere, BatchVars
<1>2. /\ w.calls[i] = "wrapped" => ~w.ran[i] /\ w.core[i] = "started" /\ w.disk[i] = "started"
      /\ MayAsk(w.calls[i]) /\ ~w.ran[i] /\ ~w.declined[i]
  BY <1>1, CallIsTrue DEF Receipt, History, Live
<1>3. ~Ended(w.st[i])
  BY <1>1 DEF Ended, Final
<1>4. CASE Approve(f, i)
  <2>1. work' = [work EXCEPT ![f].st[i] = "queued"]
    BY <1>4 DEF Approve, Set
  <2>2. Others(f) /\ Written(w, work'[f], i, "queued", w.ran[i], w.declined[i], w.core[i], w.disk[i])
    BY <1>1, <2>1, StatusWritten
  <2>3. w.calls[i] = "wrapped" => Receipt("queued", w.ran[i], w.core[i], w.disk[i])
    BY <1>2 DEF Receipt, Live
  <2>4. History(w.calls[i], "queued", w.ran[i], w.declined[i], w.cancelled)
    BY <1>2 DEF History
  <2> QED
    BY <1>1, <1>2, <1>3, <2>2, <2>3, <2>4, WrittenKeepsTruth
<1>5. CASE Decline(f, i)
  <2> DEFINE s == IF Kind(f, i) = "wrapped" THEN "recorded" ELSE "refused"
             c == IF w.core[i] = "started" THEN "not_run" ELSE w.core[i]
  <2>1. work' = [work EXCEPT ![f].declined[i] = TRUE, ![f].st[i] = s, ![f].core[i] = c]
    BY <1>5 DEF Decline
  <2>2. Others(f) /\ Written(w, work'[f], i, s, w.ran[i], TRUE, c, w.disk[i])
    <3> HIDE DEF s, c
    <3> QED
      BY <1>1, <2>1, DeclineWritten
  <2>3. w.calls[i] = "wrapped" => Receipt(s, w.ran[i], c, w.disk[i])
    BY <1>2 DEF Receipt, Live, Kind
  <2>4. History(w.calls[i], s, w.ran[i], TRUE, w.cancelled)
    BY <1>2 DEF History
  <2> HIDE DEF s, c
  <2> QED
    BY <1>1, <1>3, <2>2, <2>3, <2>4, WrittenKeepsTruth
<1> QED
  BY <1>4, <1>5

LEMMA StartKeepsTruth ==
  ASSUME ResultsInv, NEW f \in Frames, Start(f)
  PROVE  Truth'
<1> DEFINE w == work[f]
           i == w.at
<1>1. i <= w.end /\ w.st[i] = "waiting" /\ UNCHANGED <<pc, out, observed, refused>>
  BY DEF Start, Status, Elsewhere, BatchVars
<1>2. i \in DOMAIN w.calls
  BY <1>1 DEF ResultsInv, RunnerInv, FrameInv, Shape, Position, Frames
<1>3. ~w.ran[i] /\ ~w.declined[i] /\ w.disk[i] = w.disk[i]
      /\ (w.calls[i] = "wrapped" => w.disk[i] \notin {"completed", "interrupted"})
  BY <1>1, <1>2, CallIsTrue DEF Receipt, History, Live
<1>4. CASE Kind(f, i) = "wrapped"
  <2>1. work' = [work EXCEPT ![f].st[i] = "wrapping", ![f].core[i] = "not_run"]
    BY <1>4 DEF Start
  <2>2. Others(f) /\ Written(w, work'[f], i, "wrapping", w.ran[i], w.declined[i], "not_run", w.disk[i])
    <3> HIDE DEF i
    <3> QED
      BY <1>2, <2>1, CoreWritten
  <2>3. Receipt("wrapping", w.ran[i], "not_run", w.disk[i]) /\ History(w.calls[i], "wrapping", w.ran[i], w.declined[i], w.cancelled)
    BY <1>3, <1>4 DEF Receipt, History, Live, Kind
  <2> HIDE DEF i
  <2> QED
    BY <1>1, <1>2, <1>3, <2>2, <2>3, WrittenKeepsTruth DEF i
<1>5. CASE Kind(f, i) # "wrapped"
  <2>1. PICK s \in Admissions(Kind(f, i)) : work' = [work EXCEPT ![f].st[i] = s]
    BY <1>5 DEF Start, Set
  <2>2. Others(f) /\ Written(w, work'[f], i, s, w.ran[i], w.declined[i], w.core[i], w.disk[i])
    <3> HIDE DEF i
    <3> QED
      BY <1>2, <2>1, StatusWritten
  <2>3. History(w.calls[i], s, w.ran[i], w.declined[i], w.cancelled)
    BY <1>3, <2>1 DEF History, Admissions, Kind
  <2> HIDE DEF i
  <2> QED
    BY <1>1, <1>2, <1>3, <1>5, <2>2, <2>3, WrittenKeepsTruth DEF i, Kind
<1> QED
  BY <1>4, <1>5

LEMMA ExecuteKeepsTruth ==
  ASSUME ResultsInv, NEW f \in Frames, NEW i \in Indices(f), Execute(f, i)
  PROVE  Truth'
<1> DEFINE w == work[f]
<1>1. i \in DOMAIN w.calls /\ w.st[i] = "queued" /\ UNCHANGED <<pc, out, observed, refused>>
      /\ work' = [work EXCEPT ![f].st[i] = "running", ![f].ran[i] = TRUE]
  BY DEF Execute, Status, Indices, BatchVars
<1>2. Others(f) /\ Written(w, work'[f], i, "running", TRUE, w.declined[i], w.core[i], w.disk[i])
  BY <1>1, RunWritten
<1>3. /\ w.calls[i] = "wrapped" => w.core[i] = "started" /\ w.disk[i] = "started"
      /\ ~w.declined[i] /\ ~Ended(w.st[i])
  BY <1>1, CallIsTrue DEF Receipt, History, Ended, Final
<1>4. w.calls[i] = "wrapped" => Receipt("running", TRUE, w.core[i], w.disk[i])
  BY <1>3 DEF Receipt, Live, NoReceipt
<1>5. History(w.calls[i], "running", TRUE, w.declined[i], w.cancelled)
  BY <1>3 DEF History, Live
<1> QED
  BY <1>1, <1>2, <1>3, <1>4, <1>5, WrittenKeepsTruth

LEMMA EndKeepsTruth ==
  ASSUME ResultsInv, NEW f \in Frames, NEW i \in Indices(f), End(f, i)
  PROVE  Truth'
<1> DEFINE w == work[f]
<1>1. i \in DOMAIN w.calls /\ w.st[i] = "running" /\ UNCHANGED <<pc, out, observed, refused>>
  BY DEF End, Status, Indices, BatchVars
<1>2. /\ w.calls[i] = "wrapped" => w.ran[i] /\ w.core[i] = "started" /\ w.disk[i] = "started"
      /\ ~w.declined[i] /\ ~Ended(w.st[i])
  BY <1>1, CallIsTrue DEF Receipt, History, Live, Ended, Final
<1>3. CASE Kind(f, i) = "wrapped"
  <2>1. work' = [work EXCEPT ![f].st[i] = "recorded", ![f].core[i] = "completed"]
    BY <1>3 DEF End
  <2>2. Others(f) /\ Written(w, work'[f], i, "recorded", w.ran[i], w.declined[i], "completed", w.disk[i])
    BY <1>1, <2>1, CoreWritten
  <2>3. Receipt("recorded", w.ran[i], "completed", w.disk[i])
    BY <1>2, <1>3 DEF Receipt, Live, NoReceipt, Kind
  <2>4. History(w.calls[i], "recorded", w.ran[i], w.declined[i], w.cancelled)
    BY <1>2 DEF History
  <2> QED
    BY <1>1, <1>2, <2>2, <2>3, <2>4, WrittenKeepsTruth
<1>4. CASE Kind(f, i) # "wrapped"
  <2>1. PICK s \in {"ok", "failed"} : work' = [work EXCEPT ![f].st[i] = s]
    BY <1>4 DEF End, Set
  <2>2. Others(f) /\ Written(w, work'[f], i, s, w.ran[i], w.declined[i], w.core[i], w.disk[i])
    BY <1>1, <2>1, StatusWritten
  <2>3. History(w.calls[i], s, w.ran[i], w.declined[i], w.cancelled)
    BY <1>2 DEF History
  <2> QED
    BY <1>1, <1>2, <1>4, <2>2, <2>3, WrittenKeepsTruth DEF Kind
<1> QED
  BY <1>3, <1>4

LEMMA StoppedKeepsTruth ==
  ASSUME ResultsInv, NEW f \in Frames, NEW i \in Indices(f), Stopped(f, i)
  PROVE  Truth'
<1> DEFINE w == work[f]
           s == IF w.st[i] = "breaking" THEN "failed" ELSE "cancelled"
           c == IF w.core[i] = "started" THEN "interrupted" ELSE w.core[i]
           k == IF w.disk[i] = "started" THEN "interrupted" ELSE w.disk[i]
<1>1. i \in DOMAIN w.calls /\ w.st[i] \in {"stopping", "breaking"} /\ UNCHANGED <<pc, out, observed, refused>>
      /\ work' = [work EXCEPT ![f].st[i] = s, ![f].core[i] = c, ![f].disk[i] = k]
  BY DEF Stopped, Status, Indices, Elsewhere, BatchVars
<1>2. Others(f) /\ Written(w, work'[f], i, s, w.ran[i], w.declined[i], c, k)
  <2> HIDE DEF s, c, k
  <2> QED
    BY <1>1, ReceiptWritten
<1>3. /\ w.calls[i] = "wrapped" => w.ran[i] /\ w.core[i] = "started" /\ w.disk[i] = "started"
      /\ ~w.declined[i] /\ ~Ended(w.st[i]) /\ (w.st[i] = "stopping" => w.cancelled)
  BY <1>1, CallIsTrue DEF Receipt, History, Live, Ended, Final
<1>4. w.calls[i] = "wrapped" => Receipt(s, w.ran[i], c, k)
  BY <1>1, <1>3 DEF Receipt, Live, NoReceipt
<1>5. History(w.calls[i], s, w.ran[i], w.declined[i], w.cancelled)
  BY <1>1, <1>3 DEF History
<1> HIDE DEF s, c, k
<1> QED
  BY <1>1, <1>2, <1>3, <1>4, <1>5, WrittenKeepsTruth

\* The steps of an intercepted call.
LEMMA WrappedKeepsTruth ==
  ASSUME ResultsInv, NEW f \in Frames, NEW i \in Indices(f),
         \/ AnswerInstead(f, i) \/ CallNext(f, i) \/ AdmitRecorded(f, i)
         \/ HandlerBreaks(f, i) \/ Relay(f, i) \/ Settle(f, i)
  PROVE  Truth'
<1> DEFINE w == work[f]
<1>1. /\ i \in DOMAIN w.calls /\ w.calls[i] = "wrapped" /\ UNCHANGED <<pc, out, observed, refused>>
      /\ w.st[i] \in {"wrapping", "recording", "asking", "queued", "running", "recorded", "relaying"}
  BY DEF AnswerInstead, CallNext, AdmitRecorded, HandlerBreaks, Relay, Settle, Wrapped, Status, Kind, Indices,
         Elsewhere, BatchVars
<1>2. /\ Receipt(w.st[i], w.ran[i], w.core[i], w.disk[i])
      /\ History("wrapped", w.st[i], w.ran[i], w.declined[i], w.cancelled)
      /\ w.ran[i] \in BOOLEAN /\ w.declined[i] \in BOOLEAN
  BY <1>1, CallIsTrue
<1>3. ~Ended(w.st[i])
  BY <1>1 DEF Ended, Final
<1>4. CASE AnswerInstead(f, i)
  <2>1. PICK s \in {"ok", "failed"} : work' = [work EXCEPT ![f].st[i] = s, ![f].disk[i] = "not_run"]
    BY <1>4 DEF AnswerInstead
  <2>2. Others(f) /\ Written(w, work'[f], i, s, w.ran[i], w.declined[i], w.core[i], "not_run")
    BY <1>1, <2>1, DiskWritten
  <2>3. w.st[i] = "wrapping" /\ ~w.ran[i] /\ ~w.declined[i]
    BY <1>2, <1>4 DEF AnswerInstead, Wrapped, Status, Receipt, History
  <2>4. Receipt(s, w.ran[i], w.core[i], "not_run") /\ History("wrapped", s, w.ran[i], w.declined[i], w.cancelled)
    BY <2>1, <2>3 DEF Receipt, History, Live
  <2> QED
    BY <1>1, <1>3, <2>2, <2>3, <2>4, WrittenKeepsTruth
<1>5. CASE CallNext(f, i)
  <2>1. work' = [work EXCEPT ![f].st[i] = "recording", ![f].core[i] = "started"]
    BY <1>5 DEF CallNext
  <2>2. Others(f) /\ Written(w, work'[f], i, "recording", w.ran[i], w.declined[i], "started", w.disk[i])
    BY <1>1, <2>1, CoreWritten
  <2>3. w.st[i] = "wrapping" /\ ~w.ran[i] /\ ~w.declined[i] /\ w.disk[i] \notin {"completed", "interrupted"}
    BY <1>2, <1>5 DEF CallNext, Wrapped, Status, Receipt, History
  <2>4. Receipt("recording", w.ran[i], "started", w.disk[i])
        /\ History("wrapped", "recording", w.ran[i], w.declined[i], w.cancelled)
    BY <2>3 DEF Receipt, History, Live
  <2> QED
    BY <1>1, <1>3, <2>2, <2>3, <2>4, WrittenKeepsTruth
<1>6. CASE AdmitRecorded(f, i)
  <2>1. PICK a \in Admissions("write") :
           work' = [work EXCEPT ![f].st[i] = IF a = "failed" THEN "recorded" ELSE a,
                                ![f].core[i] = IF a = "failed" THEN "not_run" ELSE @,
                                ![f].disk[i] = "started"]
    BY <1>6 DEF AdmitRecorded
  <2> DEFINE s == IF a = "failed" THEN "recorded" ELSE a
             c == IF a = "failed" THEN "not_run" ELSE w.core[i]
  <2>2. work' = [work EXCEPT ![f].st[i] = s, ![f].core[i] = c, ![f].disk[i] = "started"]
    BY <2>1
  <2>3. Others(f) /\ Written(w, work'[f], i, s, w.ran[i], w.declined[i], c, "started")
    <3> HIDE DEF s, c
    <3> QED
      BY ZenonT(60), <1>1, <2>2, ReceiptWritten
  <2>4. w.st[i] = "recording" /\ ~w.ran[i] /\ ~w.declined[i] /\ w.core[i] = "started"
    BY <1>2, <1>6 DEF AdmitRecorded, Wrapped, Status, Receipt, History
  <2>5. s \in {"recorded", "queued", "asking"} /\ c = IF s = "recorded" THEN "not_run" ELSE "started"
    BY <2>4 DEF Admissions, MayAsk
  <2> HIDE DEF s, c
  <2>6. Receipt(s, w.ran[i], c, "started") /\ History("wrapped", s, w.ran[i], w.declined[i], w.cancelled)
    BY <2>4, <2>5 DEF Receipt, History, Live, MayAsk
  <2> QED
    BY <1>1, <1>3, <2>3, <2>4, <2>6, WrittenKeepsTruth
<1>7. CASE HandlerBreaks(f, i)
  <2> DEFINE s == IF w.st[i] = "running" THEN "breaking" ELSE "failed"
             c == IF w.st[i] \in {"asking", "queued"} THEN "not_run" ELSE "started"
  <2>1. /\ work' = [work EXCEPT ![f].st[i] = s, ![f].core[i] = c, ![f].disk[i] = c]
        /\ w.st[i] \in {"recording", "asking", "queued", "running"}
    BY <1>7 DEF HandlerBreaks, Wrapped, Status
  <2>2. Others(f) /\ Written(w, work'[f], i, s, w.ran[i], w.declined[i], c, c)
    <3> HIDE DEF s, c
    <3> QED
      BY <1>1, <2>1, ReceiptWritten
  <2>3. ~w.declined[i] /\ (w.ran[i] <=> w.st[i] = "running")
    BY <1>2, <2>1 DEF Receipt, History, Live
  <2>4. Receipt(s, w.ran[i], c, c) /\ History("wrapped", s, w.ran[i], w.declined[i], w.cancelled)
    BY <2>1, <2>3 DEF Receipt, History, Live, NoReceipt
  <2> HIDE DEF s, c
  <2> QED
    BY <1>1, <1>3, <2>2, <2>3, <2>4, WrittenKeepsTruth
<1>8. CASE Relay(f, i)
  <2>1. work' = [work EXCEPT ![f].st[i] = "relaying", ![f].disk[i] = w.core[i]] /\ w.st[i] = "recorded"
    BY <1>8 DEF Relay, Wrapped, Status
  <2>2. Others(f) /\ Written(w, work'[f], i, "relaying", w.ran[i], w.declined[i], w.core[i], w.core[i])
    BY <1>1, <2>1, DiskWritten
  <2>3. Receipt("relaying", w.ran[i], w.core[i], w.core[i])
    BY <1>2, <2>1 DEF Receipt, Live, NoReceipt
  <2>4. History("wrapped", "relaying", w.ran[i], w.declined[i], w.cancelled)
    BY <1>2, <2>1 DEF History
  <2>5. w.st[i] # "failed"
    BY <2>1
  <2> QED
    BY <1>1, <1>3, <2>2, <2>3, <2>4, <2>5, WrittenKeepsTruth
<1>9. CASE Settle(f, i)
  <2>1. PICK s \in {IF w.declined[i] THEN "refused" ELSE "ok", "failed"} : work' = [work EXCEPT ![f].st[i] = s]
    BY <1>9 DEF Settle, Set
  <2>2. Others(f) /\ Written(w, work'[f], i, s, w.ran[i], w.declined[i], w.core[i], w.disk[i])
    BY <1>1, <2>1, StatusWritten
  <2>3. w.st[i] = "relaying"
    BY <1>9 DEF Settle, Wrapped, Status
  <2>4. Receipt(s, w.ran[i], w.core[i], w.disk[i])
    BY <1>2, <2>1, <2>3 DEF Receipt, Live, NoReceipt
  <2>5. History("wrapped", s, w.ran[i], w.declined[i], w.cancelled)
    BY <1>2, <2>1, <2>3 DEF History
  <2> QED
    BY <1>1, <1>3, <2>2, <2>3, <2>4, <2>5, WrittenKeepsTruth
<1> QED
  BY SMTT(40), <1>4, <1>5, <1>6, <1>7, <1>8, <1>9

-----------------------------------------------------------------------------
(* Answering.                                                              *)

LEMMA Concatenated ==
  ASSUME NEW a \in Seq(Nat), NEW b \in Seq(Nat)
  PROVE  /\ a \o b \in Seq(Nat) /\ Len(a \o b) = Len(a) + Len(b)
         /\ \A i \in 1 .. Len(a) + Len(b) : (a \o b)[i] = IF i <= Len(a) THEN a[i] ELSE b[i - Len(a)]
  OBVIOUS

LEMMA MessagesAppended ==
  ASSUME NEW first \in Nat, NEW last \in Nat, 1 <= first, first <= last, NEW answers, Counts(answers, first - 1),
         NEW more \in Seq(Nat), Len(more) = last - first + 1, \A k \in 1 .. last - first + 1 : more[k] = first + k - 1
  PROVE  Counts(answers \o more, last)
<1>1. answers \in Seq(Nat) /\ Len(answers) = first - 1 /\ \A i \in 1 .. first - 1 : answers[i] = i
  BY DEF Counts
<1>2. answers \o more \in Seq(Nat) /\ Len(answers \o more) = Len(answers) + Len(more)
  BY <1>1, Concatenated
<1>4. Len(answers \o more) = last
  BY <1>1, <1>2
<1>3. ASSUME NEW i \in 1 .. last PROVE (answers \o more)[i] = i
  <2>1. CASE i <= first - 1
    BY <1>1, <2>1
  <2>2. CASE i > first - 1
    <3>1. (answers \o more)[i] = more[i - Len(answers)]
      <4>1. i \in 1 .. Len(answers) + Len(more) /\ ~(i <= Len(answers))
        BY <1>1, <2>2
      <4>2. (answers \o more)[i] = IF i <= Len(answers) THEN answers[i] ELSE more[i - Len(answers)]
        BY <1>1, <4>1, Concatenated
      <4> QED
        BY <4>1, <4>2
    <3>2. i - Len(answers) \in 1 .. last - first + 1
      BY <1>1, <2>2
    <3> QED
      BY <1>1, <3>1, <3>2
  <2>3. i <= first - 1 \/ i > first - 1
    OBVIOUS
  <2> QED
    BY <2>1, <2>2, <2>3, Zenon
<1> QED
  BY <1>2, <1>3, <1>4 DEF Counts

LEMMA MessageAppended ==
  ASSUME NEW first \in Nat, 1 <= first, NEW answers, Counts(answers, first - 1)
  PROVE  Counts(Append(answers, first), first)
<1>1. answers \in Seq(Nat) /\ Len(answers) = first - 1 /\ \A i \in 1 .. first - 1 : answers[i] = i
  BY DEF Counts
<1>2. Append(answers, first) \in Seq(Nat) /\ Len(Append(answers, first)) = first
  BY <1>1
<1>3. ASSUME NEW i \in 1 .. first PROVE Append(answers, first)[i] = i
  <2>1. CASE i = first
    BY <1>1, <2>1
  <2>2. CASE i # first
    <3>1. i \in 1 .. first - 1 /\ i \in 1 .. Len(answers)
      BY <1>1, <2>2
    <3>2. Append(answers, first)[i] = answers[i]
      BY <1>1, <3>1
    <3> QED
      BY <1>1, <3>1, <3>2
  <2> QED
    BY <2>1, <2>2
<1> QED
  BY <1>2, <1>3 DEF Counts

\* Later observations follow the earlier ones.
LEMMA ObservationAppended ==
  ASSUME NEW looks \in Seq(Nat), NEW i \in Nat, \A n \in DOMAIN looks : looks[n] < i,
         \A m, n \in DOMAIN looks : m < n => looks[m] < looks[n]
  PROVE  LET more == Append(looks, i)
         IN /\ more \in Seq(Nat)
            /\ {more[n] : n \in DOMAIN more} = {looks[n] : n \in DOMAIN looks} \cup {i}
            /\ \A m, n \in DOMAIN more : m < n => more[m] < more[n]
<1> DEFINE more == Append(looks, i)
<1>1. more \in Seq(Nat) /\ DOMAIN more = 1 .. Len(looks) + 1 /\ DOMAIN looks = 1 .. Len(looks) /\ Len(looks) \in Nat
  OBVIOUS
<1>2. more[Len(looks) + 1] = i /\ \A n \in DOMAIN looks : more[n] = looks[n]
  OBVIOUS
<1> HIDE DEF more
<1>3. {more[n] : n \in DOMAIN more} = {looks[n] : n \in DOMAIN looks} \cup {i}
  <2>1. ASSUME NEW n \in DOMAIN more PROVE more[n] \in {looks[m] : m \in DOMAIN looks} \cup {i}
    <3>1. n \in DOMAIN looks \/ n = Len(looks) + 1
      BY <1>1
    <3> QED
      BY <1>2, <3>1
  <2>2. ASSUME NEW n \in DOMAIN looks PROVE looks[n] \in {more[m] : m \in DOMAIN more}
    <3>1. n \in DOMAIN more
      BY <1>1
    <3> QED
      BY <1>2, <3>1
  <2>3. i \in {more[m] : m \in DOMAIN more}
    <3>1. Len(looks) + 1 \in DOMAIN more
      BY <1>1
    <3> QED
      BY <1>2, <3>1
  <2> QED
    BY <2>1, <2>2, <2>3
<1>4. ASSUME NEW m \in DOMAIN more, NEW n \in DOMAIN more, m < n PROVE more[m] < more[n]
  <2>1. m \in DOMAIN looks
    BY <1>1, <1>4
  <2>2. CASE n \in DOMAIN looks
    BY <1>2, <1>4, <2>1, <2>2
  <2>3. CASE n = Len(looks) + 1
    BY <1>2, <2>1, <2>3
  <2> QED
    BY <1>1, <2>2, <2>3
<1> QED
  BY <1>1, <1>3, <1>4 DEF more

\* A segment, or the current call of a serial one, is answered.
Answered(w, v, last) ==
    /\ v.calls = w.calls /\ v.end = w.end /\ v.parallel = w.parallel /\ v.cancelled = w.cancelled
    /\ v.st = w.st /\ v.ran = w.ran /\ v.declined = w.declined /\ v.core = w.core /\ v.disk = w.disk
    /\ v.at = last + 1

LEMMA AnsweredKeepsFrame ==
  ASSUME NEW w, FrameInv(w), FrameTruth(w), w.at <= w.end, NEW v,
         NEW last, last = (IF w.parallel THEN w.end ELSE w.at), Answered(w, v, last)
  PROVE  FrameTruth(v)
<1>1. w.at \in Nat /\ w.end \in Nat /\ last \in Nat /\ w.at <= last
  BY DEF FrameInv, Shape
<1>2. CallTypes(v) /\ Receipts(v) /\ Histories(v)
  BY DEF FrameTruth, CallTypes, Receipts, Histories, Answered
<1>3. Segment(v)
  <2> SUFFICES ASSUME ~w.parallel, last + 1 < w.end, NEW k \in last + 1 .. w.end
               PROVE  ~EditBarrier(w.calls[k])
    BY DEF Segment, Answered
  <2>1. w.at < w.end /\ k \in w.at .. w.end
    BY <1>1
  <2> QED
    BY <2>1 DEF FrameTruth, Segment
<1> QED
  BY <1>2, <1>3 DEF FrameTruth

LEMMA AnsweredKeepsRefusals ==
  ASSUME NEW w, FrameInv(w), FrameTruth(w), w.at <= w.end, NEW v,
         NEW last, last = (IF w.parallel THEN w.end ELSE w.at), Answered(w, v, last),
         NEW known \in BOOLEAN, Refusals(w, known)
  PROVE  Refusals(v, known \/ w.st[w.at] = "refused")
<1>1. /\ w.at \in Nat /\ w.end \in Nat /\ last \in Nat /\ w.at <= last /\ last <= w.end /\ w.parallel \in BOOLEAN
      /\ DOMAIN w.calls = 1 .. Len(w.calls) /\ Len(w.calls) \in Nat
  BY DEF FrameInv, Shape
<1> SUFFICES ASSUME NEW a \in DOMAIN w.calls, w.declined[a], w.st[a] # "failed"
             PROVE  /\ \A j \in DOMAIN w.calls : a < j /\ (w.ran[j] \/ (last + 1 <= j /\ j <= w.end)) =>
                          \A k \in a .. j : ~EditBarrier(w.calls[k])
                    /\ w.st[a] = "refused" /\ a < last + 1 => known \/ w.st[w.at] = "refused"
  BY DEF Refusals, Answered
<1>2. ASSUME NEW j \in DOMAIN w.calls, a < j, w.ran[j] \/ (last + 1 <= j /\ j <= w.end)
      PROVE  \A k \in a .. j : ~EditBarrier(w.calls[k])
  <2>1. w.ran[j] \/ (w.at <= j /\ j <= w.end)
    BY <1>1, <1>2
  <2> QED
    BY <1>2, <2>1 DEF Refusals
<1>3. ASSUME w.st[a] = "refused", a < last + 1
      PROVE  known \/ w.st[w.at] = "refused"
  <2>1. CASE a < w.at
    BY <1>3, <2>1 DEF Refusals
  <2>2. CASE a = w.at
    BY <1>3, <2>2
  <2>3. CASE a > w.at
    <3>1. w.parallel
      BY <1>1, <1>3, <2>3
    <3>2. ParallelSafe(w.calls[a])
      BY <1>1, <1>3, <2>3, <3>1 DEF FrameInv, Position
    <3>3. MayAsk(w.calls[a])
      BY DEF FrameTruth, Histories, History
    <3> QED
      BY <3>2, <3>3 DEF ParallelSafe, MayAsk
  <2> QED
    BY <1>1, <2>1, <2>2, <2>3
<1> QED
  BY <1>2, <1>3

LEMMA AnsweredKeepsMessages ==
  ASSUME NEW w, FrameInv(w), FrameTruth(w), w.at <= w.end, NEW v,
         NEW last, last = (IF w.parallel THEN w.end ELSE w.at), Answered(w, v, last),
         NEW answers, NEW looks, Messages(w, answers, looks)
  PROVE  Messages(v, answers \o [k \in 1 .. last - w.at + 1 |-> w.at + k - 1],
                  IF w.calls[w.at] = "look" /\ w.st[w.at] = "ok" THEN Append(looks, w.at) ELSE looks)
<1>1. /\ w.at \in Nat /\ w.end \in Nat /\ last \in Nat /\ w.at <= last /\ last <= w.end /\ w.parallel \in BOOLEAN
      /\ DOMAIN w.calls = 1 .. Len(w.calls) /\ Len(w.calls) \in Nat /\ 1 <= w.at /\ w.at \in DOMAIN w.calls
  BY DEF FrameInv, Shape, Position
<1> DEFINE more == [k \in 1 .. last - w.at + 1 |-> w.at + k - 1]
<1>2. Counts(answers \o more, v.at - 1)
  <2>1. v.at - 1 = last
    BY <1>1 DEF Answered
  <2>2. /\ more \in Seq(Nat) /\ Len(more) = last - w.at + 1
        /\ \A k \in 1 .. last - w.at + 1 : more[k] = w.at + k - 1
    <3>1. last - w.at + 1 \in Nat /\ \A k \in 1 .. last - w.at + 1 : w.at + k - 1 \in Nat
      BY <1>1
    <3> QED
      BY <3>1
  <2>3. Counts(answers, w.at - 1)
    BY DEF Messages
  <2> HIDE DEF more
  <2>4. Counts(answers \o more, last)
    BY <1>1, <2>2, <2>3, MessagesAppended
  <2> QED
    BY <2>1, <2>4
<1> HIDE DEF more
<1> DEFINE looked == w.calls[w.at] = "look" /\ w.st[w.at] = "ok"
<1>3. Looked(v) = IF looked THEN Looked(w) \cup {w.at} ELSE Looked(w)
  <2>1. CASE w.parallel
    <3>1. \A k \in DOMAIN w.calls : w.at <= k /\ k <= last => w.calls[k] # "look"
      BY <1>1, <2>1 DEF FrameInv, Position, ParallelSafe
    <3>2. ~looked
      BY <1>1, <3>1
    <3>3. \A k \in DOMAIN w.calls : k < last + 1 /\ ~(k < w.at) => w.at <= k /\ k <= last
      BY <1>1
    <3>4. \A k \in DOMAIN w.calls : k < w.at => k < last + 1
      BY <1>1
    <3> QED
      BY <3>1, <3>2, <3>3, <3>4 DEF Looked, Answered
  <2>2. CASE ~w.parallel
    <3>1. \A k \in DOMAIN w.calls : k < last + 1 <=> k < w.at \/ k = w.at
      BY <1>1, <2>2
    <3> QED
      BY <1>1, <3>1 DEF Looked, Answered
  <2> QED
    BY <1>1, <2>1, <2>2
<1>4. /\ looks \in Seq(Nat) /\ {looks[n] : n \in DOMAIN looks} = Looked(w)
      /\ \A m, n \in DOMAIN looks : m < n => looks[m] < looks[n]
  BY DEF Messages
<1>5. \A n \in DOMAIN looks : looks[n] < w.at
  <2> TAKE n \in DOMAIN looks
  <2>1. looks[n] \in Looked(w)
    BY <1>4
  <2> QED
    BY <2>1 DEF Looked
<1>6. CASE looked
  <2> DEFINE seen == Append(looks, w.at)
  <2>1. /\ seen \in Seq(Nat)
        /\ {seen[n] : n \in DOMAIN seen} = {looks[n] : n \in DOMAIN looks} \cup {w.at}
        /\ \A m, n \in DOMAIN seen : m < n => seen[m] < seen[n]
    BY <1>1, <1>4, <1>5, ObservationAppended
  <2> HIDE DEF seen
  <2>2. {seen[n] : n \in DOMAIN seen} = Looked(v)
    BY <1>3, <1>4, <1>6, <2>1
  <2>3. Messages(v, answers \o more, seen)
    BY <1>2, <2>1, <2>2 DEF Messages
  <2> QED
    BY <1>6, <2>3 DEF seen, more
<1>7. CASE ~looked
  <2>1. {looks[n] : n \in DOMAIN looks} = Looked(v)
    BY <1>3, <1>4, <1>7
  <2>2. Messages(v, answers \o more, looks)
    BY <1>2, <1>4, <2>1 DEF Messages
  <2> QED
    BY <1>7, <2>2 DEF more
<1> QED
  BY <1>6, <1>7

\* The task of a frame goes on only while run() does.
LEMMA ActiveIsUnderWay == ASSUME ResultsInv, NEW f \in Frames, Active(f) PROVE pc # "returned"
<1>1. f = "nested" => RunsScript(work["batch"])
  BY DEF Active, ResultsInv, RunnerInv, Agreement, Frames
<1>2. f = "nested" => ~Quiet(work["batch"])
  BY <1>1, QuietRunsNoScript
<1> QED
  BY <1>2 DEF Active, ResultsInv, RunnerInv, Agreement, Frames

LEMMA PublishKeepsTruth ==
  ASSUME ResultsInv, NEW f \in Frames, Publish(f)
  PROVE  Truth'
<1> DEFINE w == work[f]
           v == work'[f]
           last == IF w.parallel THEN w.end ELSE w.at
<1>1. w.at <= w.end /\ work' = [work EXCEPT ![f].at = last + 1] /\ pc' = pc /\ pc # "returned"
  BY ActiveIsUnderWay DEF Publish
<1>2. FrameInv(w) /\ FrameTruth(w) /\ DOMAIN work = Frames
  BY DEF ResultsInv, RunnerInv, Truth, BatchTruth, Frames
<1>3. Others(f) /\ Answered(w, v, last)
  <2> HIDE DEF last
  <2> QED
    BY <1>1, <1>2 DEF FrameInv, Shape, Others, Answered
<1>4. FrameTruth(v)
  <2> HIDE DEF v
  <2> QED
    BY <1>1, <1>2, <1>3, AnsweredKeepsFrame
<1>5. CASE f = "batch"
  <2>1. Refusals(w, refused) /\ Messages(w, out, observed) /\ refused \in BOOLEAN
    BY SMTT(40), <1>5 DEF ResultsInv, Truth, BatchTruth
  <2>2. /\ out' = out \o [k \in 1 .. last - w.at + 1 |-> w.at + k - 1]
        /\ observed' = IF w.calls[w.at] = "look" /\ w.st[w.at] = "ok" THEN Append(observed, w.at) ELSE observed
        /\ refused' = (refused \/ w.st[w.at] = "refused")
    BY <1>5 DEF Publish, Status, Kind
  <2>3. work'["nested"] = work["nested"]
    BY <1>3, <1>5 DEF Others, Frames
  <2>6. refused' \in BOOLEAN
    BY <2>2
  <2> HIDE DEF v
  <2>4. Refusals(v, refused')
    BY <1>1, <1>2, <1>3, <2>1, <2>2, AnsweredKeepsRefusals
  <2>5. Messages(v, out', observed')
    BY <1>1, <1>2, <1>3, <2>1, <2>2, AnsweredKeepsMessages
  <2> QED
    BY <1>1, <1>4, <1>5, <2>3, <2>4, <2>5, <2>6 DEF ResultsInv, Truth, BatchTruth, v
<1>6. CASE f = "nested"
  <2>1. work'["batch"] = work["batch"]
    BY <1>3, <1>6 DEF Others, Frames
  <2>2. UNCHANGED <<out, observed, refused>>
    BY <1>6 DEF Publish
  <2> QED
    BY <1>1, <1>4, <1>6, <2>1, <2>2 DEF ResultsInv, Truth, BatchTruth
<1> QED
  BY <1>5, <1>6 DEF Frames

\* A call that is skipped or echoed has neither run nor been declined, and it shows nothing.
LEMMA SkipKeepsTruth ==
  ASSUME ResultsInv, Skip \/ Echo
  PROVE  Truth'
<1> DEFINE w == work["batch"]
           v == work'["batch"]
           i == w.at
<1>1. PICK s \in {"skipped", "ok"} :
         /\ work' = [work EXCEPT !["batch"].st[i] = s, !["batch"].at = i + 1, !["batch"].end = w.end + 1]
         /\ s = "ok" => w.calls[i] = "builtin"
  BY DEF Skip, Echo, Kind
<1>2. /\ out' = Append(out, i) /\ UNCHANGED <<pc, observed, refused>>
      /\ i = w.end + 1 /\ i \in DOMAIN w.calls /\ Active("batch")
  BY DEF Skip, Echo, AtSegment, Indices
<1>3. FrameInv(w) /\ FrameTruth(w) /\ DOMAIN work = Frames /\ "batch" \in Frames
      /\ Refusals(w, refused) /\ Messages(w, out, observed) /\ refused \in BOOLEAN /\ FrameTruth(work["nested"])
  BY DEF ResultsInv, RunnerInv, Truth, BatchTruth, Frames
<1>4. DOMAIN w.calls = 1 .. Len(w.calls) /\ Len(w.calls) \in Nat /\ w.at \in Nat /\ w.end \in Nat /\ 1 <= i
  BY <1>3 DEF FrameInv, Shape, Position
<1>5. /\ v.at = i + 1 /\ v.end = i /\ v.calls = w.calls
      /\ v.parallel = w.parallel /\ v.cancelled = w.cancelled /\ v.st = [w.st EXCEPT ![i] = s]
      /\ v.ran = w.ran /\ v.declined = w.declined /\ v.core = w.core /\ v.disk = w.disk
  BY <1>1, <1>2, <1>3 DEF FrameInv, Shape, Frames
<1>6. work'["nested"] = work["nested"]
  BY <1>1, <1>3 DEF Frames
<1>7. v.st[i] = s /\ \A k \in DOMAIN w.calls : k # i => v.st[k] = w.st[k]
  BY <1>2, <1>3, <1>5 DEF FrameInv, Shape
<1>8. w.st[i] = "waiting" /\ ~w.ran[i] /\ ~w.declined[i]
  <2>1. w.st[i] = "waiting"
    BY <1>2, <1>3, <1>4 DEF FrameInv, Position
  <2>2. w.ran[i] \in BOOLEAN /\ w.declined[i] \in BOOLEAN
    BY <1>2, <1>3 DEF FrameTruth, CallTypes
  <2> QED
    BY <1>2, <1>3, <2>1, <2>2 DEF FrameTruth, Histories, History, Live
<1> HIDE DEF v, i
<1>9. FrameTruth(v)
  <2>1. CallTypes(v)
    BY <1>3, <1>5 DEF FrameTruth, CallTypes
  <2>2. Receipts(v)
    <3> SUFFICES ASSUME NEW k \in DOMAIN w.calls, w.calls[k] = "wrapped"
                 PROVE  Receipt(v.st[k], w.ran[k], w.core[k], w.disk[k])
      BY <1>5 DEF Receipts
    <3>1. Receipt(w.st[k], w.ran[k], w.core[k], w.disk[k])
      BY <1>3 DEF FrameTruth, Receipts
    <3>2. CASE k = i
      BY <1>1, <1>7, <1>8, <3>1, <3>2 DEF Receipt, Live
    <3>3. CASE k # i
      BY <1>7, <3>1, <3>3
    <3> QED
      BY <3>2, <3>3
  <2>3. Histories(v)
    <3> SUFFICES ASSUME NEW k \in DOMAIN w.calls
                 PROVE  History(w.calls[k], v.st[k], w.ran[k], w.declined[k], w.cancelled)
      BY <1>5 DEF Histories
    <3>1. History(w.calls[k], w.st[k], w.ran[k], w.declined[k], w.cancelled)
      BY <1>3 DEF FrameTruth, Histories
    <3>2. CASE k = i
      BY <1>1, <1>7, <1>8, <3>2 DEF History
    <3>3. CASE k # i
      BY <1>7, <3>1, <3>3
    <3> QED
      BY <3>2, <3>3
  <2>4. Segment(v)
    BY <1>4, <1>5 DEF Segment, i
  <2> QED
    BY <2>1, <2>2, <2>3, <2>4 DEF FrameTruth
<1>10. Refusals(v, refused)
  <2> SUFFICES ASSUME NEW a \in DOMAIN w.calls, w.declined[a], v.st[a] # "failed"
               PROVE  /\ \A j \in DOMAIN w.calls : a < j /\ (w.ran[j] \/ (i + 1 <= j /\ j <= i)) =>
                            \A k \in a .. j : ~EditBarrier(w.calls[k])
                      /\ v.st[a] = "refused" /\ a < i + 1 => refused
    BY <1>5 DEF Refusals
  <2>1. a # i /\ v.st[a] = w.st[a]
    BY <1>7, <1>8
  <2>2. \A j \in DOMAIN w.calls : ~(i + 1 <= j /\ j <= i)
    BY <1>4 DEF i
  <2>3. a < i + 1 => a < w.at
    BY <1>4, <2>1 DEF i
  <2> QED
    BY <1>3, <2>1, <2>2, <2>3 DEF Refusals
<1>11. Messages(v, out', observed)
  <2>1. Counts(out', i)
    BY <1>2, <1>3, <1>4, MessageAppended DEF Messages, i
  <2>2. v.at - 1 = i
    BY <1>4, <1>5 DEF i
  <2>3. Looked(v) = Looked(w)
    <3>1. ASSUME NEW k \in DOMAIN w.calls
          PROVE  k < i + 1 /\ w.calls[k] = "look" /\ v.st[k] = "ok" <=> k < i /\ w.calls[k] = "look" /\ w.st[k] = "ok"
      <4>1. CASE k = i
        BY <1>1, <1>4, <1>7, <4>1 DEF i
      <4>2. CASE k # i
        <5>1. k < i + 1 <=> k < i
          BY <1>4, <4>2 DEF i
        <5> QED
          BY <1>7, <4>2, <5>1
      <4> QED
        BY <4>1, <4>2
    <3>2. v.calls = w.calls /\ v.at = i + 1 /\ w.at = i
      BY <1>5 DEF i
    <3> HIDE DEF w
    <3> QED
      BY <3>1, <3>2 DEF Looked
  <2> QED
    BY <1>3, <2>1, <2>2, <2>3 DEF Messages
<1> QED
  BY <1>2, <1>3, <1>6, <1>9, <1>10, <1>11, ActiveIsUnderWay DEF Truth, BatchTruth, v

-----------------------------------------------------------------------------
(* Opening a segment.                                                      *)

\* At the border of two segments of a batch that goes on and was not refused, nothing is declined.
LEMMA NoneDeclined ==
  ASSUME NEW w, FrameInv(w), FrameTruth(w), w.at = w.end + 1, ~w.cancelled, Refusals(w, FALSE),
         NEW a \in DOMAIN w.calls, w.declined[a]
  PROVE  w.st[a] = "failed"
<1>1. DOMAIN w.calls = 1 .. Len(w.calls) /\ Len(w.calls) \in Nat /\ w.at \in Nat /\ w.end \in Nat
  BY DEF FrameInv, Shape
<1>2. w.st[a] \in {"refused", "recorded", "relaying", "failed", "cancelled"} /\ w.st[a] # "cancelled"
  BY DEF FrameTruth, Histories, History
<1>3. a < w.at
  BY <1>1, <1>2 DEF FrameInv, Position
<1>4. w.st[a] \in Final
  BY <1>3 DEF FrameInv, Position
<1>5. w.st[a] # "refused"
  BY <1>3 DEF Refusals
<1> QED
  BY <1>2, <1>4, <1>5 DEF Final

LEMMA OpenKeepsTruth ==
  ASSUME ResultsInv, NEW f \in Frames, AtSegment(f), f = "batch" => ~refused,
         NEW end \in work[f].at .. Len(work[f].calls),
         \/ OpenSerial(f, end) /\ (work[f].at < end => \A k \in work[f].at .. end : ~EditBarrier(work[f].calls[k]))
         \/ OpenParallel(f, end) /\ \A k \in work[f].at .. end : ParallelSafe(work[f].calls[k]),
         UNCHANGED <<pc, out, observed, refused>>
  PROVE  Truth'
<1> DEFINE w == work[f]
           v == work'[f]
<1>1. /\ FrameInv(w) /\ FrameTruth(w) /\ DOMAIN work = Frames /\ w.at = w.end + 1 /\ ~w.cancelled
      /\ Active(f)
  BY ActiveIsBusy DEF ResultsInv, RunnerInv, Truth, BatchTruth, AtSegment, Frames
<1>2. Others(f)
  BY <1>1 DEF OpenSerial, OpenParallel, Others
<1>3. /\ v.calls = w.calls /\ v.at = w.at /\ v.end = end /\ v.cancelled = w.cancelled
      /\ v.ran = w.ran /\ v.declined = w.declined /\ v.core = w.core /\ v.disk = w.disk
      /\ \/ /\ v.parallel = FALSE /\ v.st = w.st
            /\ w.at < end => \A k \in w.at .. end : ~EditBarrier(w.calls[k])
         \/ /\ v.parallel = TRUE /\ \A k \in w.at .. end : ParallelSafe(w.calls[k])
            /\ v.st = [i \in DOMAIN w.calls |-> IF i \in w.at .. end THEN "queued" ELSE w.st[i]]
  <2>1. CASE OpenSerial(f, end) /\ (w.at < end => \A k \in w.at .. end : ~EditBarrier(w.calls[k]))
    BY <1>1, <2>1 DEF OpenSerial, FrameInv, Shape
  <2>2. CASE OpenParallel(f, end) /\ \A k \in w.at .. end : ParallelSafe(w.calls[k])
    BY <1>1, <2>2 DEF OpenParallel, FrameInv, Shape, Indices
  <2> QED
    BY <2>1, <2>2
<1> HIDE DEF w, v
<1>4. DOMAIN w.calls = 1 .. Len(w.calls) /\ Len(w.calls) \in Nat /\ w.at \in Nat /\ w.end \in Nat /\ end \in Nat
  BY <1>1 DEF FrameInv, Shape, w
<1>5. ASSUME NEW k \in DOMAIN w.calls
      PROVE  \/ v.st[k] = w.st[k]
             \/ /\ v.st[k] = "queued" /\ w.st[k] = "waiting" /\ ParallelSafe(w.calls[k]) /\ ~(k < w.at)
                /\ ~w.ran[k] /\ ~w.declined[k]
  <2>1. CASE v.st[k] # w.st[k]
    <3>1. k \in w.at .. end /\ v.st[k] = "queued" /\ ParallelSafe(w.calls[k])
      BY <1>3, <1>5, <2>1
    <3>2. w.st[k] = "waiting" /\ ~(k < w.at)
      BY <1>1, <1>4, <1>5, <3>1 DEF FrameInv, Position
    <3>3. w.ran[k] \in BOOLEAN /\ w.declined[k] \in BOOLEAN
      BY <1>1, <1>5 DEF FrameTruth, CallTypes
    <3> QED
      BY <1>1, <1>5, <3>1, <3>2, <3>3 DEF FrameTruth, Histories, History, Live
  <2> QED
    BY <2>1
<1>6. FrameTruth(v)
  <2>1. CallTypes(v)
    BY <1>1, <1>3 DEF FrameTruth, CallTypes
  <2>2. Receipts(v)
    BY <1>1, <1>3, <1>5 DEF FrameTruth, Receipts, ParallelSafe
  <2>3. Histories(v)
    <3> SUFFICES ASSUME NEW k \in DOMAIN w.calls
                 PROVE  History(w.calls[k], v.st[k], w.ran[k], w.declined[k], w.cancelled)
      BY <1>3 DEF Histories
    <3>1. History(w.calls[k], w.st[k], w.ran[k], w.declined[k], w.cancelled)
      BY <1>1 DEF FrameTruth, Histories
    <3>2. CASE v.st[k] = w.st[k]
      BY <3>1, <3>2
    <3>3. CASE v.st[k] # w.st[k]
      BY <1>5, <3>3 DEF History
    <3> QED
      BY <3>2, <3>3
  <2>4. Segment(v)
    BY <1>3 DEF Segment
  <2> QED
    BY <2>1, <2>2, <2>3, <2>4 DEF FrameTruth
<1>7. CASE f = "batch"
  <2>1. Refusals(w, refused) /\ Messages(w, out, observed) /\ refused \in BOOLEAN /\ ~refused
    BY <1>7 DEF ResultsInv, Truth, BatchTruth, w
  <2>2. Refusals(w, FALSE)
    BY <2>1 DEF Refusals
  <2>3. Refusals(v, refused)
    <3> SUFFICES ASSUME NEW a \in DOMAIN w.calls, w.declined[a], v.st[a] # "failed"
                 PROVE  FALSE
      BY <1>3 DEF Refusals
    <3>1. v.st[a] = w.st[a]
      BY <1>5
    <3> QED
      BY <1>1, <2>2, <3>1, NoneDeclined
  <2>4. Looked(v) = Looked(w)
    <3>1. \A k \in DOMAIN w.calls : k < w.at => v.st[k] = w.st[k]
      BY <1>5
    <3> QED
      BY <1>3, <3>1 DEF Looked
  <2>5. Messages(v, out, observed)
    BY <1>3, <2>1, <2>4 DEF Messages
  <2>6. work'["nested"] = work["nested"]
    BY <1>2, <1>7 DEF Others, Frames
  <2> QED
    BY <1>1, <1>6, <1>7, <2>3, <2>5, <2>6, ActiveIsUnderWay DEF ResultsInv, Truth, BatchTruth, v
<1>8. CASE f = "nested"
  <2>1. work'["batch"] = work["batch"]
    BY <1>2, <1>8 DEF Others, Frames
  <2> QED
    BY <1>6, <1>8, <2>1 DEF ResultsInv, Truth, BatchTruth, v
<1> QED
  BY <1>7, <1>8 DEF Frames

LEMMA SegmentKeepsTruth ==
  ASSUME ResultsInv, OpenSegment \/ OpenNested
  PROVE  Truth'
<1>1. UNCHANGED <<pc, out, observed, refused>>
  BY DEF OpenSegment, OpenNested, Elsewhere, BatchVars, ScriptVars
<1>2. \A f \in Frames : DOMAIN work[f].calls = 1 .. Len(work[f].calls) /\ work[f].at \in Nat /\ Len(work[f].calls) \in Nat
  BY DEF ResultsInv, RunnerInv, FrameInv, Shape, Frames
<1>3. CASE OpenSegment
  <2> DEFINE i == work["batch"].at
             calls == work["batch"].calls
  <2>1. AtSegment("batch") /\ ~refused /\ i \in 1 .. Len(calls)
    BY <1>2, <1>3 DEF OpenSegment, AtSegment, Indices, Frames
  <2>2. PICK parallel \in i - 1 .. Len(calls) :
           /\ ParallelSegment(calls, i, parallel)
           /\ IF parallel > i /\ capacity > 1 THEN OpenParallel("batch", parallel)
              ELSE \E end \in i .. Len(calls) : SerialSegment(calls, i, end) /\ OpenSerial("batch", end)
    BY <1>3 DEF OpenSegment
  <2>3. CASE parallel > i /\ capacity > 1
    <3>1. parallel \in i .. Len(calls)
      BY <2>1, <2>3
    <3> QED
      BY <1>1, <2>1, <2>2, <2>3, <3>1, OpenKeepsTruth DEF ParallelSegment, Frames
  <2>4. CASE ~(parallel > i /\ capacity > 1)
    <3>1. PICK end \in i .. Len(calls) : SerialSegment(calls, i, end) /\ OpenSerial("batch", end)
      BY <2>2, <2>4
    <3>2. i < end => \A k \in i .. end : ~EditBarrier(calls[k])
      BY <2>1, <3>1 DEF SerialSegment
    <3> QED
      BY <1>1, <2>1, <3>1, <3>2, OpenKeepsTruth DEF Frames
  <2> QED
    BY <2>3, <2>4
<1>4. CASE OpenNested
  <2> DEFINE i == work["nested"].at
             calls == work["nested"].calls
  <2>1. AtSegment("nested") /\ i \in 1 .. Len(calls)
    BY <1>2, <1>4 DEF OpenNested, AtSegment, Indices, Frames
  <2>2. PICK parallel \in i - 1 .. Len(calls) :
           /\ ParallelSegment(calls, i, parallel)
           /\ IF work["nested"].many /\ parallel > i THEN OpenParallel("nested", parallel)
              ELSE OpenSerial("nested", i)
    BY <1>4 DEF OpenNested
  <2>3. CASE work["nested"].many /\ parallel > i
    <3>1. parallel \in i .. Len(calls)
      BY <2>1, <2>3
    <3> QED
      BY <1>1, <2>1, <2>2, <2>3, <3>1, OpenKeepsTruth DEF ParallelSegment, Frames
  <2>4. CASE ~(work["nested"].many /\ parallel > i)
    <3>1. i \in i .. Len(calls) /\ ~(i < i)
      BY <2>1
    <3> QED
      BY <1>1, <2>1, <2>2, <2>4, <3>1, OpenKeepsTruth DEF Frames
  <2> QED
    BY <2>3, <2>4
<1> QED
  BY <1>3, <1>4

-----------------------------------------------------------------------------
(* Batches, scripts and cancellation.                                      *)

LEMMA FreshIsTrue ==
  ASSUME NEW calls \in Seq(Kinds), NEW many, NEW known
  PROVE  /\ FrameTruth(Fresh(calls, many)) /\ Refusals(Fresh(calls, many), known)
         /\ Messages(Fresh(calls, many), <<>>, <<>>)
<1> DEFINE w == Fresh(calls, many)
<1>1. /\ w.calls = calls /\ w.at = 1 /\ w.end = 0 /\ w.parallel = FALSE /\ w.cancelled = FALSE
      /\ w.st = [i \in DOMAIN calls |-> "waiting"] /\ w.ran = [i \in DOMAIN calls |-> FALSE]
      /\ w.declined = [i \in DOMAIN calls |-> FALSE]
      /\ w.core = [i \in DOMAIN calls |-> NoReceipt] /\ w.disk = [i \in DOMAIN calls |-> NoReceipt]
  BY DEF Fresh
<1> HIDE DEF w
<1>2. /\ DOMAIN calls = 1 .. Len(calls) /\ Len(calls) \in Nat
      /\ \A i \in DOMAIN calls : /\ w.st[i] = "waiting" /\ w.ran[i] = FALSE /\ w.declined[i] = FALSE
                                 /\ w.disk[i] = NoReceipt
  BY <1>1
<1>3. CallTypes(w)
  BY <1>1 DEF CallTypes
<1>4. Receipts(w)
  BY <1>1, <1>2 DEF Receipts, Receipt, Live, NoReceipt
<1>5. Histories(w)
  BY <1>1, <1>2 DEF Histories, History
<1>6. Segment(w)
  BY <1>1 DEF Segment
<1>7. Refusals(w, known)
  BY <1>1, <1>2 DEF Refusals
<1>8. Looked(w) = {}
  BY <1>1, <1>2 DEF Looked
<1>9. Counts(<<>>, 0) /\ <<>> \in Seq(Nat) /\ DOMAIN <<>> = {}
  BY DEF Counts
<1>10. Messages(w, <<>>, <<>>)
  BY <1>1, <1>8, <1>9 DEF Messages
<1> QED
  BY <1>3, <1>4, <1>5, <1>6, <1>7, <1>10 DEF FrameTruth, w

LEMMA BeginKeepsTruth ==
  ASSUME ResultsInv, NEW calls \in Batches, Begin(calls)
  PROVE  Truth'
<1>1. calls \in Seq(Kinds) /\ <<>> \in Seq(Kinds)
  BY WellFormed
<1>2. /\ FrameTruth(Fresh(calls, FALSE)) /\ Refusals(Fresh(calls, FALSE), FALSE)
      /\ Messages(Fresh(calls, FALSE), <<>>, <<>>) /\ FrameTruth(Empty)
  BY <1>1, FreshIsTrue DEF Empty
<1>3. /\ work' = [work EXCEPT !["batch"] = Fresh(calls, FALSE), !["nested"] = Empty]
      /\ pc' = "running" /\ out' = <<>> /\ observed' = <<>> /\ refused' = FALSE
  BY DEF Begin
<1>4. work'["batch"] = Fresh(calls, FALSE) /\ work'["nested"] = Empty
  BY <1>3 DEF ResultsInv, RunnerInv, Frames
<1> QED
  BY <1>2, <1>3, <1>4 DEF Truth, BatchTruth

LEMMA SubmitKeepsTruth ==
  ASSUME ResultsInv, NEW r \in Requests, Submit(r)
  PROVE  Truth'
<1>1. r.calls \in Seq(NestedKinds)
  BY WellFormed
<1>2. r.calls \in Seq(Kinds)
  BY <1>1 DEF NestedKinds
<1>3. FrameTruth(Fresh(r.calls, r.many))
  BY <1>2, FreshIsTrue
<1>4. work'["batch"] = work["batch"] /\ work'["nested"] = Fresh(r.calls, r.many)
  BY DEF Submit, ResultsInv, RunnerInv, Frames
<1> QED
  BY <1>3, <1>4 DEF Submit, BatchVars, ResultsInv, Truth, BatchTruth

\* The cancelled frame: a status and its receipt go together whatever the call was doing.
LEMMA StopIsTrue ==
  ASSUME NEW w, FrameInv(w), FrameTruth(w)
  PROVE  /\ FrameTruth(Stop(w))
         /\ \A known : Refusals(w, known) => Refusals(Stop(w), known)
         /\ \A answers, looks : Messages(w, answers, looks) => Messages(Stop(w), answers, looks)
<1> DEFINE v == Stop(w)
           ends == {"asking", "queued", "wrapping", "recording", "recorded", "relaying"}
           Core(i) == IF w.st[i] \in {"asking", "queued"} /\ w.core[i] = "started" THEN "not_run" ELSE w.core[i]
<1>1. /\ v.calls = w.calls /\ v.at = w.at /\ v.end = w.end /\ v.parallel = w.parallel /\ v.cancelled = TRUE
      /\ v.ran = w.ran /\ v.declined = w.declined
      /\ v.st = [i \in DOMAIN w.st |-> IF w.st[i] \in ends THEN "cancelled"
                                       ELSE IF w.st[i] \in {"running", "breaking"} THEN "stopping" ELSE w.st[i]]
      /\ v.core = [i \in DOMAIN w.core |-> Core(i)]
      /\ v.disk = [i \in DOMAIN w.disk |-> IF w.st[i] \in ends THEN Core(i) ELSE w.disk[i]]
  BY DEF FrameInv, Shape, Stop
<1> HIDE DEF v
<1>2. /\ DOMAIN w.st = DOMAIN w.calls /\ DOMAIN w.core = DOMAIN w.calls /\ DOMAIN w.disk = DOMAIN w.calls
      /\ CallTypes(w)
  BY DEF FrameInv, Shape, FrameTruth, CallTypes
<1>3. ASSUME NEW i \in DOMAIN w.calls
      PROVE  /\ v.st[i] = IF w.st[i] \in ends THEN "cancelled"
                          ELSE IF w.st[i] \in {"running", "breaking"} THEN "stopping" ELSE w.st[i]
             /\ v.core[i] = Core(i)
             /\ v.disk[i] = IF w.st[i] \in ends THEN Core(i) ELSE w.disk[i]
             /\ w.ran[i] \in BOOLEAN /\ w.declined[i] \in BOOLEAN
  BY <1>1, <1>2, <1>3 DEF CallTypes
<1>4. CallTypes(v)
  BY <1>1, <1>2 DEF CallTypes
<1>5. Receipts(v)
  <2> SUFFICES ASSUME NEW i \in DOMAIN w.calls, w.calls[i] = "wrapped"
               PROVE  Receipt(v.st[i], w.ran[i], v.core[i], v.disk[i])
    BY <1>1 DEF Receipts
  <2>1. Receipt(w.st[i], w.ran[i], w.core[i], w.disk[i])
    BY DEF FrameTruth, Receipts
  <2>2. CASE w.st[i] \in {"asking", "queued"}
    BY <1>3, <2>1, <2>2 DEF Receipt, Live, NoReceipt
  <2>3. CASE w.st[i] \in {"wrapping", "recording"}
    BY <1>3, <2>1, <2>3 DEF Receipt, Live, NoReceipt
  <2>4. CASE w.st[i] \in {"recorded", "relaying"}
    BY <1>3, <2>1, <2>4 DEF Receipt, Live, NoReceipt
  <2>5. CASE w.st[i] \in {"running", "breaking"}
    BY <1>3, <2>1, <2>5 DEF Receipt, Live, NoReceipt
  <2>6. CASE w.st[i] \notin ends \cup {"running", "breaking"}
    <3>1. v.st[i] = w.st[i] /\ v.core[i] = w.core[i] /\ v.disk[i] = w.disk[i]
      BY <1>3, <2>6
    <3> QED
      BY <2>1, <3>1
  <2> QED
    BY <2>2, <2>3, <2>4, <2>5, <2>6
<1>6. Histories(v)
  <2> SUFFICES ASSUME NEW i \in DOMAIN w.calls
               PROVE  History(w.calls[i], v.st[i], w.ran[i], w.declined[i], TRUE)
    BY <1>1 DEF Histories
  <2>1. History(w.calls[i], w.st[i], w.ran[i], w.declined[i], w.cancelled)
    BY DEF FrameTruth, Histories
  <2> QED
    BY <1>3, <2>1 DEF History, Live
<1>7. Segment(v)
  BY <1>1 DEF FrameTruth, Segment
<1>8. ASSUME NEW known, Refusals(w, known)
      PROVE  Refusals(v, known)
  <2> SUFFICES ASSUME NEW a \in DOMAIN w.calls, w.declined[a], v.st[a] # "failed"
               PROVE  /\ \A j \in DOMAIN w.calls : a < j /\ (w.ran[j] \/ (w.at <= j /\ j <= w.end)) =>
                            \A k \in a .. j : ~EditBarrier(w.calls[k])
                      /\ v.st[a] = "refused" /\ a < w.at => known
    BY <1>1 DEF Refusals
  <2>1. w.st[a] # "failed" /\ (v.st[a] = "refused" => w.st[a] = "refused")
    BY <1>3
  <2> QED
    BY <1>8, <2>1 DEF Refusals
<1>9. ASSUME NEW answers, NEW looks, Messages(w, answers, looks)
      PROVE  Messages(v, answers, looks)
  <2>1. \A i \in DOMAIN w.calls : v.st[i] = "ok" <=> w.st[i] = "ok"
    BY <1>3
  <2>2. Looked(v) = Looked(w)
    BY <1>1, <2>1 DEF Looked
  <2> QED
    BY <1>1, <1>9, <2>2 DEF Messages
<1> QED
  BY <1>4, <1>5, <1>6, <1>7, <1>8, <1>9 DEF FrameTruth, v

LEMMA CancelKeepsTruth ==
  ASSUME ResultsInv, CancelCalls \/ CancelScript
  PROVE  Truth'
<1>1. /\ FrameInv(work["batch"]) /\ FrameInv(work["nested"]) /\ FrameTruth(work["batch"]) /\ FrameTruth(work["nested"])
      /\ Refusals(work["batch"], refused) /\ Messages(work["batch"], out, observed) /\ refused \in BOOLEAN
      /\ DOMAIN work = Frames
  BY DEF ResultsInv, RunnerInv, Truth, BatchTruth
<1>2. UNCHANGED <<out, observed, refused>> /\ pc' # "returned"
  BY DEF CancelCalls, CancelScript, Active
<1>3. CASE CancelCalls
  <2>1. work'["batch"] = Stop(work["batch"]) /\ work'["nested"] = work["nested"]
    BY <1>1, <1>3 DEF CancelCalls, Frames
  <2>2. /\ FrameTruth(Stop(work["batch"])) /\ Refusals(Stop(work["batch"]), refused)
        /\ Messages(Stop(work["batch"]), out, observed)
    BY <1>1, StopIsTrue
  <2> QED
    BY <1>1, <1>2, <2>1, <2>2 DEF Truth, BatchTruth
<1>4. CASE CancelScript
  <2>1. work'["batch"] = work["batch"] /\ work'["nested"] \in {work["nested"], Stop(work["nested"])}
    BY <1>1, <1>4 DEF CancelScript, Frames
  <2>2. FrameTruth(Stop(work["nested"]))
    BY <1>1, StopIsTrue
  <2> QED
    BY <1>1, <1>2, <2>1, <2>2 DEF Truth, BatchTruth
<1> QED
  BY <1>3, <1>4

\* The script is told to stop with the rest of its batch, and its own call ends as cancelled.
LEMMA JoinKeepsTruth ==
  ASSUME ResultsInv, Join
  PROVE  Truth'
<1> DEFINE w == work["batch"]
           u == Stop(w)
           i == w.at
           v == [u EXCEPT !.st[i] = "cancelled"]
<1>1. /\ FrameInv(w) /\ FrameTruth(w) /\ Refusals(w, refused) /\ Messages(w, out, observed)
      /\ DOMAIN work = Frames /\ FrameTruth(work["nested"]) /\ refused \in BOOLEAN
  BY DEF ResultsInv, RunnerInv, Truth, BatchTruth
<1>2. RunsScript(w)
  BY DEF Join, ResultsInv, RunnerInv, Agreement
<1>3. PICK k \in DOMAIN w.calls : w.calls[k] = "script" /\ w.st[k] = "running"
  BY <1>2 DEF RunsScript
<1>4. ~Ended(w.st[k])
  BY <1>3 DEF Ended, Final
<1>5. k = i
  BY <1>1, <1>3, <1>4, BarrierIsAlone DEF ParallelSafe
<1>6. i \in DOMAIN w.calls /\ w.calls[i] = "script" /\ i <= w.end
  <2>1. k <= w.end
    BY <1>1, <1>4 DEF FrameInv, Shape, Position, Ended
  <2> HIDE DEF i, w
  <2> QED
    BY <1>3, <1>5, <2>1
<1>7. FrameTruth(u) /\ Refusals(u, refused) /\ Messages(u, out, observed)
  BY <1>1, StopIsTrue
<1>8. FrameInv(u) /\ u.calls = w.calls /\ u.at = w.at /\ u.end = w.end /\ u.cancelled
  BY <1>1, StopKeepsFrame
<1>9. u.st[i] = "stopping"
  <2>1. u.st = [j \in DOMAIN w.st |->
                  IF w.st[j] \in {"asking", "queued", "wrapping", "recording", "recorded", "relaying"} THEN "cancelled"
                  ELSE IF w.st[j] \in {"running", "breaking"} THEN "stopping" ELSE w.st[j]]
    BY <1>1 DEF FrameInv, Shape, Stop
  <2>2. i \in DOMAIN w.st /\ w.st[i] = "running"
    BY <1>1, <1>3, <1>5 DEF FrameInv, Shape
  <2> HIDE DEF u, i, w
  <2> QED
    BY <2>1, <2>2
<1>10. work'["batch"] = v /\ work'["nested"] = work["nested"]
       /\ UNCHANGED <<out, observed, refused>> /\ pc' = "cancelled"
  BY <1>1 DEF Join, Frames
<1> HIDE DEF u, w
<1>11. OneCall(u, v, i) /\ v.st[i] = "cancelled" /\ v.ran[i] = u.ran[i] /\ v.declined[i] = u.declined[i]
  <2>1. i \in DOMAIN u.calls
    BY <1>6, <1>8
  <2> HIDE DEF i
  <2> QED
    BY <1>7, <1>8, <2>1 DEF OneCall, FrameInv, Shape, FrameTruth, CallTypes
<1> HIDE DEF v
<1>12. History("script", "cancelled", u.ran[i], u.declined[i], u.cancelled)
  BY <1>8 DEF History, MayAsk
<1>13. Sound(u, v, i)
  BY <1>6, <1>8, <1>9, <1>11, <1>12 DEF Sound
<1>14. i \in DOMAIN u.calls /\ i = u.at /\ i <= u.end
  BY <1>6, <1>8 DEF i
<1> HIDE DEF i
<1>15. FrameTruth(v)
  BY <1>7, <1>8, <1>11, <1>13, <1>14, CallKeepsFrameTruth
<1>16. Refusals(v, refused)
  BY <1>7, <1>8, <1>11, <1>13, <1>14, CallKeepsRefusals
<1>17. Messages(v, out, observed)
  BY <1>7, <1>8, <1>11, <1>14, CallKeepsMessages
<1> QED
  BY <1>1, <1>10, <1>15, <1>16, <1>17 DEF Truth, BatchTruth

\* run() returns when it has answered its last call; nothing else changes what is told.
LEMMA RestKeepsTruth ==
  ASSUME ResultsInv,
         \/ Return \/ Resume \/ ScriptEnds \/ Accept \/ Serve \/ Answer
         \/ CancelClose \/ Unwind \/ Closed \/ UNCHANGED vars
  PROVE  Truth'
<1>1. UNCHANGED <<work, out, observed, refused>>
  BY DEF Return, Resume, ScriptEnds, Accept, Serve, Answer, CancelClose, Unwind, Closed, vars, BatchVars, ScriptVars
<1>2. pc' = "returned" => work["batch"].at = Len(work["batch"].calls) + 1 /\ ~work["batch"].cancelled
  <2>1. CASE Return
    BY <2>1 DEF Return, Active, AllPublished
  <2>2. CASE Unwind \/ Closed
    BY <2>2 DEF Unwind, Closed
  <2>3. CASE Resume \/ ScriptEnds \/ Accept \/ Serve \/ Answer \/ CancelClose \/ UNCHANGED vars
    <3>1. pc' = pc
      BY <2>3 DEF Resume, ScriptEnds, Accept, Serve, Answer, CancelClose, vars, BatchVars
    <3> QED
      BY <3>1 DEF ResultsInv, Truth
  <2> QED
    BY <2>1, <2>2, <2>3
<1> QED
  BY <1>1, <1>2 DEF ResultsInv, Truth, BatchTruth

LEMMA InitIsTrue == Init => ResultsInv
<1> SUFFICES ASSUME Init
             PROVE  Truth
  BY InitKeepsInv DEF ResultsInv
<1>1. <<>> \in Seq(Kinds)
  OBVIOUS
<1>2. FrameTruth(Empty) /\ Refusals(Empty, FALSE) /\ Messages(Empty, <<>>, <<>>)
  BY <1>1, FreshIsTrue DEF Empty
<1> QED
  BY <1>2 DEF Init, Truth, BatchTruth, Frames

LEMMA StepKeepsResults == ResultsInv /\ [Next]_vars => ResultsInv'
<1> SUFFICES ASSUME ResultsInv, [Next]_vars
             PROVE  Truth'
  BY StepKeepsInv DEF ResultsInv
<1>1. CASE \E calls \in Batches : Begin(calls)
  BY <1>1, BeginKeepsTruth
<1>2. CASE UserAnswers
  BY <1>2, AnswersKeepTruth DEF UserAnswers
<1>3. CASE Cancelling
  BY <1>3, CancelKeepsTruth, RestKeepsTruth DEF Cancelling
<1>4. CASE Progress
  <2>1. ASSUME NEW f \in Frames, Start(f) \/ Publish(f)
        PROVE  Truth'
    BY <2>1, StartKeepsTruth, PublishKeepsTruth
  <2>2. ASSUME NEW f \in Frames, NEW i \in Indices(f),
               \/ Execute(f, i) \/ End(f, i) \/ Stopped(f, i)
               \/ AnswerInstead(f, i) \/ CallNext(f, i) \/ AdmitRecorded(f, i)
               \/ HandlerBreaks(f, i) \/ Relay(f, i) \/ Settle(f, i)
        PROVE  Truth'
    BY <2>2, ExecuteKeepsTruth, EndKeepsTruth, StoppedKeepsTruth, WrappedKeepsTruth
  <2>3. CASE Skip \/ Echo \/ OpenSegment \/ OpenNested \/ Return
    BY <2>3, SkipKeepsTruth, SegmentKeepsTruth, RestKeepsTruth
  <2>4. CASE (\E r \in Requests : Submit(r)) \/ Resume \/ ScriptEnds \/ Accept \/ Serve \/ Answer
    BY <2>4, SubmitKeepsTruth, RestKeepsTruth
  <2>5. CASE Unwind \/ Closed \/ Join
    BY <2>5, JoinKeepsTruth, RestKeepsTruth
  <2> QED
    BY <1>4, <2>1, <2>2, <2>3, <2>4, <2>5 DEF Progress
<1>5. CASE UNCHANGED vars
  BY <1>5, RestKeepsTruth
<1> QED
  BY <1>1, <1>2, <1>3, <1>4, <1>5 DEF Next

-----------------------------------------------------------------------------
(* Theorems.                                                               *)

\* The invariant of run() and run_one: what each status says of a call, of its receipt in memory and in
\* the log, of the messages given so far, and of the calls no refusal may let run.
THEOREM ResultsInvariant == Spec => []ResultsInv
<1> QED
  BY InitIsTrue, StepKeepsResults, PTL DEF Spec

\* For any batches, requests, capacities and cancellations: a batch that returns has one message for each
\* of its calls in their order, no call behind a refused segment ran, and the receipt of an intercepted
\* call never denies an effect that began nor claims one that did not.
THEOREM ResultsStayTruthful == Spec => []ResultsAreTruthful
<1>1. ResultsInv => ResultsAreTruthful
  <2> SUFFICES ASSUME ResultsInv
               PROVE  ResultsAreTruthful
    OBVIOUS
  <2> DEFINE w == work["batch"]
  <2>1. /\ FrameInv(w) /\ FrameTruth(w) /\ Refusals(w, refused) /\ Messages(w, out, observed)
        /\ FrameTruth(work["nested"])
    BY DEF ResultsInv, RunnerInv, Truth, BatchTruth
  <2>2. DOMAIN w.calls = 1 .. Len(w.calls) /\ Len(w.calls) \in Nat
    BY <2>1 DEF FrameInv, Shape
  <2>3. ReceiptsAreTruthful
    BY <2>1 DEF ReceiptsAreTruthful, FrameTruth, Receipts, Receipt, Indices, Kind, Frames
  <2>4. RefusalStopsLaterSegments
    BY <2>1 DEF RefusalStopsLaterSegments, Refusals, Indices, Kind, Status
  <2>5. ResultsMatchCalls
    <3> SUFFICES ASSUME pc = "returned"
                 PROVE  /\ out = [i \in DOMAIN w.calls |-> i]
                        /\ {observed[n] : n \in DOMAIN observed} =
                              {i \in DOMAIN w.calls : w.calls[i] = "look" /\ w.st[i] = "ok"}
                        /\ \A m, n \in DOMAIN observed : m < n => observed[m] < observed[n]
                        /\ \A i \in DOMAIN w.calls : w.st[i] \in Final \ {"cancelled"}
      BY DEF ResultsMatchCalls, Status
    <3>1. w.at = Len(w.calls) + 1 /\ ~w.cancelled
      BY DEF ResultsInv, Truth
    <3> HIDE DEF w
    <3>2. \A i \in DOMAIN w.calls : i < w.at
      BY <2>2, <3>1
    <3>3. Counts(out, Len(w.calls))
      BY <2>1, <2>2, <3>1 DEF Messages
    <3>4. out = [i \in DOMAIN w.calls |-> i]
      BY <2>2, <3>3 DEF Counts
    <3>5. Looked(w) = {i \in DOMAIN w.calls : w.calls[i] = "look" /\ w.st[i] = "ok"}
      BY <3>2 DEF Looked
    <3>6. \A i \in DOMAIN w.calls : w.st[i] \in Final
      BY <2>1, <3>2 DEF FrameInv, Position
    <3>7. \A i \in DOMAIN w.calls : w.st[i] # "cancelled"
      BY <2>1, <3>1 DEF FrameTruth, Histories, History
    <3> QED
      BY <2>1, <3>4, <3>5, <3>6, <3>7 DEF Messages
  <2> QED
    BY <2>3, <2>4, <2>5 DEF ResultsAreTruthful
<1> QED
  BY <1>1, ResultsInvariant, PTL

-----------------------------------------------------------------------------
(* Ends of sequences.                                                      *)

\* Sequence s is the end of sequence t.
Ends(s, t) == Len(s) <= Len(t) /\ \A i \in 1..Len(s) : s[i] = t[Len(t) - Len(s) + i]

\* What the library calls a suffix is the end of a sequence.
LEMMA SuffixIs ==
  ASSUME NEW s \in Seq(Nat), NEW t \in Seq(Nat), Ends(s, t)
  PROVE  Job!IsSuffix(s, t)
  <1> DEFINE r == Job!Reverse(s)
             q == Job!Reverse(t)
             n == Len(s)
             m == Len(t)
  <1>1. n \in Nat /\ m \in Nat /\ n <= m /\ \A i \in 1..n : s[i] = t[m - n + i] /\ s[i] \in Nat
    BY SMTT(40) DEF Ends
  <1>2. r = [i \in 1..n |-> s[(n - i) + 1]] /\ q = [i \in 1..m |-> t[(m - i) + 1]]
    BY DEF Job!Reverse
  <1>3. \A i \in 1..m : t[i] \in Nat
    BY <1>1
  <1> HIDE DEF n, m
  <1>4. r \in Seq(Nat) /\ Len(r) = n /\ \A i \in 1..n : r[i] = s[(n - i) + 1]
    <2>1. \A i \in 1..n : s[(n - i) + 1] \in Nat
      BY <1>1
    <2> QED BY <2>1, <1>1, <1>2
  <1>5. q \in Seq(Nat) /\ Len(q) = m /\ \A i \in 1..m : q[i] = t[(m - i) + 1]
    <2>1. \A i \in 1..m : t[(m - i) + 1] \in Nat
      BY <1>1, <1>3
    <2> QED BY <2>1, <1>1, <1>2
  <1>6. \A i \in 1..n : r[i] = q[i]
    <2> SUFFICES ASSUME NEW i \in 1..n PROVE r[i] = q[i]
      OBVIOUS
    <2>1. (n - i) + 1 \in 1..n /\ m - n + ((n - i) + 1) = (m - i) + 1 /\ i \in 1..m
      BY <1>1
    <2>2. s[(n - i) + 1] = t[m - n + ((n - i) + 1)]
      BY <2>1, <1>1
    <2> QED BY <2>1, <2>2, <1>4, <1>5
  <1> HIDE DEF r, q
  <1>7. SubSeq(r, 1, n) = SubSeq(q, 1, n)
    <2>1. /\ SubSeq(r, 1, n) \in Seq(Nat) /\ Len(SubSeq(r, 1, n)) = n
          /\ \A i \in 1..n : SubSeq(r, 1, n)[i] = r[i]
      BY <1>1, <1>4
    <2>2. /\ SubSeq(q, 1, n) \in Seq(Nat) /\ Len(SubSeq(q, 1, n)) = n
          /\ \A i \in 1..n : SubSeq(q, 1, n)[i] = q[i]
      BY SMTT(40), <1>1, <1>5
    <2>3. \A i \in 1..Len(SubSeq(r, 1, n)) : SubSeq(r, 1, n)[i] = SubSeq(q, 1, n)[i]
      BY <2>1, <2>2, <1>6
    <2>4. Len(SubSeq(r, 1, n)) = Len(SubSeq(q, 1, n))
      BY <2>1, <2>2
    <2> QED BY <2>1, <2>2, <2>3, <2>4, SeqEqual
  <1> QED BY <1>1, <1>4, <1>5, <1>7 DEF Job!IsSuffix, Job!IsPrefix, r, q

\* Every sequence is its own end.
LEMMA EndsWhole == ASSUME NEW s \in Seq(Nat) PROVE Ends(s, s)
  BY DEF Ends

\* The end of an end.
LEMMA EndsEnd ==
  ASSUME NEW s \in Seq(Nat), NEW t \in Seq(Nat), NEW u \in Seq(Nat), Ends(s, t), Ends(t, u)
  PROVE  Ends(s, u)
  <1>1. Len(s) \in Nat /\ Len(t) \in Nat /\ Len(u) \in Nat
    OBVIOUS
  <1>2. \A i \in 1..Len(s) : s[i] = u[Len(u) - Len(s) + i]
    <2> SUFFICES ASSUME NEW i \in 1..Len(s) PROVE s[i] = u[Len(u) - Len(s) + i]
      OBVIOUS
    <2>1. Len(t) - Len(s) + i \in 1..Len(t)
      BY <1>1 DEF Ends
    <2>2. Len(u) - Len(t) + (Len(t) - Len(s) + i) = Len(u) - Len(s) + i
      BY <1>1
    <2> QED BY <2>1, <2>2 DEF Ends
  <1> QED BY <1>1, <1>2, SMTT(40) DEF Ends

\* What is added to both is added to the end.
LEMMA EndsMore ==
  ASSUME NEW s \in Seq(Nat), NEW t \in Seq(Nat), NEW x \in Seq(Nat), Ends(s, t)
  PROVE  Ends(s \o x, t \o x)
  <1>1. Len(s) \in Nat /\ Len(t) \in Nat /\ Len(x) \in Nat
    OBVIOUS
  <1>2. Len(s \o x) = Len(s) + Len(x) /\ Len(t \o x) = Len(t) + Len(x)
    OBVIOUS
  <1>3. \A i \in 1..Len(s) + Len(x) : (s \o x)[i] = (t \o x)[Len(t) - Len(s) + i]
    <2> SUFFICES ASSUME NEW i \in 1..Len(s) + Len(x) PROVE (s \o x)[i] = (t \o x)[Len(t) - Len(s) + i]
      OBVIOUS
    <2>1. Len(t) - Len(s) + i \in 1..Len(t) + Len(x)
      BY <1>1 DEF Ends
    <2>2. CASE i <= Len(s)
      <3>1. s[i] = t[Len(t) - Len(s) + i] /\ Len(t) - Len(s) + i <= Len(t)
        BY SMTT(40), <1>1, <2>2 DEF Ends
      <3> QED BY <3>1, <2>1, <2>2, <1>1, ConcatProperties
    <2>3. CASE i > Len(s)
      <3>1. Len(t) - Len(s) + i > Len(t) /\ i - Len(s) = (Len(t) - Len(s) + i) - Len(t)
        BY <1>1, <2>3
      <3> QED BY SMTT(40), <3>1, <2>1, <2>3, <1>1, ConcatProperties
    <2>4. i <= Len(s) \/ i > Len(s)
      BY <1>1
    <2> QED BY <2>2, <2>3, <2>4
  <1>4. Len(t) + Len(x) - (Len(s) + Len(x)) = Len(t) - Len(s)
    BY <1>1
  <1> QED BY <1>1, <1>2, <1>3, <1>4 DEF Ends

\* The part added is an end.
LEMMA EndsAdded ==
  ASSUME NEW t \in Seq(Nat), NEW x \in Seq(Nat)
  PROVE  Ends(x, t \o x)
  <1>1. Len(t) \in Nat /\ Len(x) \in Nat /\ Len(t \o x) = Len(t) + Len(x)
    OBVIOUS
  <1>2. \A i \in 1..Len(x) : x[i] = (t \o x)[Len(t) + i]
    <2> SUFFICES ASSUME NEW i \in 1..Len(x) PROVE x[i] = (t \o x)[Len(t) + i]
      OBVIOUS
    <2>1. Len(t) + i \in 1..Len(t) + Len(x) /\ ~(Len(t) + i <= Len(t)) /\ (Len(t) + i) - Len(t) = i
      BY <1>1
    <2> QED BY <2>1, ConcatProperties
  <1>3. Len(t) + Len(x) - Len(x) = Len(t)
    BY <1>1
  <1> QED BY <1>1, <1>2, <1>3 DEF Ends

\* Sequence y is the last n of x.
IsLast(y, n, x) == y \in Seq(Nat) /\ Len(y) = n /\ Ends(y, x)

\* The last n of a sequence are an end of it.
LEMMA EndsLast ==
  ASSUME NEW x \in Seq(Nat), NEW n \in Nat, n <= Len(x)
  PROVE  IsLast(SubSeq(x, Len(x) - n + 1, Len(x)), n, x)
  <1> DEFINE m == Len(x)
             y == SubSeq(x, m - n + 1, m)
  <1>1. m \in Nat /\ m - n + 1 \in Int /\ m \in Int /\ m - n + 1 >= 1
    OBVIOUS
  <1>2. \A i \in m - n + 1 .. m : x[i] \in Nat
    BY <1>1
  <1>3. /\ y \in Seq(Nat) /\ Len(y) = IF m - n + 1 <= m THEN m - (m - n + 1) + 1 ELSE 0
        /\ \A i \in 1 .. m - (m - n + 1) + 1 : y[i] = x[(m - n + 1) + i - 1]
    <2> HIDE DEF m
    <2> QED BY ONLY <1>1, <1>2, SubSeqProperties
  <1>4. Len(y) = n /\ \A i \in 1..n : y[i] = x[m - n + i]
    <2> HIDE DEF m, y
    <2>1. m - (m - n + 1) + 1 = n
      BY <1>1
    <2>2. \A i \in 1..n : y[i] = x[m - n + i]
      <3> SUFFICES ASSUME NEW i \in 1..n PROVE y[i] = x[m - n + i]
        OBVIOUS
      <3>1. (m - n + 1) + i - 1 = m - n + i
        BY <1>1
      <3> QED BY <1>3, <2>1, <3>1
    <2>3. Len(y) = n
      <3>1. CASE n = 0
        BY <1>1, <1>3, <3>1
      <3>2. CASE n > 0
        <4>1. m - n + 1 <= m
          BY <1>1, <3>2
        <4> QED BY <1>3, <2>1, <4>1
      <3> QED BY <3>1, <3>2
    <2> QED BY <2>2, <2>3
  <1>5. Ends(y, x)
    BY <1>1, <1>3, <1>4 DEF Ends
  <1>6. y \in Seq(Nat)
    BY <1>3
  <1> QED BY <1>4, <1>5, <1>6 DEF IsLast

-----------------------------------------------------------------------------
(* Joining sequences.                                                      *)

\* A set of naturals below a bound has a least element.
LEMMA LeastOf ==
  ASSUME NEW n \in Nat, NEW B \in SUBSET (0 .. n), B # {}
  PROVE  \E k \in B : \A j \in B : k <= j
<1> DEFINE S == 0 .. n
           F == {0 .. k : k \in B}
           R == StrictSubsetOrdering(S)
<1>1. IsWellFoundedOn(R, FiniteSubsetsOf(S))
  BY FS_StrictSubsetOrderingWellFounded
<1>2. F \subseteq FiniteSubsetsOf(S)
  <2>1. \A k \in B : 0 .. k \subseteq S /\ IsFiniteSet(0 .. k)
    BY FS_Interval
  <2> QED BY <2>1 DEF FiniteSubsetsOf
<1>3. F # {}
  OBVIOUS
<1>4. \E x \in F : \A y \in F : <<y, x>> \notin R
  <2> HIDE DEF F, R, S
  <2> QED BY <1>1, <1>2, <1>3, WFMin
<1>5. PICK k \in B : \A y \in F : <<y, 0 .. k>> \notin R
  BY <1>4
<1>6. ASSUME NEW j \in B, j < k PROVE FALSE
  <2>1. 0 .. j \in SUBSET S /\ 0 .. k \in SUBSET S /\ 0 .. j \subseteq 0 .. k /\ 0 .. j # 0 .. k
    <3>1. k \in 0 .. k /\ k \notin 0 .. j
      BY <1>6
    <3> QED BY <1>6, <3>1
  <2>2. <<0 .. j, 0 .. k>> \in R
    BY <2>1 DEF StrictSubsetOrdering
  <2> QED BY <2>2, <1>5
<1> QED BY <1>6

\* What is true of 0 and of each number after one it is true of is true up to n.
LEMMA UpTo ==
  ASSUME NEW n \in Nat, NEW T, 0 \in T, \A k \in 0 .. n - 1 : k \in T => k + 1 \in T
  PROVE  \A k \in 0 .. n : k \in T
<1> DEFINE B == (0 .. n) \ T
<1>1. CASE B = {}
  BY <1>1
<1>2. CASE B # {}
  <2>1. PICK k \in B : \A j \in B : k <= j
    <3> B \in SUBSET (0 .. n) OBVIOUS
    <3> HIDE DEF B
    <3> QED BY <1>2, LeastOf
  <2>2. k # 0 /\ k - 1 \in 0 .. n - 1 /\ k - 1 \notin B
    BY <2>1
  <2>3. k - 1 \in T
    BY <2>2
  <2>4. (k - 1) + 1 \in T
    BY <2>2, <2>3
  <2> QED BY <2>4, <2>1
<1> QED BY <1>1, <1>2

\* The sequences of s joined up to each of them.
Joins(s, f) ==
    /\ f \in [1..Len(s) -> Seq(Nat)]
    /\ \A i \in 1..Len(s) : f[i] = IF i = 1 THEN s[i] ELSE f[i - 1] \o s[i]

\* A sequence of sequences can be joined.
LEMMA CanJoin ==
  ASSUME NEW s \in Seq(Seq(Nat)), s # <<>>
  PROVE  \E f : Joins(s, f)
  <1> DEFINE N == Len(s) - 1
             IsJoin(f, m) == /\ f \in [1..m + 1 -> Seq(Nat)]
                             /\ \A i \in 1..m + 1 : f[i] = IF i = 1 THEN s[i] ELSE f[i - 1] \o s[i]
             T == {m \in 0..N : \E f : IsJoin(f, m)}
  <1>0. Len(s) \in Nat /\ Len(s) >= 1 /\ N \in Nat /\ N + 1 = Len(s) /\ \A i \in 1..Len(s) : s[i] \in Seq(Nat)
    OBVIOUS
  <1>1. 0 \in T
    <2> DEFINE f == [n \in 1..0 + 1 |-> s[1]]
    <2>1. IsJoin(f, 0)
      BY <1>0
    <2>2. 0 \in 0..N
      BY <1>0
    <2> HIDE DEF IsJoin, f, N
    <2> QED BY <2>1, <2>2
  <1>2. ASSUME NEW k \in 0..N - 1, k \in T PROVE k + 1 \in T
    <2>1. PICK f : IsJoin(f, k)
      BY <1>2
    <2>0. k \in Nat /\ k + 2 <= Len(s) /\ k + 2 \in 1..Len(s) /\ s[k + 2] \in Seq(Nat) /\ k + 1 \in 1..k + 1
      BY <1>0
    <2> DEFINE g == [n \in 1..(k + 1) + 1 |-> IF n = k + 2 THEN f[k + 1] \o s[k + 2] ELSE f[n]]
    <2> HIDE DEF N
    <2>2. \A n \in 1..(k + 1) + 1 : g[n] \in Seq(Nat) /\ g[n] = IF n = 1 THEN s[n] ELSE g[n - 1] \o s[n]
      <3> SUFFICES ASSUME NEW n \in 1..(k + 1) + 1
                   PROVE  g[n] \in Seq(Nat) /\ g[n] = IF n = 1 THEN s[n] ELSE g[n - 1] \o s[n]
        OBVIOUS
      <3>1. CASE n = k + 2
        <4>1. n # 1 /\ n - 1 = k + 1 /\ n - 1 \in 1..(k + 1) + 1 /\ n - 1 # k + 2
          BY <3>1, <2>0
        <4>2. g[n] = f[k + 1] \o s[k + 2] /\ g[n - 1] = f[k + 1]
          BY <4>1, <3>1
        <4>3. f[k + 1] \in Seq(Nat)
          BY <2>0, <2>1
        <4>4. f[k + 1] \o s[k + 2] \in Seq(Nat)
          BY <4>3, <2>0, ConcatProperties
        <4> HIDE DEF g
        <4> QED BY <4>1, <4>2, <4>4, <3>1
      <3>2. CASE n # k + 2
        <4>1. n \in 1..k + 1 /\ (n # 1 => n - 1 \in 1..k + 1 /\ n - 1 \in 1..(k + 1) + 1 /\ n - 1 # k + 2)
          BY <3>2, <2>0
        <4>2. f[n] \in Seq(Nat) /\ f[n] = IF n = 1 THEN s[n] ELSE f[n - 1] \o s[n]
          BY <4>1, <2>1
        <4>3. g[n] = f[n] /\ (n # 1 => g[n - 1] = f[n - 1])
          BY <4>1, <3>2
        <4> HIDE DEF g
        <4> QED BY <4>2, <4>3
      <3> QED BY <3>1, <3>2
    <2>3. g \in [1..(k + 1) + 1 -> Seq(Nat)]
      <3>1. g = [n \in 1..(k + 1) + 1 |-> g[n]]
        OBVIOUS
      <3> HIDE DEF g
      <3> QED BY <2>2, <3>1
    <2>4. k + 1 \in 0..N
      BY <1>0 DEF N
    <2>5. IsJoin(g, k + 1)
      <3> HIDE DEF g
      <3> QED BY <2>2, <2>3
    <2> HIDE DEF IsJoin, g
    <2> QED BY <2>4, <2>5
  <1>3. N \in T
    <2>1. \A k \in 0..N - 1 : k \in T => k + 1 \in T
      BY <1>2
    <2> HIDE DEF T, N
    <2>2. \A k \in 0..N : k \in T
      BY <1>0, <1>1, <2>1, UpTo
    <2>3. N \in 0..N
      BY <1>0
    <2> QED BY <2>2, <2>3
  <1>4. PICK f : IsJoin(f, N)
    BY <1>3
  <1>5. Joins(s, f)
    <2> HIDE DEF N
    <2> QED BY <1>0, <1>4 DEF Joins
  <1> QED BY <1>5

\* Sequence t begins with sequence s.
Begins(s, t) == Len(s) <= Len(t) /\ \A i \in 1..Len(s) : s[i] = t[i]

\* Sequences that begin alike are joined alike.
LEMMA JoinsAlike ==
  ASSUME NEW s \in Seq(Seq(Nat)), NEW t \in Seq(Seq(Nat)), Begins(s, t), s # <<>>,
         NEW f, NEW g, Joins(s, f), Joins(t, g)
  PROVE  \A i \in 1..Len(s) : f[i] = g[i]
  <1> DEFINE N == Len(s) - 1
             T == {m \in 0..N : f[m + 1] = g[m + 1]}
  <1>b. Len(s) <= Len(t) /\ \A i \in 1..Len(s) : s[i] = t[i]
    BY DEF Begins
  <1>0. Len(s) \in Nat /\ Len(s) >= 1 /\ Len(t) \in Nat /\ N \in Nat /\ N + 1 = Len(s)
    OBVIOUS
  <1>1. 0 \in T
    <2>0. 1 \in 1..Len(s) /\ 1 \in 1..Len(t) /\ 0 \in 0..N
      BY <1>0, <1>b
    <2>1. f[1] = s[1] /\ g[1] = t[1] /\ s[1] = t[1] /\ 0 \in 0..N
      BY <2>0, <1>b DEF Joins
    <2> QED BY <2>1
  <1>2. ASSUME NEW k \in 0..N - 1, k \in T PROVE k + 1 \in T
    <2>1. k + 2 \in 1..Len(s) /\ k + 2 \in 1..Len(t) /\ k + 2 # 1 /\ (k + 2) - 1 = k + 1 /\ k + 1 \in 0..N
            /\ (k + 1) + 1 = k + 2
      BY <1>0, <1>b
    <2>2. f[k + 2] = f[k + 1] \o s[k + 2] /\ g[k + 2] = g[k + 1] \o t[k + 2] /\ s[k + 2] = t[k + 2]
      BY <2>1, <1>b DEF Joins
    <2>3. f[k + 1] = g[k + 1]
      BY <1>2
    <2> HIDE DEF N
    <2> QED BY <2>1, <2>2, <2>3
  <1>3. \A k \in 0..N : k \in T
    <2>1. \A k \in 0..N - 1 : k \in T => k + 1 \in T
      BY <1>2
    <2> HIDE DEF T, N
    <2> QED BY <1>0, <1>1, <2>1, UpTo
  <1> SUFFICES ASSUME NEW i \in 1..Len(s) PROVE f[i] = g[i]
    OBVIOUS
  <1>4. i - 1 \in 0..N /\ (i - 1) + 1 = i
    BY <1>0
  <1> HIDE DEF N
  <1> QED BY <1>3, <1>4

\* FlattenSeq joins.
LEMMA FlattenJoins ==
  ASSUME NEW s \in Seq(Seq(Nat)), s # <<>>
  PROVE  \E f : Joins(s, f) /\ Job!FlattenSeq(s) = f[Len(s)]
  <1> DEFINE IsF(f) == f = [i \in 1..Len(s) |-> IF i = 1 THEN s[i] ELSE f[i - 1] \o s[i]]
             h == CHOOSE f : IsF(f)
  <1>0. Len(s) \in Nat /\ Len(s) # 0
    OBVIOUS
  <1>1. PICK f : Joins(s, f)
    BY CanJoin
  <1>2. IsF(f)
    <2>1. f = [i \in 1..Len(s) |-> f[i]]
      BY <1>1 DEF Joins
    <2> QED BY <1>1, <2>1 DEF Joins
  <1>3. IsF(h)
    BY <1>2
  <1>4. Job!FlattenSeq(s) = h[Len(s)]
    BY <1>0 DEF Job!FlattenSeq
  <1>5. Joins(s, h)
    <2> HIDE DEF h
    <2>1. \A i \in 1..Len(s) : h[i] = IF i = 1 THEN s[i] ELSE h[i - 1] \o s[i]
      BY <1>3
    <2>2. h = [i \in 1..Len(s) |-> h[i]]
      BY <1>3, <2>1
    <2>3. \A i \in 1..Len(s) : h[i] = f[i]
      <3> DEFINE N == Len(s) - 1
                 T == {m \in 0..N : f[m + 1] = h[m + 1]}
      <3>0. Len(s) >= 1 /\ N \in Nat /\ N + 1 = Len(s)
        BY <1>0
      <3>1. 0 \in T
        <4>1. f[1] = s[1] /\ h[1] = s[1] /\ 0 \in 0..N
          BY <3>0, <1>1, <2>1 DEF Joins
        <4> QED BY <4>1
      <3>2. ASSUME NEW k \in 0..N - 1, k \in T PROVE k + 1 \in T
        <4>1. k + 2 \in 1..Len(s) /\ k + 2 # 1 /\ (k + 2) - 1 = k + 1 /\ k + 1 \in 0..N /\ (k + 1) + 1 = k + 2
          BY <3>0
        <4>2. f[k + 2] = f[k + 1] \o s[k + 2] /\ h[k + 2] = h[k + 1] \o s[k + 2]
          BY <4>1, <1>1, <2>1 DEF Joins
        <4>3. f[k + 1] = h[k + 1]
          BY <3>2
        <4> HIDE DEF N
        <4> QED BY <4>1, <4>2, <4>3
      <3>3. \A k \in 0..N : k \in T
        <4>1. \A k \in 0..N - 1 : k \in T => k + 1 \in T
          BY <3>2
        <4> HIDE DEF T, N
        <4> QED BY <3>0, <3>1, <4>1, UpTo
      <3> SUFFICES ASSUME NEW i \in 1..Len(s) PROVE h[i] = f[i]
        OBVIOUS
      <3>4. i - 1 \in 0..N /\ (i - 1) + 1 = i
        BY <3>0
      <3> HIDE DEF N
      <3> QED BY <3>3, <3>4
    <2>4. h \in [1..Len(s) -> Seq(Nat)]
      BY <2>2, <2>3, <1>1 DEF Joins
    <2> QED BY <2>1, <2>4 DEF Joins
  <1> HIDE DEF h
  <1> QED BY <1>4, <1>5

\* Nothing joined is nothing.
LEMMA FlattenNone == Job!FlattenSeq(<<>>) = <<>>
  BY DEF Job!FlattenSeq

\* What is joined is a sequence.
LEMMA FlattenIsSeq ==
  ASSUME NEW s \in Seq(Seq(Nat))
  PROVE  Job!FlattenSeq(s) \in Seq(Nat)
  <1>1. CASE s = <<>>
    BY <1>1, FlattenNone, EmptySeq
  <1>2. CASE s # <<>>
    <2>1. PICK f : Joins(s, f) /\ Job!FlattenSeq(s) = f[Len(s)]
      BY <1>2, FlattenJoins
    <2>2. Len(s) \in 1..Len(s)
      BY <1>2
    <2> QED BY <2>1, <2>2 DEF Joins
  <1> QED BY <1>1, <1>2

\* A sequence added is joined at the end.
LEMMA FlattenAppend ==
  ASSUME NEW s \in Seq(Seq(Nat)), NEW x \in Seq(Nat)
  PROVE  Job!FlattenSeq(Append(s, x)) = Job!FlattenSeq(s) \o x
  <1> DEFINE t == Append(s, x)
             n == Len(s)
  <1>1. /\ t \in Seq(Seq(Nat)) /\ t # <<>> /\ Len(t) = n + 1 /\ n \in Nat
        /\ \A i \in 1..n : t[i] = s[i]
        /\ t[n + 1] = x
    BY AppendProperties
  <1> HIDE DEF t
  <1>2. PICK g : Joins(t, g) /\ Job!FlattenSeq(t) = g[n + 1]
    BY <1>1, FlattenJoins
  <1>3. n + 1 \in 1..Len(t)
    BY <1>1
  <1>4. CASE s = <<>>
    <2>1. n = 0
      BY <1>4
    <2>2. g[n + 1] = x
      BY <1>1, <1>2, <1>3, <2>1 DEF Joins
    <2> QED BY <1>2, <1>4, <2>2, FlattenNone, ConcatEmptySeq DEF t
  <1>5. CASE s # <<>>
    <2>1. PICK f : Joins(s, f) /\ Job!FlattenSeq(s) = f[n]
      BY <1>5, FlattenJoins
    <2>2. n >= 1 /\ n \in 1..n
      BY <1>1, <1>5
    <2>3. \A i \in 1..n : f[i] = g[i]
      <3>1. Begins(s, t) /\ Joins(t, g) /\ Joins(s, f)
        BY <1>1, <1>2, <2>1 DEF Begins
      <3> QED BY <3>1, <1>1, <1>5, JoinsAlike
    <2>4. n + 1 # 1 /\ (n + 1) - 1 = n
      BY <2>2
    <2>5. g[n + 1] = g[n] \o x
      BY <1>1, <1>2, <1>3, <2>4 DEF Joins
    <2> QED BY <1>2, <2>1, <2>2, <2>3, <2>5 DEF t
  <1> QED BY <1>4, <1>5

\* The last sequences joined are the end of all of them joined.
LEMMA FlattenEnd ==
  ASSUME NEW s \in Seq(Seq(Nat)), NEW k \in 1..Len(s)
  PROVE  LET t == SubSeq(s, k, Len(s))
         IN t \in Seq(Seq(Nat)) /\ Ends(Job!FlattenSeq(t), Job!FlattenSeq(s))
  <1> DEFINE n == Len(s)
             t == SubSeq(s, k, n)
             N == n - k
  <1>1. n \in Nat /\ k \in Nat /\ 1 <= k /\ k <= n /\ N \in Nat
    OBVIOUS
  <1>2. \A i \in 1..n : s[i] \in Seq(Nat)
    OBVIOUS
  <1>3. t \in Seq(Seq(Nat)) /\ Len(t) = N + 1 /\ \A i \in 1..N + 1 : t[i] = s[k + i - 1]
    <2>1. \A i \in k..n : s[i] \in Seq(Nat)
      BY <1>1, <1>2
    <2>2. n - k + 1 = N + 1
      BY <1>1
    <2> HIDE DEF n
    <2>3. /\ t \in Seq(Seq(Nat)) /\ Len(t) = n - k + 1
          /\ \A i \in 1..n - k + 1 : t[i] = s[k + i - 1]
      <3> k \in Int /\ n \in Int
        BY <1>1
      <3> QED BY <1>1, <2>1, SubSeqProperties
    <2> HIDE DEF t, N
    <2> QED BY <2>2, <2>3
  <1>4. s # <<>> /\ t # <<>>
    <2> HIDE DEF t
    <2>1. Len(t) # 0
      BY <1>1, <1>3
    <2> QED BY <2>1, <1>1
  <1> HIDE DEF t
  <1>5. PICK f : Joins(s, f) /\ Job!FlattenSeq(s) = f[n]
    BY <1>4, FlattenJoins
  <1>6. PICK g : Joins(t, g) /\ Job!FlattenSeq(t) = g[N + 1]
    BY <1>3, <1>4, FlattenJoins
  <1> DEFINE T == {m \in 0..N : Ends(g[m + 1], f[k + m])}
  <1> HIDE DEF n
  <1>7. 0 \in T
    <2>1. 1 \in 1..N + 1 /\ 1 \in 1..Len(t) /\ k + 0 = k /\ k + 1 - 1 = k /\ k \in 1..n /\ 0 \in 0..N
      BY <1>1, <1>3
    <2>2. g[1] = s[k] /\ s[k] \in Seq(Nat)
      BY <1>2, <1>3, <1>6, <2>1 DEF Joins
    <2>3. Ends(s[k], f[k])
      <3>1. CASE k = 1
        BY <3>1, <2>1, <2>2, <1>5, EndsWhole DEF Joins, n
      <3>2. CASE k # 1
        <4>1. k - 1 \in 1..n
          BY <1>1, <3>2
        <4>2. f[k] = f[k - 1] \o s[k] /\ f[k - 1] \in Seq(Nat)
          BY <4>1, <3>2, <2>1, <1>5 DEF Joins, n
        <4> QED BY <4>2, <2>2, EndsAdded
      <3> QED BY <3>1, <3>2
    <2> HIDE DEF N
    <2> QED BY <2>1, <2>2, <2>3
  <1>8. ASSUME NEW m \in 0..N - 1, m \in T PROVE m + 1 \in T
    <2>1. /\ m + 2 \in 1..N + 1 /\ m + 2 # 1 /\ (m + 2) - 1 = m + 1 /\ m + 1 \in 1..N + 1
          /\ k + m + 1 \in 1..n /\ k + m + 1 # 1 /\ (k + m + 1) - 1 = k + m /\ k + m \in 1..n
          /\ k + (m + 2) - 1 = k + m + 1 /\ m + 1 \in 0..N
          /\ (m + 1) + 1 = m + 2 /\ k + (m + 1) = k + m + 1
      BY <1>1
    <2> HIDE DEF N
    <2>2. /\ g[m + 2] = g[m + 1] \o t[m + 2] /\ f[k + m + 1] = f[k + m] \o s[k + m + 1]
          /\ g[m + 1] \in Seq(Nat) /\ f[k + m] \in Seq(Nat)
      BY <2>1, <1>3, <1>5, <1>6 DEF Joins, n
    <2>3. t[m + 2] = s[k + m + 1] /\ s[k + m + 1] \in Seq(Nat)
      BY <2>1, <1>2, <1>3
    <2>4. Ends(g[m + 1], f[k + m])
      BY <1>8
    <2>5. Ends(g[m + 2], f[k + m + 1])
      BY <2>2, <2>3, <2>4, EndsMore
    <2> QED BY <2>1, <2>5
  <1>9. N \in T
    <2>1. \A m \in 0..N - 1 : m \in T => m + 1 \in T
      BY <1>8
    <2>2. N \in 0..N
      BY <1>1
    <2> HIDE DEF T, N
    <2> QED BY <1>1, <1>7, <2>1, <2>2, UpTo
  <1>10. k + N = n
    BY <1>1
  <1> QED BY <1>3, <1>5, <1>6, <1>9, <1>10 DEF t, n

-----------------------------------------------------------------------------
(* Decoding.                                                               *)

\* The characters of the first n bytes.
Chars(n) == [k \in 1..(n \div 2) |-> k]

\* What n bytes are, half a character at the end of the stream being replaced.
LEMMA DecodedIs ==
  ASSUME NEW n \in Nat, NEW final \in BOOLEAN
  PROVE  /\ Job!Decoded(1, n, final) = Chars(n) \o (IF final /\ n % 2 = 1 THEN <<0>> ELSE <<>>)
         /\ Chars(n) \in Seq(Nat) /\ Len(Chars(n)) = n \div 2
         /\ Job!Decoded(1, n, final) \in Seq(Nat)
  <1>1. n \div 2 \in Nat /\ n % 2 \in {0, 1} /\ (n % 2 = 1 => n >= 1) /\ 1 % 2 # 0 /\ 1 \div 2 = 0
    OBVIOUS
  <1>2. Chars(n) \in Seq(Nat) /\ Len(Chars(n)) = n \div 2
    <2> DEFINE m == n \div 2
    <2>1. m \in Nat
      BY <1>1
    <2> HIDE DEF m
    <2>2. [k \in 1..m |-> k] \in Seq(Nat) /\ Len([k \in 1..m |-> k]) = m
      BY <2>1
    <2> QED BY <2>2 DEF Chars, m
  <1>3. [k \in 1..((n \div 2) - (1 \div 2)) |-> (1 \div 2) + k] = Chars(n)
    <2> DEFINE m == n \div 2
    <2>1. m \in Nat /\ m - 0 = m /\ \A k \in 1..m : 0 + k = k
      BY <1>1
    <2> HIDE DEF m
    <2>2. [k \in 1..(m - 0) |-> 0 + k] = [k \in 1..m |-> k]
      BY <2>1
    <2> QED BY <1>1, <2>2 DEF Chars, m
  <1>4. Job!Decoded(1, n, final) = (<<>> \o Chars(n)) \o (IF final /\ n % 2 = 1 THEN <<0>> ELSE <<>>)
    <2>1. final /\ n >= 1 /\ n % 2 = 1 <=> final /\ n % 2 = 1
      BY <1>1
    <2> HIDE DEF Chars
    <2> QED BY <1>1, <1>3, <2>1 DEF Job!Decoded
  <1> HIDE DEF Chars
  <1>5. <<>> \o Chars(n) = Chars(n)
    BY <1>2, ConcatEmptySeq
  <1>6. <<0>> \in Seq(Nat) /\ <<>> \in Seq(Nat)
    OBVIOUS
  <1>7. Chars(n) \o <<0>> \in Seq(Nat) /\ Chars(n) \o <<>> \in Seq(Nat)
    BY <1>2, <1>6, ConcatProperties
  <1> QED BY <1>2, <1>4, <1>5, <1>7

\* Joining is associative.
LEMMA JoinThree ==
  ASSUME NEW a \in Seq(Nat), NEW b \in Seq(Nat), NEW c \in Seq(Nat)
  PROVE  (a \o b) \o c = a \o (b \o c)
  BY SMTT(40)

\* The bytes after r, up to n, when those before were read: with the byte held back from an unfinished
\* character, what the decoder makes of them follows what it has made of the first r.
LEMMA DecodedOn ==
  ASSUME NEW r \in Nat, NEW n \in Nat, r <= n, NEW final \in BOOLEAN, final => n = r
  PROVE  LET x == Job!Decoded(r + 1 - Job!Held(r, FALSE), n, final)
         IN x \in Seq(Nat) /\ Job!Decoded(1, r, FALSE) \o x = Job!Decoded(1, n, final)
  <1> DEFINE h == r % 2
             c == r \div 2
             d == n \div 2
             from == r + 1 - h
             e == IF final /\ n % 2 = 1 THEN <<0>> ELSE <<>>
             y == [k \in 1..(d - c) |-> c + k]
             x == Job!Decoded(from, n, final)
  <1>1. h \in {0, 1} /\ from \in Nat /\ from % 2 = 1 /\ from \div 2 = c /\ c \in Nat /\ d \in Nat /\ c <= d
    OBVIOUS
  <1>2. Job!Held(r, FALSE) = h
    BY DEF Job!Held
  <1>3. final /\ n % 2 = 1 => n >= from
    OBVIOUS
  <1>4. x = (<<>> \o y) \o e
    <2>1. ~(from <= n /\ from % 2 = 0) /\ (final /\ n >= from /\ n % 2 = 1 <=> final /\ n % 2 = 1)
      BY <1>1, <1>3
    <2> HIDE DEF from, c, h
    <2> QED BY <2>1, <1>1 DEF Job!Decoded
  <1>5. y \in Seq(Nat) /\ Len(y) = d - c /\ \A k \in 1..(d - c) : y[k] = c + k
    <2> HIDE DEF c, d
    <2>1. d - c \in Nat /\ \A k \in 1..(d - c) : c + k \in Nat
      BY <1>1
    <2> QED BY <2>1
  <1>6. e \in Seq(Nat)
    OBVIOUS
  <1> HIDE DEF y, e, x, c, d, from, h
  <1>7. x = y \o e /\ y \o e \in Seq(Nat)
    BY <1>4, <1>5, <1>6, ConcatEmptySeq, ConcatProperties
  <1>8. Job!Decoded(1, r, FALSE) = Chars(r) /\ Chars(r) \in Seq(Nat) /\ Len(Chars(r)) = c
    BY DecodedIs, ConcatEmptySeq DEF c
  <1>9. Job!Decoded(1, n, final) = Chars(n) \o e /\ Chars(n) \in Seq(Nat) /\ Len(Chars(n)) = d
    BY DecodedIs DEF e, d
  <1>10. Chars(r) \o y = Chars(n)
    <2>1. Chars(r) \o y \in Seq(Nat) /\ Len(Chars(r) \o y) = c + (d - c)
          /\ \A i \in 1..c + (d - c) : (Chars(r) \o y)[i] = IF i <= c THEN Chars(r)[i] ELSE y[i - c]
      <3>1. /\ Chars(r) \o y \in Seq(Nat) /\ Len(Chars(r) \o y) = Len(Chars(r)) + Len(y)
            /\ \A i \in 1..Len(Chars(r)) + Len(y) :
                  (Chars(r) \o y)[i] = IF i <= Len(Chars(r)) THEN Chars(r)[i] ELSE y[i - Len(Chars(r))]
        BY <1>5, <1>8, ConcatProperties
      <3> QED BY <3>1, <1>5, <1>8
    <2>2. c + (d - c) = d
      BY <1>1
    <2>3. \A i \in 1..d : (Chars(r) \o y)[i] = Chars(n)[i]
      <3> SUFFICES ASSUME NEW i \in 1..d PROVE (Chars(r) \o y)[i] = Chars(n)[i]
        OBVIOUS
      <3>1. Chars(n)[i] = i
        BY DEF Chars, d
      <3>2. CASE i <= c
        <4>1. i \in 1..c
          BY <1>1, <3>2
        <4>2. Chars(r)[i] = i
          BY <4>1 DEF Chars, c
        <4> QED BY <2>1, <2>2, <3>1, <3>2, <4>2
      <3>3. CASE ~(i <= c)
        <4>1. i - c \in 1..(d - c) /\ c + (i - c) = i
          BY <1>1, <3>3
        <4> QED BY <1>5, <2>1, <2>2, <3>1, <3>3, <4>1
      <3> QED BY <3>2, <3>3
    <2> QED BY <2>1, <2>2, <2>3, <1>9, SeqEqual
  <1>11. (Chars(r) \o y) \o e = Chars(r) \o (y \o e)
    BY <1>5, <1>6, <1>8, JoinThree
  <1> QED BY <1>2, <1>7, <1>8, <1>9, <1>10, <1>11 DEF x, from

-----------------------------------------------------------------------------
(* append_stream.                                                          *)

\* What a command of the system, and a job, may be.
ProcState ==
    [leader : BOOLEAN, why : {"none", "exit", "TERM", "KILL"}, child : BOOLEAN, deafLeader : BOOLEAN,
     deafChild : BOOLEAN, wrote : Nat, read : Nat, eof : BOOLEAN, kind : {"bash", "job"},
     ended : {"no", "exit", "timeout", "cancelled", "promoted"}]
JobState ==
    [p : Nat, status : {"running", "done", "killed"}, code : {"none", "exit", "TERM", "KILL"}, log : BOOLEAN,
     buffer : Seq(Seq(Nat)), cut : BOOLEAN, held : {0, 1}, drain : {"on", "off", "none"}, stop : BOOLEAN]

\* What a job shows is the end of text, all of it unless something was cut.
Shows(job, text) ==
    /\ Ends(Job!FlattenSeq(job.buffer), text)
    /\ Len(Job!FlattenSeq(job.buffer)) <= BUFFER_LIMIT
    /\ ~job.cut => Job!FlattenSeq(job.buffer) = text

\* One sequence joined is that sequence.
LEMMA FlattenOne ==
  ASSUME NEW x \in Seq(Nat)
  PROVE  Job!FlattenSeq(<<x>>) = x /\ <<x>> \in Seq(Seq(Nat))
  <1>1. <<>> \in Seq(Seq(Nat)) /\ Append(<<>>, x) = <<x>> /\ <<x>> \in Seq(Seq(Nat))
    OBVIOUS
  <1>2. Job!FlattenSeq(Append(<<>>, x)) = Job!FlattenSeq(<<>>) \o x
    BY <1>1, FlattenAppend
  <1>3. <<>> \o x = x
    BY ConcatEmptySeq
  <1> QED BY <1>1, <1>2, <1>3, FlattenNone

\* Job new is job with another buffer.
Rebuffered(job, new) == \E b, c : new = [job EXCEPT !.buffer = b, !.cut = c]

\* append_stream adds text to what the job shows.
LEMMA AppendShows ==
  ASSUME NEW job \in JobState, NEW old \in Seq(Nat), NEW text \in Seq(Nat), Shows(job, old)
  PROVE  /\ Shows(Job!append_stream(job, text), old \o text) /\ Job!append_stream(job, text) \in JobState
         /\ Rebuffered(job, Job!append_stream(job, text))
  <1> DEFINE parts == Append(job.buffer, text)
             fits(k) == Len(Job!FlattenSeq(SubSeq(parts, k, Len(parts)))) <= BUFFER_LIMIT
             N == Len(parts)
             IsFirst(k) == (fits(k) \/ k = N) /\ \A i \in 1..(k - 1) : ~fits(i)
             first == CHOOSE k \in 1..N : IsFirst(k)
             kept == SubSeq(parts, first, N)
             one == parts[N]
             last == SubSeq(one, Len(one) - BUFFER_LIMIT + 1, Len(one))
             new == Job!append_stream(job, text)
  <1>1. job.buffer \in Seq(Seq(Nat)) /\ job.cut \in BOOLEAN /\ BUFFER_LIMIT \in Nat
    BY JobConstants DEF JobState
  <1>2. /\ parts \in Seq(Seq(Nat)) /\ N \in Nat /\ N >= 1 /\ one = text /\ N = Len(job.buffer) + 1
        /\ Len(job.buffer) \in Nat
    BY <1>1, AppendProperties
  <1>3. Job!FlattenSeq(parts) = Job!FlattenSeq(job.buffer) \o text /\ Job!FlattenSeq(job.buffer) \in Seq(Nat)
    BY <1>1, FlattenAppend, FlattenIsSeq
  <1>4. Job!FlattenSeq(parts) \in Seq(Nat) /\ old \o text \in Seq(Nat)
    BY <1>2, FlattenIsSeq, ConcatProperties
  <1>5. Ends(Job!FlattenSeq(parts), old \o text)
    BY <1>3, EndsMore DEF Shows
  <1>6. ~job.cut => Job!FlattenSeq(parts) = old \o text
    BY <1>3 DEF Shows
  <1>7. first \in 1..N /\ IsFirst(first)
    <2> DEFINE B == {k \in 1..N : fits(k) \/ k = N}
    <2>1. N \in B /\ B \in SUBSET (0..N)
      BY <1>2
    <2>2. PICK k \in B : \A j \in B : k <= j
      <3> HIDE DEF B, N
      <3> QED BY <1>2, <2>1, LeastOf
    <2> HIDE DEF fits
    <2>3. k \in 1..N /\ IsFirst(k)
      <3>1. k \in 1..N /\ (fits(k) \/ k = N)
        BY <2>2
      <3>2. \A i \in 1..(k - 1) : ~fits(i)
        <4> SUFFICES ASSUME NEW i \in 1..(k - 1), fits(i) PROVE FALSE
          OBVIOUS
        <4>1. i \in 1..N /\ ~(k <= i)
          BY <3>1, <1>2
        <4> QED BY <4>1, <2>2
      <3> QED BY <3>1, <3>2
    <2> HIDE DEF IsFirst
    <2> QED BY <2>3
  <1> HIDE DEF N, first
  <1>8. kept \in Seq(Seq(Nat)) /\ Ends(Job!FlattenSeq(kept), Job!FlattenSeq(parts))
    BY <1>2, <1>7, FlattenEnd DEF N
  <1>9. CASE text = <<>>
    <2>1. new = job
      BY <1>9 DEF Job!append_stream
    <2>2. old \o text = old
      BY <1>9, ConcatEmptySeq
    <2>3. job = [job EXCEPT !.buffer = job.buffer, !.cut = job.cut]
      BY DEF JobState
    <2>4. Rebuffered(job, new)
      BY <2>1, <2>3 DEF Rebuffered
    <2> QED BY <2>1, <2>2, <2>4
  <1>10. CASE text # <<>> /\ fits(first)
    <2>1. new = [job EXCEPT !.buffer = kept, !.cut = @ \/ first > 1]
      <3> HIDE DEF parts
      <3> QED BY <1>10, <1>2 DEF Job!append_stream, first, N, parts
    <2> HIDE DEF new
    <2>2. (first > 1) \in BOOLEAN
      OBVIOUS
    <2>3. new \in JobState /\ new.buffer = kept /\ new.cut = (job.cut \/ first > 1)
      BY <2>1, <1>1, <1>8 DEF JobState
    <2>4. Ends(Job!FlattenSeq(kept), old \o text)
      BY <1>4, <1>5, <1>8, FlattenIsSeq, EndsEnd
    <2>5. Len(Job!FlattenSeq(kept)) <= BUFFER_LIMIT
      BY <1>10 DEF N
    <2>6. ~new.cut => Job!FlattenSeq(kept) = old \o text
      <3> SUFFICES ASSUME ~new.cut PROVE Job!FlattenSeq(kept) = old \o text
        OBVIOUS
      <3>0. ~job.cut /\ ~(first > 1)
        BY <2>3
      <3>1. ~job.cut /\ first = 1
        BY <3>0, <1>2, <1>7
      <3>2. kept = parts
        BY <3>1, <1>2, SubSeqFull DEF N
      <3> QED BY <3>1, <3>2, <1>6
    <2>7. Rebuffered(job, new)
      BY <2>1 DEF Rebuffered
    <2> HIDE DEF kept
    <2>8. Shows(new, old \o text)
      BY <2>3, <2>4, <2>5, <2>6 DEF Shows
    <2> QED BY <2>3, <2>7, <2>8 DEF new
  <1>11. CASE text # <<>> /\ ~fits(first)
    <2>1. first = N
      BY <1>7, <1>11
    <2>2. new = [job EXCEPT !.buffer = <<last>>, !.cut = TRUE]
      BY <1>11, <1>2 DEF Job!append_stream, first, N
    <2> HIDE DEF new
    <2>3. Len(text) > BUFFER_LIMIT
      <3>1. SubSeq(parts, N, N) = <<text>>
        <4>1. N \in 1..Len(parts)
          BY <1>2 DEF N
        <4> HIDE DEF parts
        <4>2. SubSeq(parts, N, N) = <<parts[N]>>
          <5>1. N \in 1..Len(parts) /\ N \in N..Len(parts) /\ N + 1 \in Int /\ N \in Int /\ N < N + 1
            BY <1>2, <4>1 DEF N
          <5>2. SubSeq(parts, N, N) = <<parts[N]>> \o SubSeq(parts, N + 1, N)
            BY <1>2, <5>1, SubSeqRecursiveFirst
          <5>3. SubSeq(parts, N + 1, N) = <<>>
            BY <5>1, SubSeqEmpty
          <5>4. <<parts[N]>> \in Seq(Seq(Nat))
            BY <1>2 DEF N
          <5> QED BY <5>2, <5>3, <5>4, ConcatEmptySeq
        <4> QED BY <1>2, <4>2
      <3>2. Job!FlattenSeq(<<text>>) = text
        BY FlattenOne
      <3>3. ~(Len(text) <= BUFFER_LIMIT)
        BY <1>11, <2>1, <3>1, <3>2 DEF N
      <3> QED BY <3>3, <1>1
    <2>4. last \in Seq(Nat) /\ Len(last) = BUFFER_LIMIT /\ Ends(last, text)
      <3>1. text \in Seq(Nat) /\ BUFFER_LIMIT \in Nat /\ BUFFER_LIMIT <= Len(text)
        BY <1>1, <2>3
      <3>2. IsLast(SubSeq(text, Len(text) - BUFFER_LIMIT + 1, Len(text)), BUFFER_LIMIT, text)
        BY <3>1, EndsLast
      <3>3. one = text
        BY <1>2
      <3> HIDE DEF one
      <3>4. IsLast(last, BUFFER_LIMIT, text)
        BY <3>2, <3>3
      <3> HIDE DEF last
      <3> QED BY <3>4 DEF IsLast
    <2>5. Job!FlattenSeq(<<last>>) = last /\ <<last>> \in Seq(Seq(Nat))
      <3> HIDE DEF last
      <3> QED BY <2>4, FlattenOne
    <2>6. Ends(last, old \o text)
      BY <1>4, <2>4, EndsAdded, EndsEnd
    <2> HIDE DEF last
    <2>7. new \in JobState /\ new.buffer = <<last>> /\ new.cut = TRUE
      BY <2>2, <2>5 DEF JobState
    <2>8. Rebuffered(job, new)
      BY <2>2 DEF Rebuffered
    <2>9. Shows(new, old \o text)
      BY SMTT(40), <1>1, <2>4, <2>5, <2>6, <2>7 DEF Shows
    <2> QED BY <2>7, <2>8, <2>9 DEF new
  <1> HIDE DEF fits, new
  <1> QED BY <1>9, <1>10, <1>11

-----------------------------------------------------------------------------
(* The invariant of the jobs.                                              *)

AgentState ==
    [pc : {"idle", "loop", "killing", "wait", "kill"}, p : Nat, text : Seq(Nat), held : {0, 1},
     clock : {"early", "waited", "over"}, timedOut : BOOLEAN]
KillerState == [pc : {"none", "next", "term", "wait", "settle", "join"}, j : Nat]

\* Command p holds its pipe.
Holding(ps, p) == ps[p].leader \/ ps[p].child

\* A pipe that ended is held by nobody, and so is one whose call is over.
ProcsFit(ps) ==
    /\ ps \in Seq(ProcState)
    /\ \A p \in 1..Len(ps) :
        /\ ps[p].read <= ps[p].wrote
        /\ ps[p].eof \/ ps[p].ended \in {"exit", "timeout", "cancelled"} => ~Holding(ps, p)

\* Jobs are numbered.
Numbered(js, c) == c \in Nat /\ DOMAIN js \subseteq 1..c /\ js \in [DOMAIN js -> JobState]

\* What the drainer of job j relies on, and what the job shows: no two jobs share a command, the byte a drainer
\* holds back is the one the last read stopped in, a job that is not running has lost its shell, and a promoted
\* command is shown as far as it was read.
JobsFit(ps, js) ==
    /\ \A i, j \in DOMAIN js : js[i].p = js[j].p => i = j
    /\ \A j \in DOMAIN js :
        /\ js[j].p \in 1..Len(ps)
        /\ js[j].status # "running" => ~ps[js[j].p].leader
        /\ js[j].drain = "on" => /\ ps[js[j].p].kind = "bash" /\ ~ps[js[j].p].eof
                                 /\ js[j].held = Job!Held(ps[js[j].p].read, FALSE)
        /\ ps[js[j].p].kind = "bash" => /\ ps[js[j].p].ended = "promoted"
                                        /\ Shows(js[j], Job!Decoded(1, ps[js[j].p].read, ps[js[j].p].eof))

\* What the call at work has of its command.
AgentFits(a, ps, js) ==
    /\ a \in AgentState
    /\ a.pc \in {"loop", "killing"} =>
        /\ a.p \in 1..Len(ps) /\ ps[a.p].kind = "bash" /\ ps[a.p].ended = "no"
        /\ a.text = Job!Decoded(1, ps[a.p].read, ps[a.p].eof)
        /\ a.held = Job!Held(ps[a.p].read, ps[a.p].eof)
        /\ a.pc = "killing" => ~Holding(ps, a.p)
    /\ a.pc = "wait" => a.p \in DOMAIN js

\* Past the wait the shell is gone, past the settling the log.
KillerFits(k, ps, js) ==
    /\ k \in KillerState
    /\ k.pc \in {"term", "wait", "settle", "join"} => k.j \in DOMAIN js
    /\ k.pc \in {"settle", "join"} => ~ps[js[k.j].p].leader
    /\ k.pc = "join" => ~js[k.j].log

\* Between poll and write the shell is gone.
GlanceFits(g, ps, js) == g # 0 => g \in DOMAIN js /\ ~ps[js[g].p].leader

Reaped(ps, js, j) == ~ps[js[j].p].leader /\ js[j].drain # "on" /\ ~js[j].log

\* A shutdown runs alone and has reaped the jobs it has passed.
Phases(ph, a, g, k, ps, js) ==
    /\ ph \in {"open", "closing", "closed"}
    /\ ph # "open" => a.pc = "idle" /\ g = 0
    /\ ph = "closing" => \A j \in DOMAIN js : j < k.j \/ (j = k.j /\ k.pc = "next") => Reaped(ps, js, j)
    /\ ph = "closed" => \A j \in DOMAIN js : Reaped(ps, js, j)

\* The inductive invariant of the jobs.
JobInv ==
    /\ ProcsFit(procs) /\ Numbered(jobs, counter) /\ JobsFit(procs, jobs) /\ AgentFits(agent, procs, jobs)
    /\ KillerFits(killer, procs, jobs) /\ GlanceFits(glance, procs, jobs)
    /\ Phases(phase, agent, glance, killer, procs, jobs)

LEMMA JobInit == Job!Init => JobInv
  <1> SUFFICES ASSUME Job!Init PROVE JobInv
    OBVIOUS
  <1>1. /\ procs = <<>> /\ jobs = <<>> /\ counter = 0 /\ agent = Job!Idle /\ killer = Job!NoKill /\ glance = 0
        /\ phase = "open" /\ DOMAIN jobs = {} /\ Len(procs) = 0 /\ procs \in Seq(ProcState)
    BY DEF Job!Init
  <1>2. <<>> \in Seq(Nat)
    OBVIOUS
  <1>3. AgentFits(agent, procs, jobs) /\ KillerFits(killer, procs, jobs)
    BY <1>1, <1>2 DEF AgentFits, AgentState, Job!Idle, KillerFits, KillerState, Job!NoKill
  <1>4. Numbered(jobs, counter)
    <2>1. jobs = [j \in {} |-> jobs[j]]
      BY <1>1
    <2> QED BY <1>1, <2>1 DEF Numbered
  <1> QED BY <1>1, <1>3, <1>4 DEF JobInv, ProcsFit, JobsFit, GlanceFits, Phases

\* Processes a moment later: some have ended or written, nothing was read.
Later(ps, qs) ==
    /\ qs \in Seq(ProcState) /\ Len(qs) = Len(ps)
    /\ \A p \in 1..Len(ps) :
        /\ qs[p].read = ps[p].read /\ qs[p].eof = ps[p].eof /\ qs[p].kind = ps[p].kind
        /\ qs[p].ended = ps[p].ended /\ qs[p].wrote >= ps[p].wrote
        /\ (qs[p].leader => ps[p].leader) /\ (qs[p].child => ps[p].child)

\* Everything fits a moment later.
LEMMA LaterFits ==
  ASSUME NEW ps, NEW qs, NEW js, NEW a, NEW k, NEW g, NEW ph, ProcsFit(ps), JobsFit(ps, js), Later(ps, qs)
  PROVE  /\ ProcsFit(qs) /\ JobsFit(qs, js)
         /\ AgentFits(a, ps, js) => AgentFits(a, qs, js)
         /\ KillerFits(k, ps, js) => KillerFits(k, qs, js)
         /\ GlanceFits(g, ps, js) => GlanceFits(g, qs, js)
         /\ Phases(ph, a, g, k, ps, js) => Phases(ph, a, g, k, qs, js)
  <1>1. \A p \in 1..Len(ps) : ps[p] \in ProcState /\ qs[p] \in ProcState
    BY DEF ProcsFit, Later
  <1>2. ProcsFit(qs)
    <2> SUFFICES ASSUME NEW p \in 1..Len(qs)
                 PROVE  /\ qs[p].read <= qs[p].wrote
                        /\ qs[p].eof \/ qs[p].ended \in {"exit", "timeout", "cancelled"} => ~Holding(qs, p)
      BY DEF ProcsFit, Later
    <2>1. p \in 1..Len(ps)
      BY DEF Later
    <2>2. qs[p].read <= qs[p].wrote
      <3>1. ps[p].read \in Nat /\ ps[p].wrote \in Nat /\ qs[p].wrote \in Nat
        BY <1>1, <2>1 DEF ProcState
      <3> QED BY <2>1, <3>1 DEF Later, ProcsFit
    <2> QED BY <2>1, <2>2 DEF Later, ProcsFit, Holding
  <1>3. JobsFit(qs, js)
    <2>1. \A i, j \in DOMAIN js : js[i].p = js[j].p => i = j
      BY DEF JobsFit
    <2>2. ASSUME NEW j \in DOMAIN js
          PROVE  /\ js[j].p \in 1..Len(qs)
                 /\ js[j].status # "running" => ~qs[js[j].p].leader
                 /\ js[j].drain = "on" => /\ qs[js[j].p].kind = "bash" /\ ~qs[js[j].p].eof
                                          /\ js[j].held = Job!Held(qs[js[j].p].read, FALSE)
                 /\ qs[js[j].p].kind = "bash" =>
                        /\ qs[js[j].p].ended = "promoted"
                        /\ Shows(js[j], Job!Decoded(1, qs[js[j].p].read, qs[js[j].p].eof))
      <3>1. js[j].p \in 1..Len(ps)
        BY DEF JobsFit
      <3>2. js[j].p \in 1..Len(qs)
        BY <3>1 DEF Later
      <3>3. /\ qs[js[j].p].read = ps[js[j].p].read /\ qs[js[j].p].eof = ps[js[j].p].eof
            /\ qs[js[j].p].kind = ps[js[j].p].kind /\ qs[js[j].p].ended = ps[js[j].p].ended
            /\ (qs[js[j].p].leader => ps[js[j].p].leader)
        BY <3>1 DEF Later
      <3>4. /\ js[j].status # "running" => ~ps[js[j].p].leader
            /\ js[j].drain = "on" => /\ ps[js[j].p].kind = "bash" /\ ~ps[js[j].p].eof
                                     /\ js[j].held = Job!Held(ps[js[j].p].read, FALSE)
            /\ ps[js[j].p].kind = "bash" =>
                   /\ ps[js[j].p].ended = "promoted"
                   /\ Shows(js[j], Job!Decoded(1, ps[js[j].p].read, ps[js[j].p].eof))
        BY DEF JobsFit
      <3> QED BY <3>2, <3>3, <3>4
    <2> QED BY <2>1, <2>2 DEF JobsFit
  <1>4. AgentFits(a, ps, js) => AgentFits(a, qs, js)
    BY DEF AgentFits, Later, Holding
  <1>5. KillerFits(k, ps, js) => KillerFits(k, qs, js)
    BY DEF KillerFits, Later, JobsFit
  <1>6. GlanceFits(g, ps, js) => GlanceFits(g, qs, js)
    BY DEF GlanceFits, Later, JobsFit
  <1>7. Phases(ph, a, g, k, ps, js) => Phases(ph, a, g, k, qs, js)
    <2>1. \A j \in DOMAIN js : Reaped(ps, js, j) => Reaped(qs, js, j)
      BY DEF Reaped, Later, JobsFit
    <2> QED BY <2>1 DEF Phases
  <1> QED BY <1>2, <1>3, <1>4, <1>5, <1>6, <1>7

\* Job y is job x a moment later: it has shown nothing more.
Onward(x, y, dead) ==
    /\ y \in JobState /\ y.p = x.p /\ y.buffer = x.buffer /\ y.cut = x.cut /\ y.held = x.held
    /\ y.drain = x.drain \/ y.drain = "off"
    /\ y.log => x.log
    /\ y.status # "running" => dead

\* Jobs a moment later.
JobsOnward(ps, js, ks) ==
    /\ DOMAIN ks = DOMAIN js /\ ks \in [DOMAIN ks -> JobState]
    /\ \A j \in DOMAIN js : Onward(js[j], ks[j], ~ps[js[j].p].leader)

\* Everything fits jobs a moment later.
LEMMA OnwardFits ==
  ASSUME NEW ps, NEW js, NEW ks, NEW a, NEW k, NEW g, NEW ph, NEW c, JobsFit(ps, js), JobsOnward(ps, js, ks)
  PROVE  /\ JobsFit(ps, ks)
         /\ Numbered(js, c) => Numbered(ks, c)
         /\ AgentFits(a, ps, js) => AgentFits(a, ps, ks)
         /\ KillerFits(k, ps, js) => KillerFits(k, ps, ks)
         /\ GlanceFits(g, ps, js) => GlanceFits(g, ps, ks)
         /\ Phases(ph, a, g, k, ps, js) => Phases(ph, a, g, k, ps, ks)
  <1>1. JobsFit(ps, ks)
    <2>1. \A i, j \in DOMAIN ks : ks[i].p = ks[j].p => i = j
      BY DEF JobsFit, JobsOnward, Onward
    <2>2. ASSUME NEW j \in DOMAIN ks
          PROVE  /\ ks[j].p \in 1..Len(ps)
                 /\ ks[j].status # "running" => ~ps[ks[j].p].leader
                 /\ ks[j].drain = "on" => /\ ps[ks[j].p].kind = "bash" /\ ~ps[ks[j].p].eof
                                          /\ ks[j].held = Job!Held(ps[ks[j].p].read, FALSE)
                 /\ ps[ks[j].p].kind = "bash" =>
                        /\ ps[ks[j].p].ended = "promoted"
                        /\ Shows(ks[j], Job!Decoded(1, ps[ks[j].p].read, ps[ks[j].p].eof))
      <3>1. j \in DOMAIN js /\ Onward(js[j], ks[j], ~ps[js[j].p].leader)
        BY DEF JobsOnward
      <3>2. \A text : Shows(js[j], text) => Shows(ks[j], text)
        BY <3>1 DEF Shows, Onward
      <3> QED BY ZenonT(60), <3>1, <3>2 DEF JobsFit, Onward
    <2> QED BY <2>1, <2>2 DEF JobsFit
  <1>2. Numbered(js, c) => Numbered(ks, c)
    BY DEF Numbered, JobsOnward
  <1>3. AgentFits(a, ps, js) => AgentFits(a, ps, ks)
    BY DEF AgentFits, JobsOnward
  <1>4. KillerFits(k, ps, js) => KillerFits(k, ps, ks)
    BY DEF KillerFits, JobsOnward, Onward
  <1>5. GlanceFits(g, ps, js) => GlanceFits(g, ps, ks)
    BY DEF GlanceFits, JobsOnward, Onward
  <1>6. Phases(ph, a, g, k, ps, js) => Phases(ph, a, g, k, ps, ks)
    <2>1. \A j \in DOMAIN js : Reaped(ps, js, j) => Reaped(ps, ks, j)
      BY DEF Reaped, JobsOnward, Onward
    <2> QED BY <2>1 DEF Phases, JobsOnward
  <1> QED BY <1>1, <1>2, <1>3, <1>4, <1>5, <1>6

-----------------------------------------------------------------------------
(* What commands do, and signals.                                          *)

\* One command changes, not in what was read of it.
LEMMA OneLater ==
  ASSUME NEW ps \in Seq(ProcState), NEW p \in 1..Len(ps), NEW r \in ProcState,
         r.read = ps[p].read, r.eof = ps[p].eof, r.kind = ps[p].kind, r.ended = ps[p].ended,
         r.wrote >= ps[p].wrote, r.leader => ps[p].leader, r.child => ps[p].child
  PROVE  Later(ps, [ps EXCEPT ![p] = r])
  <1> DEFINE qs == [ps EXCEPT ![p] = r]
  <1>1. qs \in Seq(ProcState) /\ Len(qs) = Len(ps) /\ \A x \in 1..Len(ps) : qs[x] = IF x = p THEN r ELSE ps[x]
    BY ExceptSeq
  <1>2. \A x \in 1..Len(ps) : ps[x] \in ProcState
    OBVIOUS
  <1>3. \A x \in 1..Len(ps) : ps[x].wrote \in Nat
    BY <1>2 DEF ProcState
  <1> HIDE DEF qs
  <1>4. \A x \in 1..Len(ps) : x # p => qs[x] = ps[x]
    BY <1>1
  <1>5. qs[p] = r
    BY <1>1
  <1>6. \A x \in 1..Len(ps) :
          /\ qs[x].read = ps[x].read /\ qs[x].eof = ps[x].eof /\ qs[x].kind = ps[x].kind
          /\ qs[x].ended = ps[x].ended /\ qs[x].wrote >= ps[x].wrote
          /\ (qs[x].leader => ps[x].leader) /\ (qs[x].child => ps[x].child)
    <2> SUFFICES ASSUME NEW x \in 1..Len(ps)
                 PROVE  /\ qs[x].read = ps[x].read /\ qs[x].eof = ps[x].eof /\ qs[x].kind = ps[x].kind
                        /\ qs[x].ended = ps[x].ended /\ qs[x].wrote >= ps[x].wrote
                        /\ (qs[x].leader => ps[x].leader) /\ (qs[x].child => ps[x].child)
      OBVIOUS
    <2>1. CASE x = p
      BY <2>1, <1>5
    <2>2. CASE x # p
      BY <2>2, <1>3, <1>4
    <2> QED BY <2>1, <2>2
  <1> QED BY <1>1, <1>6 DEF Later, qs

\* What the processes do of themselves, and what a signal does to them.
LEMMA ProcessLater ==
  ASSUME NEW ps \in Seq(ProcState), NEW p \in 1..Len(ps)
  PROVE  /\ Later(ps, [ps EXCEPT ![p].wrote = @ + 1])
         /\ Later(ps, [ps EXCEPT ![p].leader = FALSE, ![p].why = "exit"])
         /\ Later(ps, [ps EXCEPT ![p].child = FALSE])
         /\ Later(ps, Job!kill_process_group(ps, p)) /\ ~Holding(Job!kill_process_group(ps, p), p)
         /\ Later(ps, Job!Terminate(ps, p))
  <1> DEFINE r == ps[p]
  <1>0. r \in ProcState
    OBVIOUS
  <1> DEFINE kw == IF r.leader THEN "KILL" ELSE r.why
             tw == IF r.leader /\ ~r.deafLeader THEN "TERM" ELSE r.why
             r1 == [r EXCEPT !.wrote = r.wrote + 1]
             r2 == [r EXCEPT !.leader = FALSE, !.why = "exit"]
             r3 == [r EXCEPT !.child = FALSE]
             r4 == [r EXCEPT !.leader = FALSE, !.child = FALSE, !.why = kw]
             tl == r.leader /\ r.deafLeader
             tc == r.child /\ r.deafChild
             r5 == [r EXCEPT !.leader = tl, !.child = tc, !.why = tw]
  <1>1. [ps EXCEPT ![p].wrote = @ + 1] = [ps EXCEPT ![p] = r1]
    OBVIOUS
  <1>2. [ps EXCEPT ![p].leader = FALSE, ![p].why = "exit"] = [ps EXCEPT ![p] = r2]
    OBVIOUS
  <1>3. [ps EXCEPT ![p].child = FALSE] = [ps EXCEPT ![p] = r3]
    OBVIOUS
  <1>4. Job!kill_process_group(ps, p) = [ps EXCEPT ![p] = r4]
    BY DEF Job!kill_process_group
  <1>5. Job!Terminate(ps, p) = [ps EXCEPT ![p] = r5]
    BY DEF Job!Terminate
  <1> HIDE DEF r
  <1>6. r1 \in ProcState /\ r2 \in ProcState /\ r3 \in ProcState /\ r4 \in ProcState
    <2>1. r1 \in ProcState
      <3>1. r.wrote + 1 \in Nat
        BY <1>0 DEF ProcState
      <3> QED BY <1>0, <3>1 DEF ProcState
    <2>a. r2 \in ProcState
      <3>1. FALSE \in BOOLEAN /\ "exit" \in {"none", "exit", "TERM", "KILL"}
        OBVIOUS
      <3> QED BY <1>0, <3>1 DEF ProcState
    <2>b. r3 \in ProcState
      <3>1. FALSE \in BOOLEAN
        OBVIOUS
      <3> QED BY <1>0, <3>1 DEF ProcState
    <2>2. kw \in {"none", "exit", "TERM", "KILL"} /\ FALSE \in BOOLEAN
      BY <1>0 DEF ProcState
    <2> HIDE DEF kw
    <2>3. r4 \in ProcState
      BY <1>0, <2>2 DEF ProcState
    <2> QED BY <2>1, <2>a, <2>b, <2>3
  <1>7. tl \in BOOLEAN /\ tc \in BOOLEAN /\ tw \in {"none", "exit", "TERM", "KILL"}
    BY <1>0 DEF ProcState
  <1>8. r5 \in ProcState /\ r5.read = r.read /\ r5.eof = r.eof /\ r5.kind = r.kind /\ r5.ended = r.ended
          /\ r5.wrote = r.wrote /\ r5.leader = tl /\ r5.child = tc
    <2> HIDE DEF tl, tc, tw
    <2>1. r5 \in ProcState
      BY <1>0, <1>7 DEF ProcState
    <2>2. r5.read = r.read /\ r5.eof = r.eof /\ r5.kind = r.kind /\ r5.ended = r.ended /\ r5.wrote = r.wrote
      BY <1>0 DEF ProcState
    <2>3. r5.leader = tl
      BY <1>0 DEF ProcState
    <2>4. r5.child = tc
      BY <1>0 DEF ProcState
    <2> QED BY <2>1, <2>2, <2>3, <2>4
  <1>9. r.wrote \in Nat
    BY <1>0 DEF ProcState
  <1>10. /\ r1.read = r.read /\ r1.eof = r.eof /\ r1.kind = r.kind /\ r1.ended = r.ended
         /\ r1.wrote = r.wrote + 1 /\ r1.leader = r.leader /\ r1.child = r.child
    BY <1>0 DEF ProcState
  <1>11. /\ r2.read = r.read /\ r2.eof = r.eof /\ r2.kind = r.kind /\ r2.ended = r.ended
         /\ r2.wrote = r.wrote /\ r2.leader = FALSE /\ r2.child = r.child
    BY <1>0 DEF ProcState
  <1>12. /\ r3.read = r.read /\ r3.eof = r.eof /\ r3.kind = r.kind /\ r3.ended = r.ended
         /\ r3.wrote = r.wrote /\ r3.leader = r.leader /\ r3.child = FALSE
    BY <1>0 DEF ProcState
  <1>13. /\ r4.read = r.read /\ r4.eof = r.eof /\ r4.kind = r.kind /\ r4.ended = r.ended
         /\ r4.wrote = r.wrote /\ r4.leader = FALSE /\ r4.child = FALSE
    BY <1>0 DEF ProcState
  <1>14. r5.leader => r.leader
    BY <1>8
  <1>15. r5.child => r.child
    BY <1>8
  <1> HIDE DEF r1, r2, r3, r4, r5
  <1> USE DEF r
  <1>16. Later(ps, [ps EXCEPT ![p] = r1])
    BY <1>6, <1>9, <1>10, OneLater
  <1>17. Later(ps, [ps EXCEPT ![p] = r2])
    BY <1>6, <1>9, <1>11, OneLater
  <1>18. Later(ps, [ps EXCEPT ![p] = r3])
    BY <1>6, <1>9, <1>12, OneLater
  <1>19. Later(ps, [ps EXCEPT ![p] = r4]) /\ [ps EXCEPT ![p] = r4][p] = r4
    BY <1>6, <1>9, <1>13, OneLater
  <1>20. Later(ps, [ps EXCEPT ![p] = r5])
    BY <1>8, <1>9, <1>14, <1>15, OneLater
  <1> QED BY <1>1, <1>2, <1>3, <1>4, <1>5, <1>13, <1>16, <1>17, <1>18, <1>19, <1>20 DEF Holding

\* A step that only moves processes.
LEMMA ProcsKeep ==
  ASSUME JobInv, Later(procs, procs'), UNCHANGED <<jobs, counter, agent, killer, glance, phase>>
  PROVE  JobInv'
  BY LaterFits DEF JobInv

\* output and exits.
LEMMA KernelKeeps ==
  ASSUME JobInv, Job!Kernel
  PROVE  JobInv'
  <1>1. PICK p \in DOMAIN procs : Job!Write(p) \/ Job!Exit(p) \/ Job!ChildExit(p)
    BY DEF Job!Kernel
  <1>2. p \in 1..Len(procs) /\ procs \in Seq(ProcState)
    BY DEF JobInv, ProcsFit
  <1>3. Later(procs, procs') /\ UNCHANGED <<jobs, counter, agent, killer, glance, phase>>
    BY <1>1, <1>2, ProcessLater DEF Job!Write, Job!Exit, Job!ChildExit
  <1> QED BY <1>3, ProcsKeep

\* BackgroundJob.kill: the signals.
LEMMA KillSignalsKeep ==
  ASSUME JobInv, Job!KillTerm \/ Job!KillAfterGrace
  PROVE  JobInv'
  <1>1. killer \in KillerState /\ killer.j \in DOMAIN jobs /\ procs \in Seq(ProcState)
    BY DEF JobInv, KillerFits, ProcsFit, Job!KillTerm, Job!KillAfterGrace
  <1>2. jobs[killer.j].p \in 1..Len(procs)
    BY <1>1 DEF JobInv, JobsFit
  <1>3. Later(procs, procs') /\ UNCHANGED <<jobs, counter, agent, glance, phase>>
    BY <1>1, <1>2, ProcessLater DEF Job!KillTerm, Job!KillAfterGrace
  <1>4. ProcsFit(procs') /\ JobsFit(procs', jobs) /\ AgentFits(agent, procs', jobs)
          /\ KillerFits(killer, procs', jobs) /\ GlanceFits(glance, procs', jobs)
          /\ Phases(phase, agent, glance, killer, procs', jobs)
    BY <1>3, LaterFits DEF JobInv
  <1>5. killer'.j = killer.j /\ killer' \in KillerState /\ killer'.pc = "wait" /\ killer.pc \in {"term", "wait"}
    BY <1>1 DEF Job!KillTerm, Job!KillAfterGrace, KillerState
  <1>6. KillerFits(killer', procs', jobs) /\ Phases(phase, agent, glance, killer', procs', jobs)
    BY <1>1, <1>4, <1>5 DEF KillerFits, Phases
  <1> QED BY <1>3, <1>4, <1>6 DEF JobInv

\* The shell timeout and a cancellation kill the group.
LEMMA TimeoutKeeps ==
  ASSUME JobInv, Job!Timeout \/ Job!Cancel
  PROVE  JobInv'
  <1>1. /\ agent \in AgentState /\ agent.pc = "loop" /\ agent.p \in 1..Len(procs) /\ procs \in Seq(ProcState)
        /\ phase = "open"
    BY DEF JobInv, AgentFits, ProcsFit, Job!Timeout, Job!Cancel, Phases
  <1>2. procs' = Job!kill_process_group(procs, agent.p) /\ UNCHANGED <<jobs, counter, killer, glance, phase>>
    BY DEF Job!Timeout, Job!Cancel
  <1>3. Later(procs, procs') /\ ~Holding(procs', agent.p)
    BY <1>1, <1>2, ProcessLater
  <1>4. ProcsFit(procs') /\ JobsFit(procs', jobs) /\ AgentFits(agent, procs', jobs)
          /\ KillerFits(killer, procs', jobs) /\ GlanceFits(glance, procs', jobs)
          /\ Phases(phase, agent, glance, killer, procs', jobs)
    BY <1>3, LaterFits DEF JobInv
  <1>5. agent' \in AgentState /\ agent'.pc \in {"loop", "killing"} /\ agent'.p = agent.p /\ agent'.text = agent.text
          /\ agent'.held = agent.held
    BY <1>1 DEF Job!Timeout, Job!Cancel, AgentState
  <1>6. AgentFits(agent', procs', jobs)
    BY <1>1, <1>3, <1>4, <1>5 DEF AgentFits
  <1>7. Phases(phase, agent', glance, killer, procs', jobs)
    BY <1>1, <1>4 DEF Phases
  <1> QED BY <1>2, <1>4, <1>6, <1>7 DEF JobInv

\* Time passes.
LEMMA TickKeeps ==
  ASSUME JobInv, Job!Tick
  PROVE  JobInv'
  <1>1. agent \in AgentState /\ agent.pc = "loop" /\ phase = "open"
    BY DEF JobInv, AgentFits, Job!Tick, Phases
  <1>2. /\ agent' \in AgentState /\ agent'.pc = "loop" /\ agent'.p = agent.p /\ agent'.text = agent.text
        /\ agent'.held = agent.held /\ UNCHANGED <<procs, jobs, counter, killer, glance, phase>>
    BY <1>1 DEF Job!Tick, AgentState
  <1>3. AgentFits(agent', procs, jobs) /\ Phases(phase, agent', glance, killer, procs, jobs)
    BY <1>1, <1>2 DEF JobInv, AgentFits, Phases
  <1> QED BY <1>2, <1>3 DEF JobInv

-----------------------------------------------------------------------------
(* What only jobs do.                                                      *)

\* A step that only moves jobs.
LEMMA JobsKeep ==
  ASSUME JobInv, JobsOnward(procs, jobs, jobs'), UNCHANGED <<procs, counter, agent, killer, glance, phase>>
  PROVE  JobInv'
  BY OnwardFits DEF JobInv

\* A job as it is.
LEMMA SameOnward ==
  ASSUME JobInv, NEW j \in DOMAIN jobs
  PROVE  Onward(jobs[j], jobs[j], ~procs[jobs[j].p].leader)
  BY DEF JobInv, Numbered, JobsFit, Onward

\* update_status records an end that has happened.
LEMMA StatusOnward ==
  ASSUME JobInv, NEW j \in DOMAIN jobs
  PROVE  /\ Onward(jobs[j], Job!update_status(j), ~procs[jobs[j].p].leader)
         /\ Job!update_status(j).stop = jobs[j].stop
  <1>1. jobs[j] \in JobState /\ jobs[j].p \in 1..Len(procs) /\ procs \in Seq(ProcState)
    BY DEF JobInv, Numbered, JobsFit, ProcsFit
  <1>2. procs[jobs[j].p].why \in {"none", "exit", "TERM", "KILL"}
    <2>1. procs[jobs[j].p] \in ProcState
      BY <1>1
    <2> QED BY <2>1 DEF ProcState
  <1> DEFINE why == procs[jobs[j].p].why
  <1>3. CASE jobs[j].status = "running" /\ ~procs[jobs[j].p].leader
    <2>1. Job!update_status(j) = [jobs[j] EXCEPT !.status = "done", !.code = why]
      BY <1>3 DEF Job!update_status, Job!alive
    <2>2. "done" \in {"running", "done", "killed"}
      OBVIOUS
    <2> HIDE DEF why
    <2>3. [jobs[j] EXCEPT !.status = "done", !.code = why] \in JobState
      BY <1>1, <1>2, <2>2 DEF JobState, why
    <2> QED BY <1>1, <1>3, <2>1, <2>3 DEF Onward, JobState
  <1>4. CASE ~(jobs[j].status = "running" /\ ~procs[jobs[j].p].leader)
    <2>1. Job!update_status(j) = jobs[j]
      BY <1>4 DEF Job!update_status, Job!alive
    <2> QED BY <2>1, SameOnward
  <1> QED BY <1>3, <1>4

\* One job moves on.
LEMMA OneOnward ==
  ASSUME JobInv, NEW j \in DOMAIN jobs, NEW y, Onward(jobs[j], y, ~procs[jobs[j].p].leader)
  PROVE  JobsOnward(procs, jobs, [jobs EXCEPT ![j] = y]) /\ [jobs EXCEPT ![j] = y][j] = y
  <1> DEFINE ks == [jobs EXCEPT ![j] = y]
  <1>1. jobs \in [DOMAIN jobs -> JobState] /\ y \in JobState
    BY DEF JobInv, Numbered, Onward
  <1>2. ks \in [DOMAIN jobs -> JobState] /\ DOMAIN ks = DOMAIN jobs /\ ks[j] = y
          /\ \A i \in DOMAIN jobs : i # j => ks[i] = jobs[i]
    BY <1>1
  <1> HIDE DEF ks
  <1>3. \A i \in DOMAIN jobs : Onward(jobs[i], ks[i], ~procs[jobs[i].p].leader)
    BY <1>2, SameOnward
  <1> QED BY <1>2, <1>3 DEF JobsOnward, ks

\* All jobs are looked at.
LEMMA RefreshedOnward ==
  ASSUME JobInv
  PROVE  JobsOnward(procs, jobs, Job!Refreshed)
  <1>1. \A j \in DOMAIN jobs : Onward(jobs[j], Job!update_status(j), ~procs[jobs[j].p].leader)
    BY StatusOnward
  <1>2. DOMAIN Job!Refreshed = DOMAIN jobs /\ \A j \in DOMAIN jobs : Job!Refreshed[j] = Job!update_status(j)
    BY DEF Job!Refreshed
  <1>3. \A j \in DOMAIN jobs : Job!update_status(j) \in JobState
    BY <1>1 DEF Onward
  <1>4. Job!Refreshed \in [DOMAIN jobs -> JobState]
    BY <1>3 DEF Job!Refreshed
  <1> QED BY <1>1, <1>2, <1>4 DEF JobsOnward

\* status, list.
LEMMA LookKeeps ==
  ASSUME JobInv, Job!Look
  PROVE  JobInv'
  BY RefreshedOnward, JobsKeep DEF Job!Look

\* An idle agent fits.
LEMMA IdleFits ==
  ASSUME NEW ps, NEW js, NEW a, NEW k, NEW g, NEW ph
  PROVE  /\ AgentFits(Job!Idle, ps, js)
         /\ Phases(ph, a, g, k, ps, js) => Phases(ph, Job!Idle, g, k, ps, js)
  <1>1. <<>> \in Seq(Nat)
    OBVIOUS
  <1> QED BY <1>1 DEF AgentFits, AgentState, Job!Idle, Phases

\* wait comes back.
LEMMA WaitEndsKeeps ==
  ASSUME JobInv, Job!WaitEnds
  PROVE  JobInv'
  <1>1. agent.p \in DOMAIN jobs
    BY DEF JobInv, AgentFits, Job!WaitEnds
  <1>2. jobs' = [jobs EXCEPT ![agent.p] = Job!update_status(agent.p)] /\ agent' = Job!Idle
          /\ UNCHANGED <<procs, counter, killer, glance, phase>>
    BY DEF Job!WaitEnds
  <1>3. JobsOnward(procs, jobs, jobs')
    BY <1>1, <1>2, StatusOnward, OneOnward
  <1> QED BY <1>2, <1>3, OnwardFits, IdleFits DEF JobInv

\* wait starts.
LEMMA WaitJobKeeps ==
  ASSUME JobInv, NEW j \in DOMAIN jobs, Job!WaitJob(j)
  PROVE  JobInv'
  <1>1. j \in Nat
    BY DEF JobInv, Numbered
  <1>2. <<>> \in Seq(Nat)
    OBVIOUS
  <1>3. phase = "open" /\ UNCHANGED <<procs, jobs, counter, killer, glance, phase>>
          /\ agent' = [Job!Idle EXCEPT !.pc = "wait", !.p = j]
    BY DEF Job!WaitJob
  <1>4. agent' \in AgentState /\ agent'.pc = "wait" /\ agent'.p = j
    BY <1>1, <1>2, <1>3 DEF AgentState, Job!Idle
  <1>5. AgentFits(agent', procs, jobs) /\ Phases(phase, agent', glance, killer, procs, jobs)
    BY <1>3, <1>4 DEF AgentFits, Phases
  <1> QED BY <1>3, <1>5 DEF JobInv

\* kill starts its worker.
LEMMA KillJobKeeps ==
  ASSUME JobInv, NEW j \in DOMAIN jobs, Job!KillJob(j)
  PROVE  JobInv'
  <1>1. j \in Nat
    BY DEF JobInv, Numbered
  <1>2. <<>> \in Seq(Nat)
    OBVIOUS
  <1>3. /\ phase = "open" /\ UNCHANGED <<procs, counter, glance, phase>>
        /\ agent' = [Job!Idle EXCEPT !.pc = "kill", !.p = j]
        /\ jobs' = [jobs EXCEPT ![j] = Job!update_status(j)]
        /\ killer' = [pc |-> IF Job!update_status(j).status = "running" THEN "term" ELSE "settle", j |-> j]
    BY DEF Job!KillJob, Job!Killing
  <1>4. AgentFits(agent', procs, jobs')
    BY <1>1, <1>2, <1>3 DEF AgentFits, AgentState, Job!Idle
  <1>5. JobsOnward(procs, jobs, jobs') /\ jobs'[j] = Job!update_status(j)
    BY <1>3, StatusOnward, OneOnward
  <1>6. j \in DOMAIN jobs' /\ (Job!update_status(j).status # "running" => ~procs[jobs'[j].p].leader)
    BY <1>5, StatusOnward DEF JobsOnward, Onward
  <1>7. killer'.j = j /\ killer' \in KillerState /\ killer'.pc \in {"term", "settle"}
          /\ (killer'.pc = "settle" => Job!update_status(j).status # "running")
    BY <1>1, <1>3 DEF KillerState
  <1>8. KillerFits(killer', procs, jobs')
    BY <1>6, <1>7 DEF KillerFits
  <1>9. Phases(phase, agent', glance, killer', procs, jobs')
    BY <1>3 DEF Phases
  <1> QED BY <1>3, <1>4, <1>5, <1>8, <1>9, OnwardFits DEF JobInv

\* The worker of a kill moves one job on and then itself.
LEMMA KillerKeeps ==
  ASSUME JobInv, killer.j \in DOMAIN jobs, NEW y, Onward(jobs[killer.j], y, ~procs[jobs[killer.j].p].leader),
         jobs' = [jobs EXCEPT ![killer.j] = y], killer' \in KillerState, killer'.j = killer.j,
         killer.pc # "next", killer'.pc \in {"settle", "join"}, killer'.pc = "join" => ~y.log,
         ~procs[jobs[killer.j].p].leader, UNCHANGED <<procs, counter, agent, glance, phase>>
  PROVE  JobInv'
  <1>1. JobsOnward(procs, jobs, jobs') /\ jobs'[killer.j] = y
    BY OneOnward
  <1>2. killer'.j \in DOMAIN jobs' /\ ~procs[jobs'[killer'.j].p].leader
    BY <1>1 DEF JobsOnward, Onward
  <1>3. KillerFits(killer', procs, jobs')
    BY <1>1, <1>2 DEF KillerFits
  <1>4. Phases(phase, agent, glance, killer, procs, jobs')
    BY <1>1, OnwardFits DEF JobInv
  <1>5. Phases(phase, agent, glance, killer', procs, jobs')
    BY <1>4 DEF Phases
  <1> QED BY <1>1, <1>3, <1>5, OnwardFits DEF JobInv

\* The worker has reaped the shell.
LEMMA KillReapsKeeps ==
  ASSUME JobInv, Job!KillReaps
  PROVE  JobInv'
  <1> DEFINE j == killer.j
             seen == Job!update_status(j)
             y == IF seen.status = "done" THEN [seen EXCEPT !.status = "killed"] ELSE seen
  <1>1. killer \in KillerState /\ killer.pc = "wait" /\ j \in DOMAIN jobs /\ ~procs[jobs[j].p].leader
    BY DEF JobInv, KillerFits, Job!KillReaps, Job!alive
  <1>2. Onward(jobs[j], seen, ~procs[jobs[j].p].leader)
    BY <1>1, StatusOnward
  <1>3. jobs' = [jobs EXCEPT ![j] = y] /\ killer' = [killer EXCEPT !.pc = "settle"]
          /\ UNCHANGED <<procs, counter, agent, glance, phase>>
    BY DEF Job!KillReaps
  <1>4. Onward(jobs[j], y, ~procs[jobs[j].p].leader)
    <2> HIDE DEF seen
    <2>1. CASE seen.status = "done"
      <3>1. seen \in JobState /\ "killed" \in {"running", "done", "killed"}
        BY <1>2 DEF Onward
      <3>2. [seen EXCEPT !.status = "killed"] \in JobState
        BY <3>1 DEF JobState
      <3>3. y = [seen EXCEPT !.status = "killed"]
        BY <2>1
      <3> HIDE DEF y
      <3>4. y.p = seen.p /\ y.buffer = seen.buffer /\ y.cut = seen.cut /\ y.held = seen.held /\ y.drain = seen.drain
              /\ y.log = seen.log
        BY <3>1, <3>3 DEF JobState
      <3> QED BY <1>1, <1>2, <3>2, <3>3, <3>4 DEF Onward
    <2>2. CASE seen.status # "done"
      BY <1>2, <2>2
    <2> QED BY <2>1, <2>2
  <1>5. killer' \in KillerState /\ killer'.j = j /\ killer'.pc = "settle"
    BY <1>1, <1>3 DEF KillerState
  <1> HIDE DEF y
  <1> QED BY <1>1, <1>3, <1>4, <1>5, KillerKeeps

\* The worker lets go of the log and tells the drainer.
LEMMA KillSettlesKeeps ==
  ASSUME JobInv, Job!KillSettles
  PROVE  JobInv'
  <1> DEFINE j == killer.j
             y == [jobs[j] EXCEPT !.log = FALSE, !.stop = TRUE]
  <1>1. killer \in KillerState /\ killer.pc = "settle" /\ j \in DOMAIN jobs /\ ~procs[jobs[j].p].leader
    BY DEF JobInv, KillerFits, Job!KillSettles
  <1>2. jobs[j] \in JobState /\ FALSE \in BOOLEAN /\ TRUE \in BOOLEAN
    BY <1>1 DEF JobInv, Numbered
  <1>3. y \in JobState
    BY <1>2 DEF JobState
  <1>4. /\ y.p = jobs[j].p /\ y.buffer = jobs[j].buffer /\ y.cut = jobs[j].cut /\ y.held = jobs[j].held
        /\ y.drain = jobs[j].drain /\ y.log = FALSE /\ y.status = jobs[j].status
    BY <1>2 DEF JobState
  <1>5. jobs' = [jobs EXCEPT ![j] = y] /\ killer' = [killer EXCEPT !.pc = "join"]
          /\ UNCHANGED <<procs, counter, agent, glance, phase>>
    BY DEF Job!KillSettles, Job!Settled
  <1>6. killer' \in KillerState /\ killer'.j = j /\ killer'.pc = "join"
    BY <1>1, <1>5 DEF KillerState
  <1> HIDE DEF y
  <1>7. Onward(jobs[j], y, ~procs[jobs[j].p].leader)
    BY <1>1, <1>3, <1>4 DEF Onward
  <1> QED BY <1>1, <1>4, <1>5, <1>6, <1>7, KillerKeeps

\* The drainer has ended: the job is reaped.
LEMMA KillJoinsKeeps ==
  ASSUME JobInv, Job!KillJoins
  PROVE  JobInv'
  <1>1. /\ killer \in KillerState /\ killer.pc = "join" /\ killer.j \in DOMAIN jobs /\ ~procs[jobs[killer.j].p].leader
        /\ ~jobs[killer.j].log /\ jobs[killer.j].drain # "on"
    BY DEF JobInv, KillerFits, Job!KillJoins
  <1>2. UNCHANGED <<procs, jobs, counter, glance, phase>>
    BY DEF Job!KillJoins
  <1>3. Reaped(procs, jobs, killer.j)
    BY <1>1 DEF Reaped
  <1>4. AgentFits(agent', procs, jobs) /\ Phases(phase, agent', glance, killer, procs, jobs)
    <2>1. agent' = agent \/ agent' = Job!Idle
      BY DEF Job!KillJoins
    <2>2. AgentFits(agent, procs, jobs) /\ Phases(phase, agent, glance, killer, procs, jobs)
      BY DEF JobInv
    <2> QED BY <2>1, <2>2, IdleFits
  <1>5. CASE phase = "closing"
    <2>1. killer' \in KillerState /\ killer'.pc = "next" /\ killer'.j = killer.j
      BY <1>1, <1>5 DEF Job!KillJoins, KillerState
    <2>2. KillerFits(killer', procs, jobs)
      BY <2>1 DEF KillerFits
    <2>3. Phases(phase, agent', glance, killer', procs, jobs)
      BY <1>3, <1>4, <1>5, <2>1 DEF Phases
    <2> QED BY <1>2, <1>4, <2>2, <2>3 DEF JobInv
  <1>6. CASE phase # "closing"
    <2>1. killer' = Job!NoKill
      BY <1>6 DEF Job!KillJoins
    <2>2. KillerFits(killer', procs, jobs)
      BY <2>1 DEF KillerFits, KillerState, Job!NoKill
    <2>3. Phases(phase, agent', glance, killer', procs, jobs)
      BY <1>4, <1>6 DEF Phases
    <2> QED BY <1>2, <1>4, <2>2, <2>3 DEF JobInv
  <1> QED BY <1>5, <1>6

\* The loop thread's look has seen the shell gone.
LEMMA GlanceKeeps ==
  ASSUME JobInv, NEW j \in DOMAIN jobs, Job!Glance(j)
  PROVE  JobInv'
  BY DEF JobInv, Job!Glance, Job!alive, GlanceFits, Phases

\* The loop thread writes what it saw.
LEMMA GlanceWritesKeeps ==
  ASSUME JobInv, Job!GlanceWrites
  PROVE  JobInv'
  <1> DEFINE j == glance
             why == procs[jobs[j].p].why
             y == [jobs[j] EXCEPT !.status = "done", !.code = why]
  <1>1. j \in DOMAIN jobs /\ ~procs[jobs[j].p].leader
    BY DEF JobInv, GlanceFits, Job!GlanceWrites
  <1>2. jobs[j] \in JobState /\ jobs[j].p \in 1..Len(procs) /\ procs \in Seq(ProcState)
          /\ "done" \in {"running", "done", "killed"}
    BY <1>1 DEF JobInv, Numbered, JobsFit, ProcsFit
  <1>3. why \in {"none", "exit", "TERM", "KILL"}
    <2>1. procs[jobs[j].p] \in ProcState
      BY <1>2
    <2> QED BY <2>1 DEF ProcState
  <1>4. jobs' = [jobs EXCEPT ![j] = y] /\ glance' = 0 /\ UNCHANGED <<procs, counter, agent, killer, phase>>
    BY DEF Job!GlanceWrites
  <1> HIDE DEF why
  <1>5. y \in JobState
    BY <1>2, <1>3 DEF JobState
  <1>6. /\ y.p = jobs[j].p /\ y.buffer = jobs[j].buffer /\ y.cut = jobs[j].cut /\ y.held = jobs[j].held
        /\ y.drain = jobs[j].drain /\ y.log = jobs[j].log
    BY <1>2 DEF JobState
  <1> HIDE DEF y
  <1>7. Onward(jobs[j], y, ~procs[jobs[j].p].leader)
    BY <1>1, <1>5, <1>6 DEF Onward
  <1>8. JobsOnward(procs, jobs, jobs')
    BY <1>1, <1>4, <1>7, OneOnward
  <1>9. GlanceFits(0, procs, jobs')
    BY DEF GlanceFits
  <1>10. Phases(phase, agent, glance, killer, procs, jobs')
    BY <1>8, OnwardFits DEF JobInv
  <1>11. Phases(phase, agent, 0, killer, procs, jobs')
    BY <1>10 DEF Phases
  <1> QED BY <1>4, <1>8, <1>9, <1>11, OnwardFits DEF JobInv

\* A drainer that was told ends.
LEMMA DrainStopsKeeps ==
  ASSUME JobInv, NEW j \in DOMAIN jobs, Job!DrainStops(j)
  PROVE  JobInv'
  <1> DEFINE y == [jobs[j] EXCEPT !.drain = "off"]
  <1>1. jobs[j] \in JobState /\ "off" \in {"on", "off", "none"}
    BY DEF JobInv, Numbered
  <1>2. y \in JobState
    BY <1>1 DEF JobState
  <1>3. /\ y.p = jobs[j].p /\ y.buffer = jobs[j].buffer /\ y.cut = jobs[j].cut /\ y.held = jobs[j].held
        /\ y.drain = "off" /\ y.log = jobs[j].log /\ y.status = jobs[j].status
    BY <1>1 DEF JobState
  <1>4. jobs' = [jobs EXCEPT ![j] = y] /\ UNCHANGED <<procs, counter, agent, killer, glance, phase>>
    BY DEF Job!DrainStops
  <1> HIDE DEF y
  <1>5. Onward(jobs[j], y, ~procs[jobs[j].p].leader)
    BY <1>2, <1>3, SameOnward DEF Onward
  <1> QED BY <1>4, <1>5, OneOnward, JobsKeep

\* A shutdown begins: it has passed no job.
LEMMA ShutdownKeeps ==
  ASSUME JobInv, Job!Shutdown
  PROVE  JobInv'
  <1>1. /\ agent.pc = "idle" /\ glance = 0 /\ phase' = "closing" /\ killer' = [pc |-> "next", j |-> 0]
        /\ UNCHANGED <<procs, jobs, counter, agent, glance>>
    BY DEF Job!Shutdown
  <1>2. KillerFits(killer', procs, jobs)
    BY <1>1 DEF KillerFits, KillerState
  <1>3. \A j \in DOMAIN jobs : j \in Nat /\ j > 0
    BY DEF JobInv, Numbered
  <1>4. Phases(phase', agent, glance, killer', procs, jobs)
    BY <1>1, <1>3 DEF Phases
  <1> QED BY <1>1, <1>2, <1>4 DEF JobInv

\* A shutdown takes the next job, or has passed them all.
LEMMA ShutdownNextKeeps ==
  ASSUME JobInv, Job!ShutdownNext
  PROVE  JobInv'
  <1> DEFINE left == {j \in DOMAIN jobs : j > killer.j}
             least == CHOOSE i \in left : \A k \in left : i <= k
  <1>1. /\ phase = "closing" /\ killer.pc = "next" /\ UNCHANGED <<procs, jobs, counter, agent, glance>>
        /\ killer \in KillerState /\ agent.pc = "idle" /\ glance = 0
    BY DEF JobInv, KillerFits, Phases, Job!ShutdownNext
  <1>2. killer.j \in Nat /\ counter \in Nat /\ DOMAIN jobs \subseteq 1..counter
    BY <1>1 DEF KillerState, JobInv, Numbered
  <1>3. \A j \in DOMAIN jobs : j \in Nat
    BY <1>2
  <1>4. \A j \in DOMAIN jobs : j \notin left => Reaped(procs, jobs, j)
    BY <1>1, <1>2, <1>3 DEF JobInv, Phases
  <1>5. CASE left = {}
    <2>1. phase' = "closed" /\ killer' = Job!NoKill
      BY <1>5 DEF Job!ShutdownNext, Job!Victims
    <2>2. KillerFits(killer', procs, jobs)
      BY <2>1 DEF KillerFits, KillerState, Job!NoKill
    <2>3. Phases(phase', agent, glance, killer', procs, jobs)
      BY <1>1, <1>4, <1>5, <2>1 DEF Phases
    <2> QED BY <1>1, <2>2, <2>3 DEF JobInv
  <1>6. CASE left # {}
    <2>1. left \in SUBSET (0 .. counter)
      BY <1>2
    <2>2. \E i \in left : \A k \in left : i <= k
      BY <1>2, <1>6, <2>1, LeastOf
    <2>3. least \in left /\ \A k \in left : least <= k
      BY <2>2
    <2>4. phase' = phase /\ killer' = [pc |-> IF jobs[least].status = "running" THEN "term" ELSE "settle", j |-> least]
      BY <1>6 DEF Job!ShutdownNext, Job!Victims
    <2> HIDE DEF least
    <2>5. least \in DOMAIN jobs /\ least \in Nat
      BY <2>3, <1>3
    <2>6. killer' \in KillerState /\ killer'.j = least /\ killer'.pc \in {"term", "settle"}
            /\ (killer'.pc = "settle" => jobs[least].status # "running")
      BY <2>4, <2>5 DEF KillerState
    <2>7. KillerFits(killer', procs, jobs)
      BY <2>5, <2>6 DEF KillerFits, JobInv, JobsFit
    <2>8. ASSUME NEW j \in DOMAIN jobs, j < killer'.j \/ (j = killer'.j /\ killer'.pc = "next")
          PROVE  Reaped(procs, jobs, j)
      <3>1. j < least
        BY <2>6, <2>8
      <3>2. j \notin left
        BY <1>3, <2>3, <2>5, <3>1
      <3> QED BY <1>4, <3>2
    <2>9. Phases(phase', agent, glance, killer', procs, jobs)
      BY <1>1, <2>4, <2>8 DEF Phases
    <2> QED BY <1>1, <2>4, <2>7, <2>9 DEF JobInv
  <1> QED BY <1>5, <1>6

-----------------------------------------------------------------------------
(* What moves commands and jobs.                                           *)

\* Nothing read is nothing decoded.
LEMMA DecodedNone == Job!Decoded(1, 0, FALSE) = <<>> /\ Job!Held(0, FALSE) = 0
  <1>1. 0 \div 2 = 0 /\ 0 % 2 = 0
    OBVIOUS
  <1>2. Job!Decoded(1, 0, FALSE) = Chars(0) \o <<>> /\ Chars(0) \in Seq(Nat) /\ Len(Chars(0)) = 0
    BY <1>1, DecodedIs
  <1>3. Chars(0) = <<>>
    BY <1>2
  <1>4. <<>> \o <<>> = <<>>
    OBVIOUS
  <1> QED BY <1>1, <1>2, <1>3, <1>4 DEF Job!Held

\* Processes qs have those of ps as they are, and perhaps more.
AtLeast(ps, qs) == qs \in Seq(ProcState) /\ Len(qs) >= Len(ps) /\ \A p \in 1..Len(ps) : qs[p] = ps[p]

\* Everything still fits when there are more processes.
LEMMA AtLeastFits ==
  ASSUME NEW ps, NEW qs, NEW js, NEW a, NEW k, NEW g, ps \in Seq(ProcState), AtLeast(ps, qs), JobsFit(ps, js)
  PROVE  /\ JobsFit(qs, js)
         /\ AgentFits(a, ps, js) => AgentFits(a, qs, js)
         /\ KillerFits(k, ps, js) => KillerFits(k, qs, js)
         /\ GlanceFits(g, ps, js) => GlanceFits(g, qs, js)
  <1>1. Len(ps) \in Nat /\ Len(qs) \in Nat /\ 1..Len(ps) \subseteq 1..Len(qs)
    BY DEF AtLeast
  <1>2. JobsFit(qs, js)
    <2>1. \A j \in DOMAIN js : js[j].p \in 1..Len(ps) /\ js[j].p \in 1..Len(qs) /\ qs[js[j].p] = ps[js[j].p]
      BY <1>1 DEF JobsFit, AtLeast
    <2>2. \A i, j \in DOMAIN js : js[i].p = js[j].p => i = j
      BY DEF JobsFit
    <2>3. ASSUME NEW j \in DOMAIN js
          PROVE  /\ js[j].p \in 1..Len(qs)
                 /\ js[j].status # "running" => ~qs[js[j].p].leader
                 /\ js[j].drain = "on" => /\ qs[js[j].p].kind = "bash" /\ ~qs[js[j].p].eof
                                          /\ js[j].held = Job!Held(qs[js[j].p].read, FALSE)
                 /\ qs[js[j].p].kind = "bash" =>
                        /\ qs[js[j].p].ended = "promoted"
                        /\ Shows(js[j], Job!Decoded(1, qs[js[j].p].read, qs[js[j].p].eof))
      <3>1. js[j].p \in 1..Len(qs) /\ qs[js[j].p] = ps[js[j].p]
        BY <2>1
      <3>2. /\ js[j].status # "running" => ~ps[js[j].p].leader
            /\ js[j].drain = "on" => /\ ps[js[j].p].kind = "bash" /\ ~ps[js[j].p].eof
                                     /\ js[j].held = Job!Held(ps[js[j].p].read, FALSE)
            /\ ps[js[j].p].kind = "bash" =>
                   /\ ps[js[j].p].ended = "promoted"
                   /\ Shows(js[j], Job!Decoded(1, ps[js[j].p].read, ps[js[j].p].eof))
        BY DEF JobsFit
      <3> QED BY <3>1, <3>2
    <2> QED BY <2>2, <2>3 DEF JobsFit
  <1>3. AgentFits(a, ps, js) => AgentFits(a, qs, js)
    BY <1>1 DEF AgentFits, AtLeast, Holding
  <1>4. KillerFits(k, ps, js) => KillerFits(k, qs, js)
    BY <1>1 DEF KillerFits, AtLeast, JobsFit
  <1>5. GlanceFits(g, ps, js) => GlanceFits(g, qs, js)
    BY <1>1 DEF GlanceFits, AtLeast, JobsFit
  <1> QED BY <1>2, <1>3, <1>4, <1>5

\* A command that is started.
LEMMA SpawnFits ==
  ASSUME NEW ps, NEW s \in Shapes, NEW kind \in {"bash", "job"}, ProcsFit(ps)
  PROVE  LET qs == Append(ps, Job!Spawned(s, kind))
         IN /\ ProcsFit(qs) /\ AtLeast(ps, qs) /\ Len(ps) \in Nat /\ Len(qs) = Len(ps) + 1
            /\ qs[Len(ps) + 1].kind = kind /\ qs[Len(ps) + 1].ended = "no" /\ qs[Len(ps) + 1].read = 0
            /\ qs[Len(ps) + 1].eof = FALSE
  <1> DEFINE r == Job!Spawned(s, kind)
             qs == Append(ps, r)
             n == Len(ps)
  <1>1. s.child \in BOOLEAN /\ s.deafLeader \in BOOLEAN /\ s.deafChild \in BOOLEAN
    BY JobConstants
  <1>2. r \in ProcState /\ r.kind = kind /\ r.ended = "no" /\ r.read = 0 /\ r.wrote = 0 /\ r.eof = FALSE
    BY <1>1 DEF Job!Spawned, ProcState
  <1>3. ps \in Seq(ProcState) /\ n \in Nat
    BY DEF ProcsFit
  <1> HIDE DEF r
  <1>4. qs \in Seq(ProcState) /\ Len(qs) = n + 1 /\ qs[n + 1] = r /\ \A p \in 1..n : qs[p] = ps[p]
    BY <1>2, <1>3, AppendProperties
  <1>5. AtLeast(ps, qs)
    BY <1>3, <1>4 DEF AtLeast
  <1> HIDE DEF qs
  <1>6. ProcsFit(qs)
    <2> SUFFICES ASSUME NEW p \in 1..Len(qs)
                 PROVE  /\ qs[p].read <= qs[p].wrote
                        /\ qs[p].eof \/ qs[p].ended \in {"exit", "timeout", "cancelled"} => ~Holding(qs, p)
      BY <1>4 DEF ProcsFit
    <2>1. CASE p \in 1..n
      BY <1>4, <2>1 DEF ProcsFit, Holding
    <2>2. CASE p = n + 1
      BY <1>2, <1>4, <2>2
    <2> QED BY <1>3, <1>4, <2>1, <2>2
  <1> QED BY <1>2, <1>3, <1>4, <1>5, <1>6 DEF qs, r

\* A new job fits.
NewFits(ps, js, new) ==
    /\ new \in JobState /\ new.p \in 1..Len(ps) /\ new.status = "running"
    /\ \A j \in DOMAIN js : js[j].p # new.p
    /\ new.drain = "on" => /\ ps[new.p].kind = "bash" /\ ~ps[new.p].eof
                           /\ new.held = Job!Held(ps[new.p].read, FALSE)
    /\ ps[new.p].kind = "bash" => /\ ps[new.p].ended = "promoted"
                                  /\ Shows(new, Job!Decoded(1, ps[new.p].read, ps[new.p].eof))

\* Everything fits jobs ks, which are numbered up to c, when it fits jobs js.
FitsToo(ps, js, a, k, g, ks, c) ==
    /\ JobsFit(ps, ks) /\ Numbered(ks, c)
    /\ AgentFits(a, ps, js) => AgentFits(a, ps, ks)
    /\ KillerFits(k, ps, js) => KillerFits(k, ps, ks)
    /\ GlanceFits(g, ps, js) => GlanceFits(g, ps, ks)

\* A job that is added.
LEMMA NewJobFits ==
  ASSUME NEW ps, NEW js, NEW c, NEW new, NEW a, NEW k, NEW g, NEW ks,
         JobsFit(ps, js), Numbered(js, c), NewFits(ps, js, new),
         ks = [j \in DOMAIN js \union {c + 1} |-> IF j = c + 1 THEN new ELSE js[j]]
  PROVE  FitsToo(ps, js, a, k, g, ks, c + 1)
  <1>1. c \in Nat /\ DOMAIN js \subseteq 1..c /\ js \in [DOMAIN js -> JobState]
    BY DEF Numbered
  <1>2. c + 1 \notin DOMAIN js /\ c + 1 \in 1..(c + 1) /\ 1..c \subseteq 1..(c + 1) /\ c + 1 \in Nat
    BY <1>1
  <1>3. DOMAIN ks = DOMAIN js \union {c + 1} /\ ks[c + 1] = new /\ \A j \in DOMAIN js : ks[j] = js[j]
    BY <1>2
  <1>4. \A j \in DOMAIN js \union {c + 1} : (IF j = c + 1 THEN new ELSE js[j]) \in JobState
    BY <1>1 DEF NewFits
  <1>5. ks \in [DOMAIN ks -> JobState]
    BY <1>3, <1>4
  <1>6. Numbered(ks, c + 1)
    BY <1>1, <1>2, <1>3, <1>5 DEF Numbered
  <1>7. \A i, j \in DOMAIN ks : ks[i].p = ks[j].p => i = j
    BY SMTT(40), <1>3 DEF JobsFit, NewFits
  <1>8. ASSUME NEW j \in DOMAIN ks
        PROVE  /\ ks[j].p \in 1..Len(ps)
               /\ ks[j].status # "running" => ~ps[ks[j].p].leader
               /\ ks[j].drain = "on" => /\ ps[ks[j].p].kind = "bash" /\ ~ps[ks[j].p].eof
                                        /\ ks[j].held = Job!Held(ps[ks[j].p].read, FALSE)
               /\ ps[ks[j].p].kind = "bash" =>
                      /\ ps[ks[j].p].ended = "promoted"
                      /\ Shows(ks[j], Job!Decoded(1, ps[ks[j].p].read, ps[ks[j].p].eof))
    <2>1. CASE j = c + 1
      BY <1>3, <2>1 DEF NewFits
    <2>2. CASE j \in DOMAIN js
      BY ZenonT(60), <1>3, <2>2 DEF JobsFit
    <2> QED BY <1>3, <2>1, <2>2
  <1>9. JobsFit(ps, ks)
    BY <1>7, <1>8 DEF JobsFit
  <1>10. AgentFits(a, ps, js) => AgentFits(a, ps, ks)
    BY <1>3 DEF AgentFits
  <1>11. KillerFits(k, ps, js) => KillerFits(k, ps, ks)
    BY <1>3 DEF KillerFits
  <1>12. GlanceFits(g, ps, js) => GlanceFits(g, ps, ks)
    BY <1>3 DEF GlanceFits
  <1> QED BY <1>6, <1>9, <1>10, <1>11, <1>12 DEF FitsToo

\* A foreground command starts.
LEMMA BashCallKeeps ==
  ASSUME JobInv, Job!BashCall
  PROVE  JobInv'
  <1>1. PICK s \in Shapes : procs' = Append(procs, Job!Spawned(s, "bash"))
    BY DEF Job!BashCall
  <1>2. /\ phase = "open" /\ agent' = [Job!Idle EXCEPT !.pc = "loop", !.p = Len(procs) + 1]
        /\ UNCHANGED <<jobs, counter, killer, glance, phase>>
    BY DEF Job!BashCall, Job!Ready
  <1>3. /\ ProcsFit(procs') /\ AtLeast(procs, procs') /\ Len(procs) \in Nat /\ Len(procs') = Len(procs) + 1
        /\ procs'[Len(procs) + 1].kind = "bash" /\ procs'[Len(procs) + 1].ended = "no"
        /\ procs'[Len(procs) + 1].read = 0 /\ procs'[Len(procs) + 1].eof = FALSE
    BY <1>1, SpawnFits DEF JobInv
  <1>4. <<>> \in Seq(Nat) /\ Len(procs) + 1 \in Nat /\ Len(procs) + 1 \in 1..Len(procs')
    BY <1>3
  <1>5. agent' \in AgentState /\ agent'.pc = "loop" /\ agent'.p = Len(procs) + 1 /\ agent'.text = <<>> /\ agent'.held = 0
    BY <1>2, <1>4 DEF AgentState, Job!Idle
  <1>6. AgentFits(agent', procs', jobs)
    BY <1>3, <1>4, <1>5, DecodedNone DEF AgentFits
  <1>7. procs \in Seq(ProcState)
    BY DEF JobInv, ProcsFit
  <1>8. JobsFit(procs', jobs) /\ KillerFits(killer, procs', jobs) /\ GlanceFits(glance, procs', jobs)
    BY <1>3, <1>7, AtLeastFits DEF JobInv
  <1>9. Phases(phase, agent', glance, killer, procs', jobs)
    BY <1>2 DEF Phases
  <1> QED BY <1>2, <1>3, <1>6, <1>8, <1>9 DEF JobInv

\* A job starts, or its spawn fails.
LEMMA StartJobKeeps ==
  ASSUME JobInv, Job!StartJob
  PROVE  JobInv'
  <1> DEFINE js == Job!Refreshed
  <1>1. /\ phase = "open" /\ counter' = counter + 1 /\ UNCHANGED <<agent, killer, glance, phase>>
    BY DEF Job!StartJob, Job!Ready
  <1>2. JobsOnward(procs, jobs, js)
    BY RefreshedOnward
  <1>3. /\ JobsFit(procs, js) /\ Numbered(js, counter) /\ AgentFits(agent, procs, js)
        /\ KillerFits(killer, procs, js) /\ GlanceFits(glance, procs, js)
    BY <1>2, OnwardFits DEF JobInv
  <1>4. \A ps, ks : Phases(phase, agent, glance, killer, ps, ks)
    BY <1>1 DEF Phases
  <1>5. DOMAIN js = DOMAIN jobs /\ \A j \in DOMAIN jobs : js[j] = Job!update_status(j)
    BY DEF Job!Refreshed
  <1>6. CASE jobs' = js /\ UNCHANGED procs
    <2> HIDE DEF js
    <2>1. Numbered(js, counter + 1)
      BY <1>3 DEF Numbered
    <2> QED BY <1>1, <1>3, <1>4, <1>6, <2>1 DEF JobInv
  <1>7. ASSUME NEW s \in Shapes, procs' = Append(procs, Job!Spawned(s, "job")),
               jobs' = [j \in DOMAIN jobs \union {counter + 1} |->
                          IF j = counter + 1 THEN Job!Job(Len(procs) + 1, TRUE, <<>>, 0) ELSE Job!update_status(j)]
        PROVE  JobInv'
    <2> DEFINE new == Job!Job(Len(procs) + 1, TRUE, <<>>, 0)
    <2>1. /\ ProcsFit(procs') /\ AtLeast(procs, procs') /\ Len(procs) \in Nat /\ Len(procs') = Len(procs) + 1
          /\ procs'[Len(procs) + 1].kind = "job"
      BY <1>7, SpawnFits DEF JobInv
    <2>2. <<>> \in Seq(Seq(Nat)) /\ Len(procs) + 1 \in Nat /\ Len(procs) + 1 \in 1..Len(procs')
      BY <2>1
    <2>3. new \in JobState /\ new.p = Len(procs) + 1 /\ new.status = "running" /\ new.drain = "none"
      BY <2>2 DEF Job!Job, JobState
    <2>4. procs \in Seq(ProcState)
      BY DEF JobInv, ProcsFit
    <2> HIDE DEF new, js
    <2>5. /\ JobsFit(procs', js) /\ AgentFits(agent, procs', js)
          /\ KillerFits(killer, procs', js) /\ GlanceFits(glance, procs', js)
      BY <1>3, <2>1, <2>4, AtLeastFits
    <2>6. \A j \in DOMAIN js : js[j].p # new.p
      <3>1. \A j \in DOMAIN js : js[j].p \in 1..Len(procs)
        BY <1>3 DEF JobsFit
      <3> QED BY <2>1, <2>3, <3>1
    <2>7. jobs' = [j \in DOMAIN js \union {counter + 1} |-> IF j = counter + 1 THEN new ELSE js[j]]
      BY <1>5, <1>7 DEF new
    <2>8. NewFits(procs', js, new)
      BY <2>1, <2>2, <2>3, <2>6 DEF NewFits
    <2>9. FitsToo(procs', js, agent, killer, glance, jobs', counter + 1)
      BY <1>3, <2>5, <2>7, <2>8, NewJobFits
    <2> QED BY <1>1, <1>4, <2>1, <2>5, <2>9 DEF JobInv, FitsToo
  <1> QED BY <1>6, <1>7 DEF Job!StartJob

\* The same processes hold the pipes.
SameHolders(ps, qs) ==
    Len(qs) = Len(ps) /\ \A x \in 1..Len(ps) : qs[x].leader = ps[x].leader /\ qs[x].child = ps[x].child

\* Command p may become r: who holds its pipe does not change.
MayBecome(ps, p, r) ==
    /\ ProcsFit(ps) /\ p \in 1..Len(ps) /\ r \in ProcState /\ r.leader = ps[p].leader /\ r.child = ps[p].child
    /\ r.read <= r.wrote
    /\ r.eof \/ r.ended \in {"exit", "timeout", "cancelled"} => ~Holding(ps, p)

\* Only command p changes, to r.
Becomes(ps, p, r, qs) ==
    /\ ProcsFit(qs) /\ SameHolders(ps, qs) /\ Len(qs) = Len(ps)
    /\ qs[p] = r /\ \A x \in 1..Len(ps) : x # p => qs[x] = ps[x]

\* One command changes.
LEMMA SetProc ==
  ASSUME NEW ps, NEW p, NEW r, NEW qs, MayBecome(ps, p, r), qs = [ps EXCEPT ![p] = r]
  PROVE  Becomes(ps, p, r, qs)
  <1>1. ps \in Seq(ProcState) /\ p \in 1..Len(ps) /\ r \in ProcState
    BY DEF ProcsFit, MayBecome
  <1>2. qs \in Seq(ProcState) /\ Len(qs) = Len(ps) /\ \A x \in 1..Len(ps) : qs[x] = IF x = p THEN r ELSE ps[x]
    BY <1>1, ExceptSeq
  <1>3. qs[p] = r /\ \A x \in 1..Len(ps) : x # p => qs[x] = ps[x]
    BY <1>1, <1>2
  <1>4. \A x \in 1..Len(ps) : qs[x].leader = ps[x].leader /\ qs[x].child = ps[x].child
    BY <1>3 DEF MayBecome
  <1>5. ProcsFit(qs)
    <2> SUFFICES ASSUME NEW x \in 1..Len(qs)
                 PROVE  /\ qs[x].read <= qs[x].wrote
                        /\ qs[x].eof \/ qs[x].ended \in {"exit", "timeout", "cancelled"} => ~Holding(qs, x)
      BY <1>2 DEF ProcsFit
    <2>1. CASE x = p
      BY <1>3, <2>1 DEF Holding, MayBecome
    <2>2. CASE x # p
      BY <1>2, <1>3, <2>2 DEF ProcsFit, Holding, MayBecome
    <2> QED BY <2>1, <2>2
  <1> QED BY <1>2, <1>3, <1>4, <1>5 DEF Becomes, SameHolders

LEMMA HoldersFit ==
  ASSUME NEW ps, NEW qs, NEW js, NEW a, NEW k, NEW g, NEW ph, SameHolders(ps, qs), JobsFit(ps, js)
  PROVE  /\ KillerFits(k, ps, js) => KillerFits(k, qs, js)
         /\ GlanceFits(g, ps, js) => GlanceFits(g, qs, js)
         /\ Phases(ph, a, g, k, ps, js) => Phases(ph, a, g, k, qs, js)
  <1>1. \A j \in DOMAIN js : js[j].p \in 1..Len(ps)
    BY DEF JobsFit
  <1>2. \A j \in DOMAIN js : Reaped(ps, js, j) => Reaped(qs, js, j)
    BY <1>1 DEF Reaped, SameHolders
  <1> QED BY <1>1, <1>2 DEF KillerFits, GlanceFits, Phases, SameHolders

\* A command that is no job's changes.
LEMMA AsideFits ==
  ASSUME NEW ps, NEW qs, NEW js, NEW p, Len(qs) = Len(ps), \A x \in 1..Len(ps) : x # p => qs[x] = ps[x],
         JobsFit(ps, js), \A j \in DOMAIN js : js[j].p # p
  PROVE  JobsFit(qs, js)
  <1>1. \A j \in DOMAIN js : js[j].p \in 1..Len(ps) /\ qs[js[j].p] = ps[js[j].p]
    BY DEF JobsFit
  <1> QED BY ZenonT(60), <1>1 DEF JobsFit

\* A command of the call at work is no job's.
LEMMA CallIsNoJob ==
  ASSUME JobInv, agent.pc \in {"loop", "killing"}
  PROVE  \A j \in DOMAIN jobs : jobs[j].p # agent.p
  BY DEF JobInv, AgentFits, JobsFit

\* What a read of command p can find.
LEMMA ReadFinds ==
  ASSUME NEW p, procs[p] \in ProcState, NEW to \in Job!Readable(p), procs[p].read <= procs[p].wrote
  PROVE  /\ to \in Nat /\ procs[p].read <= to /\ to <= procs[p].wrote /\ Job!Empty(p) \in BOOLEAN
         /\ Job!Empty(p) => to = procs[p].read /\ ~Holding(procs, p)
  <1>1. procs[p].read \in Nat /\ procs[p].wrote \in Nat
    BY DEF ProcState
  <1>2. CASE Job!Empty(p)
    BY <1>1, <1>2 DEF Job!Readable, Job!Empty, Job!HoldsPipe, Holding
  <1>3. CASE ~Job!Empty(p)
    BY <1>1, <1>3 DEF Job!Readable, Job!Empty
  <1> QED BY <1>2, <1>3 DEF Job!Empty

\* A read of command p may find the pipe read up to to, and its end.
MayRead(ps, p, to, eof) ==
    /\ ProcsFit(ps) /\ p \in 1..Len(ps) /\ to \in Nat /\ eof \in BOOLEAN
    /\ to <= ps[p].wrote /\ (eof => ~Holding(ps, p))

\* Command p is read up to to.
IsRead(ps, p, to, eof, qs) ==
    /\ ProcsFit(qs) /\ SameHolders(ps, qs) /\ Len(qs) = Len(ps)
    /\ \A x \in 1..Len(ps) : x # p => qs[x] = ps[x]
    /\ qs[p].read = to /\ qs[p].eof = eof /\ qs[p].kind = ps[p].kind /\ qs[p].ended = ps[p].ended

\* What was read of command p is noted.
LEMMA ReadNoted ==
  ASSUME NEW ps, NEW p, NEW to, NEW eof, NEW qs, MayRead(ps, p, to, eof),
         qs = [ps EXCEPT ![p].read = to, ![p].eof = eof]
  PROVE  IsRead(ps, p, to, eof, qs)
  <1> DEFINE r == ps[p]
             s == [r EXCEPT !.read = to, !.eof = eof]
  <1>1. r \in ProcState /\ to \in Nat /\ eof \in BOOLEAN
    BY DEF ProcsFit, MayRead
  <1>2. qs = [ps EXCEPT ![p] = s]
    OBVIOUS
  <1>3. r.ended \in {"exit", "timeout", "cancelled"} => ~Holding(ps, p)
    BY DEF ProcsFit, MayRead
  <1>4. to <= r.wrote /\ (eof => ~Holding(ps, p))
    BY DEF MayRead
  <1> HIDE DEF r
  <1>5. s \in ProcState
    BY <1>1 DEF ProcState
  <1>6. s.read = to /\ s.eof = eof /\ s.kind = r.kind /\ s.ended = r.ended /\ s.wrote = r.wrote
    BY <1>1 DEF ProcState
  <1>7. s.leader = r.leader /\ s.child = r.child
    BY <1>1 DEF ProcState
  <1> HIDE DEF s
  <1>8. MayBecome(ps, p, s)
    BY <1>3, <1>4, <1>5, <1>6, <1>7 DEF MayBecome, MayRead, r
  <1>9. Becomes(ps, p, s, qs)
    BY <1>2, <1>8, SetProc
  <1> QED BY <1>6, <1>9 DEF Becomes, IsRead, r

\* stream_process.read_ready.
LEMMA ReadReadyKeeps ==
  ASSUME JobInv, Job!ReadReady
  PROVE  JobInv'
  <1> DEFINE p == agent.p
             eof == Job!Empty(p)
             r == procs[p].read
             from == r + 1 - agent.held
  <1>1. agent.pc \in {"loop", "killing"} /\ ~procs[p].eof /\ UNCHANGED <<jobs, counter, killer, glance, phase>>
    BY DEF Job!ReadReady
  <1>2. PICK to \in Job!Readable(p) :
               /\ procs' = [procs EXCEPT ![p].read = to, ![p].eof = eof]
               /\ agent' = [agent EXCEPT !.text = @ \o Job!Decoded(from, to, eof), !.held = Job!Held(to, eof)]
    BY DEF Job!ReadReady
  <1>3. /\ agent \in AgentState /\ p \in 1..Len(procs) /\ procs[p].kind = "bash" /\ procs[p].ended = "no"
        /\ agent.text = Job!Decoded(1, r, FALSE) /\ agent.held = Job!Held(r, FALSE)
        /\ (agent.pc = "killing" => ~Holding(procs, p))
    <2>1. AgentFits(agent, procs, jobs) /\ procs[p].eof \in BOOLEAN
      <3>1. procs[p] \in ProcState
        BY <1>1 DEF JobInv, AgentFits, ProcsFit
      <3> QED BY <3>1 DEF JobInv, ProcState
    <2>2. procs[p].eof = FALSE
      BY <1>1, <2>1
    <2> QED BY <1>1, <2>1, <2>2 DEF AgentFits
  <1>4. procs[p] \in ProcState /\ procs[p].read <= procs[p].wrote
    BY <1>3 DEF JobInv, ProcsFit
  <1>5. r \in Nat
    BY <1>4 DEF ProcState
  <1>6. to \in Nat /\ r <= to /\ to <= procs[p].wrote /\ eof \in BOOLEAN /\ (eof => to = r /\ ~Holding(procs, p))
    BY <1>4, ReadFinds
  <1>b. MayRead(procs, p, to, eof)
    BY <1>3, <1>6 DEF MayRead, JobInv
  <1>c. IsRead(procs, p, to, eof, procs')
    BY <1>2, <1>b, ReadNoted
  <1>7. /\ ProcsFit(procs') /\ Len(procs') = Len(procs) /\ SameHolders(procs, procs')
        /\ \A x \in 1..Len(procs) : x # p => procs'[x] = procs[x]
        /\ procs'[p].read = to /\ procs'[p].eof = eof /\ procs'[p].kind = "bash" /\ procs'[p].ended = "no"
    BY <1>3, <1>c DEF IsRead
  <1> DEFINE x == Job!Decoded(from, to, eof)
  <1>8. x \in Seq(Nat) /\ agent.text \o x = Job!Decoded(1, to, eof)
    BY <1>3, <1>5, <1>6, DecodedOn
  <1>9. agent.text \in Seq(Nat) /\ agent.text \o x \in Seq(Nat) /\ Job!Held(to, eof) \in {0, 1}
    <2>1. agent.text \in Seq(Nat)
      BY <1>3 DEF AgentState
    <2> QED BY <1>8, <2>1, ConcatProperties DEF Job!Held
  <1>a. agent' = [agent EXCEPT !.text = agent.text \o x, !.held = Job!Held(to, eof)]
    BY <1>2
  <1> HIDE DEF x, eof
  <1>10. agent' \in AgentState
    BY <1>3, <1>9, <1>a DEF AgentState
  <1>11. agent'.text = agent.text \o x /\ agent'.held = Job!Held(to, eof) /\ agent'.pc = agent.pc /\ agent'.p = p
    BY <1>3, <1>a DEF AgentState
  <1>12. AgentFits(agent', procs', jobs)
    <2>1. agent.pc = "killing" => ~Holding(procs', p)
      BY <1>3, <1>7 DEF SameHolders, Holding
    <2> QED BY <1>1, <1>3, <1>7, <1>8, <1>10, <1>11, <2>1 DEF AgentFits
  <1>13. JobsFit(procs', jobs)
    BY <1>1, <1>7, AsideFits, CallIsNoJob DEF JobInv
  <1>14. KillerFits(killer, procs', jobs) /\ GlanceFits(glance, procs', jobs)
           /\ Phases(phase, agent, glance, killer, procs', jobs)
    BY <1>7, HoldersFit DEF JobInv
  <1>15. Phases(phase, agent', glance, killer, procs', jobs)
    BY <1>1, <1>14, <1>11 DEF Phases
  <1> QED BY <1>1, <1>7, <1>12, <1>13, <1>14, <1>15 DEF JobInv

\* A call that is over.
LEMMA OverKeeps ==
  ASSUME JobInv, Job!BashReturns \/ Job!CancelReaped
  PROVE  JobInv'
  <1> DEFINE p == agent.p
             r == procs[p]
  <1>1. /\ agent.pc \in {"loop", "killing"} /\ p \in 1..Len(procs) /\ r \in ProcState /\ ~Holding(procs, p)
    BY DEF JobInv, AgentFits, ProcsFit, Job!BashReturns, Job!CancelReaped
  <1>2. PICK how \in {"timeout", "exit", "cancelled"} : Job!Over(how)
    <2>1. CASE Job!BashReturns
      BY <2>1 DEF Job!BashReturns
    <2>2. CASE Job!CancelReaped
      BY <2>2 DEF Job!CancelReaped
    <2> QED BY <2>1, <2>2
  <1>3. UNCHANGED <<jobs, counter, killer, glance, phase>>
    BY DEF Job!BashReturns, Job!CancelReaped
  <1> DEFINE s == [r EXCEPT !.ended = how, !.eof = TRUE, !.wrote = 0, !.read = 0, !.why = "none"]
  <1>4. procs' = [procs EXCEPT ![p] = s] /\ agent' = Job!Idle
    BY <1>2 DEF Job!Over
  <1> HIDE DEF r
  <1>5. /\ how \in {"no", "exit", "timeout", "cancelled", "promoted"} /\ TRUE \in BOOLEAN /\ 0 \in Nat
        /\ "none" \in {"none", "exit", "TERM", "KILL"}
    OBVIOUS
  <1>6. s \in ProcState
    BY <1>1, <1>5 DEF ProcState
  <1>7. s.leader = r.leader /\ s.child = r.child /\ s.read = 0 /\ s.wrote = 0
    BY <1>1 DEF ProcState
  <1> HIDE DEF s
  <1>8. MayBecome(procs, p, s)
    BY <1>1, <1>6, <1>7 DEF MayBecome, r, JobInv
  <1>a. Becomes(procs, p, s, procs')
    BY <1>4, <1>8, SetProc
  <1>9. /\ ProcsFit(procs') /\ Len(procs') = Len(procs) /\ \A x \in 1..Len(procs) : x # p => procs'[x] = procs[x]
        /\ SameHolders(procs, procs')
    BY <1>a DEF Becomes
  <1>10. JobsFit(procs', jobs)
    BY <1>1, <1>9, AsideFits, CallIsNoJob DEF JobInv
  <1>11. KillerFits(killer, procs', jobs) /\ GlanceFits(glance, procs', jobs)
           /\ Phases(phase, agent, glance, killer, procs', jobs)
    BY <1>9, HoldersFit DEF JobInv
  <1>12. AgentFits(agent', procs', jobs) /\ Phases(phase, agent', glance, killer, procs', jobs)
    BY <1>4, <1>11, IdleFits
  <1> QED BY <1>3, <1>9, <1>10, <1>11, <1>12 DEF JobInv

\* promote_to_job: the job shows what the loop had read.
LEMMA PromotedShows ==
  ASSUME NEW text \in Seq(Nat), NEW held \in {0, 1}, agent.p \in Nat
  PROVE  LET new == Job!Promoted(text, held)
         IN /\ new \in JobState /\ new.p = agent.p /\ new.status = "running" /\ new.drain = "on" /\ new.held = held
            /\ Shows(new, text)
  <1> DEFINE none == <<>>
             job == Job!Job(agent.p, FALSE, <<>>, held)
             new == Job!Promoted(text, held)
  <1>1. <<>> \in Seq(Seq(Nat)) /\ none \in Seq(Nat) /\ Len(none) = 0
    OBVIOUS
  <1>2. /\ job \in JobState /\ job.buffer = none /\ job.cut = FALSE /\ job.p = agent.p /\ job.status = "running"
        /\ job.drain = "on" /\ job.held = held
    BY <1>1 DEF Job!Job, JobState
  <1>3. Job!append_stream(job, text) = new
    BY DEF Job!Promoted
  <1>4. none \o text = text
    BY ConcatEmptySeq
  <1>5. Job!FlattenSeq(none) = none
    BY FlattenNone
  <1> HIDE DEF job, none, new
  <1>6. Shows(job, none)
    <2>1. Job!FlattenSeq(job.buffer) = none /\ Ends(none, none)
      BY <1>1, <1>2, <1>5, EndsWhole
    <2>2. 0 <= BUFFER_LIMIT
      BY JobConstants
    <2> QED BY <1>1, <2>1, <2>2 DEF Shows
  <1>7. Shows(new, none \o text) /\ new \in JobState /\ Rebuffered(job, new)
    BY <1>1, <1>2, <1>3, <1>6, AppendShows
  <1>8. PICK b, c : new = [job EXCEPT !.buffer = b, !.cut = c]
    BY <1>7 DEF Rebuffered
  <1>9. new.p = job.p /\ new.status = job.status /\ new.drain = job.drain /\ new.held = job.held
    BY <1>2, <1>8 DEF JobState
  <1> QED BY <1>2, <1>4, <1>7, <1>9 DEF new

\* promote_to_job.
LEMMA PromoteKeeps ==
  ASSUME JobInv, Job!Promote
  PROVE  JobInv'
  <1> DEFINE p == agent.p
             r == procs[p]
             new == Job!Promoted(agent.text, agent.held)
             s == [r EXCEPT !.ended = "promoted"]
  <1>1. /\ agent.pc = "loop" /\ r.leader /\ counter' = counter + 1 /\ agent' = Job!Idle
        /\ jobs' = [j \in DOMAIN jobs \union {counter + 1} |-> IF j = counter + 1 THEN new ELSE jobs[j]]
        /\ procs' = [procs EXCEPT ![p] = s] /\ UNCHANGED <<killer, glance, phase>>
    BY DEF Job!Promote, Job!MayPromote, Job!alive
  <1>2. /\ agent \in AgentState /\ p \in 1..Len(procs) /\ r.kind = "bash" /\ r.ended = "no" /\ r \in ProcState
        /\ agent.text = Job!Decoded(1, r.read, r.eof) /\ agent.held = Job!Held(r.read, r.eof)
        /\ r.read <= r.wrote /\ ~r.eof /\ phase = "open"
    BY <1>1 DEF JobInv, AgentFits, ProcsFit, Holding, Phases
  <1>3. agent.text \in Seq(Nat) /\ agent.held \in {0, 1} /\ agent.p \in Nat
    BY <1>2 DEF AgentState
  <1>4. new \in JobState /\ new.p = p /\ new.status = "running" /\ new.drain = "on" /\ new.held = agent.held
          /\ Shows(new, agent.text)
    BY <1>3, PromotedShows
  <1> HIDE DEF r, new
  <1>5. "promoted" \in {"no", "exit", "timeout", "cancelled", "promoted"}
    OBVIOUS
  <1>6. s \in ProcState
    BY <1>2, <1>5 DEF ProcState
  <1>7. /\ s.leader = r.leader /\ s.child = r.child /\ s.read = r.read /\ s.wrote = r.wrote /\ s.eof = r.eof
        /\ s.kind = r.kind /\ s.ended = "promoted"
    BY <1>2 DEF ProcState
  <1> HIDE DEF s
  <1>8. MayBecome(procs, p, s)
    BY <1>2, <1>6, <1>7 DEF MayBecome, r, JobInv
  <1>a. Becomes(procs, p, s, procs')
    BY <1>1, <1>8, SetProc
  <1>9. /\ ProcsFit(procs') /\ Len(procs') = Len(procs) /\ \A x \in 1..Len(procs) : x # p => procs'[x] = procs[x]
        /\ procs'[p] = s /\ SameHolders(procs, procs')
    BY <1>a DEF Becomes
  <1>10. \A j \in DOMAIN jobs : jobs[j].p # p
    BY <1>1, CallIsNoJob
  <1>11. JobsFit(procs', jobs)
    BY <1>9, <1>10, AsideFits DEF JobInv
  <1>12. KillerFits(killer, procs', jobs) /\ GlanceFits(glance, procs', jobs)
    BY <1>9, HoldersFit DEF JobInv
  <1>13. r.eof = FALSE
    BY <1>2 DEF ProcState
  <1>14. /\ p \in 1..Len(procs') /\ ~procs'[p].eof /\ procs'[p].kind = "bash" /\ procs'[p].ended = "promoted"
         /\ new.held = Job!Held(procs'[p].read, FALSE) /\ Shows(new, Job!Decoded(1, procs'[p].read, procs'[p].eof))
    BY <1>2, <1>4, <1>7, <1>9, <1>13
  <1>b. NewFits(procs', jobs, new)
    BY <1>4, <1>10, <1>14 DEF NewFits
  <1>15. FitsToo(procs', jobs, agent, killer, glance, jobs', counter + 1)
    BY <1>1, <1>11, <1>b, NewJobFits DEF JobInv
  <1>16. AgentFits(agent', procs', jobs') /\ Phases(phase, agent', glance, killer, procs', jobs')
    BY <1>1, <1>2, IdleFits DEF Phases
  <1> QED BY <1>1, <1>9, <1>12, <1>15, <1>16 DEF JobInv, FitsToo

\* The job after its drainer has read up to to.
Drained(job, r, to, eof) ==
    [Job!append_stream(job, Job!Decoded(r + 1 - job.held, to, eof))
        EXCEPT !.held = Job!Held(to, eof), !.drain = IF eof THEN "off" ELSE "on"]

\* What the drainer may meet.
MayDrain(job, r, to, eof) ==
    /\ job \in JobState /\ r \in Nat /\ to \in Nat /\ r <= to /\ eof \in BOOLEAN /\ (eof => to = r)
    /\ job.held = Job!Held(r, FALSE) /\ Shows(job, Job!Decoded(1, r, FALSE))

\* Job y shows what was read up to to, and is job otherwise.
ShowsRead(job, to, eof, y) ==
    /\ y \in JobState /\ y.p = job.p /\ y.status = job.status /\ y.log = job.log
    /\ y.held = Job!Held(to, eof) /\ y.drain = (IF eof THEN "off" ELSE "on")
    /\ Shows(y, Job!Decoded(1, to, eof))

\* promote_to_job.drain_pipes: what was read is shown.
LEMMA DrainShows ==
  ASSUME NEW job, NEW r, NEW to, NEW eof, MayDrain(job, r, to, eof)
  PROVE  ShowsRead(job, to, eof, Drained(job, r, to, eof))
  <1> DEFINE old == Job!Decoded(1, r, FALSE)
             x == Job!Decoded(r + 1 - job.held, to, eof)
             read == Job!append_stream(job, x)
             h == Job!Held(to, eof)
             d == IF eof THEN "off" ELSE "on"
             y == [read EXCEPT !.held = h, !.drain = d]
  <1> USE DEF MayDrain
  <1>1. old \in Seq(Nat)
    BY DecodedIs
  <1>2. x \in Seq(Nat) /\ old \o x = Job!Decoded(1, to, eof)
    BY ZenonT(60), DecodedOn
  <1>3. h \in {0, 1} /\ d \in {"on", "off", "none"}
    BY DEF Job!Held
  <1>4. y = Drained(job, r, to, eof)
    BY DEF Drained
  <1> HIDE DEF h, d, x, old, y
  <1>5. Shows(read, old \o x) /\ read \in JobState /\ Rebuffered(job, read)
    BY <1>1, <1>2, AppendShows DEF old
  <1> HIDE DEF read
  <1>6. PICK b, c : read = [job EXCEPT !.buffer = b, !.cut = c]
    BY <1>5 DEF Rebuffered
  <1>7. read.p = job.p /\ read.status = job.status /\ read.log = job.log
    BY <1>6 DEF JobState
  <1>8. y \in JobState
    BY <1>3, <1>5 DEF JobState, y
  <1>9. y.p = read.p /\ y.status = read.status /\ y.log = read.log /\ y.held = h /\ y.drain = d
          /\ y.buffer = read.buffer /\ y.cut = read.cut
    BY <1>5 DEF JobState, y
  <1>10. Shows(y, Job!Decoded(1, to, eof))
    BY <1>2, <1>5, <1>9 DEF Shows
  <1> QED BY <1>4, <1>7, <1>8, <1>9, <1>10 DEF ShowsRead, h, d

\* The drainer reads.
LEMMA DrainKeeps ==
  ASSUME JobInv, NEW j \in DOMAIN jobs, Job!Drain(j)
  PROVE  JobInv'
  <1> DEFINE p == jobs[j].p
             eof == Job!Empty(p)
             r == procs[p].read
  <1>1. jobs[j].drain = "on" /\ UNCHANGED <<counter, agent, killer, glance, phase>>
    BY DEF Job!Drain
  <1>2. PICK to \in Job!Readable(p) : /\ procs' = [procs EXCEPT ![p].read = to, ![p].eof = eof]
                                      /\ jobs' = [jobs EXCEPT ![j] = Drained(jobs[j], r, to, eof)]
    BY DEF Job!Drain, Drained
  <1>3. /\ p \in 1..Len(procs) /\ procs[p].kind = "bash" /\ ~procs[p].eof /\ procs[p].ended = "promoted"
        /\ jobs[j].held = Job!Held(r, FALSE) /\ Shows(jobs[j], Job!Decoded(1, r, procs[p].eof))
        /\ jobs[j] \in JobState /\ (jobs[j].status # "running" => ~procs[p].leader)
    BY <1>1 DEF JobInv, JobsFit, Numbered
  <1>4. procs[p] \in ProcState /\ procs[p].read <= procs[p].wrote
    BY <1>3 DEF JobInv, ProcsFit
  <1>5. r \in Nat /\ procs[p].eof = FALSE
    BY <1>3, <1>4 DEF ProcState
  <1>6. to \in Nat /\ r <= to /\ to <= procs[p].wrote /\ eof \in BOOLEAN /\ (eof => to = r /\ ~Holding(procs, p))
    BY <1>4, ReadFinds
  <1>b. MayRead(procs, p, to, eof)
    BY <1>3, <1>6 DEF MayRead, JobInv
  <1>c. IsRead(procs, p, to, eof, procs')
    BY <1>2, <1>b, ReadNoted
  <1>7. /\ ProcsFit(procs') /\ Len(procs') = Len(procs) /\ SameHolders(procs, procs')
        /\ \A x \in 1..Len(procs) : x # p => procs'[x] = procs[x]
        /\ procs'[p].read = to /\ procs'[p].eof = eof /\ procs'[p].kind = "bash" /\ procs'[p].ended = "promoted"
    BY <1>3, <1>c DEF IsRead
  <1> DEFINE new == Drained(jobs[j], r, to, eof)
  <1>d. MayDrain(jobs[j], r, to, eof)
    BY <1>3, <1>5, <1>6 DEF MayDrain
  <1>e. ShowsRead(jobs[j], to, eof, new)
    BY <1>d, DrainShows
  <1> HIDE DEF new, eof
  <1>8. /\ new \in JobState /\ new.p = p /\ new.status = jobs[j].status /\ new.log = jobs[j].log
        /\ new.held = Job!Held(to, eof) /\ new.drain = (IF eof THEN "off" ELSE "on")
        /\ Shows(new, Job!Decoded(1, to, eof))
    BY <1>e DEF ShowsRead
  <1>a. jobs' = [jobs EXCEPT ![j] = new]
    BY <1>2 DEF new, eof
  <1>9. jobs \in [DOMAIN jobs -> JobState] /\ Numbered(jobs, counter) /\ JobsFit(procs, jobs)
    BY DEF JobInv, Numbered
  <1>10. /\ DOMAIN jobs' = DOMAIN jobs /\ jobs' \in [DOMAIN jobs -> JobState] /\ jobs'[j] = new
         /\ \A i \in DOMAIN jobs : i # j => jobs'[i] = jobs[i]
    BY <1>8, <1>9, <1>a
  <1>11. Numbered(jobs', counter)
    BY <1>9, <1>10 DEF Numbered
  <1>12. \A i \in DOMAIN jobs : jobs'[i].p = jobs[i].p /\ jobs'[i].log = jobs[i].log
           /\ (jobs'[i].drain = "on" => jobs[i].drain = "on")
    BY <1>1, <1>8, <1>10
  <1>13. \A i \in DOMAIN jobs : i # j => jobs[i].p # p
    BY <1>9 DEF JobsFit
  <1>14. JobsFit(procs', jobs')
    <2>1. \A i, k \in DOMAIN jobs' : jobs'[i].p = jobs'[k].p => i = k
      BY <1>9, <1>10, <1>12 DEF JobsFit
    <2>2. ASSUME NEW i \in DOMAIN jobs'
          PROVE  /\ jobs'[i].p \in 1..Len(procs')
                 /\ jobs'[i].status # "running" => ~procs'[jobs'[i].p].leader
                 /\ jobs'[i].drain = "on" => /\ procs'[jobs'[i].p].kind = "bash" /\ ~procs'[jobs'[i].p].eof
                                             /\ jobs'[i].held = Job!Held(procs'[jobs'[i].p].read, FALSE)
                 /\ procs'[jobs'[i].p].kind = "bash" =>
                        /\ procs'[jobs'[i].p].ended = "promoted"
                        /\ Shows(jobs'[i], Job!Decoded(1, procs'[jobs'[i].p].read, procs'[jobs'[i].p].eof))
      <3>1. CASE i = j
        <4>1. jobs'[i] = new /\ jobs'[i].p = p
          BY <1>8, <1>10, <3>1
        <4>2. new.drain = "on" => eof = FALSE
          BY <1>6, <1>8
        <4>3. new.status # "running" => ~procs'[p].leader
          BY <1>3, <1>7, <1>8 DEF SameHolders
        <4> QED BY <1>3, <1>7, <1>8, <4>1, <4>2, <4>3
      <3>2. CASE i # j
        <4>1. i \in DOMAIN jobs /\ jobs'[i] = jobs[i] /\ jobs[i].p \in 1..Len(procs) /\ jobs[i].p # p
          BY <1>9, <1>10, <1>13, <3>2 DEF JobsFit
        <4>2. procs'[jobs[i].p] = procs[jobs[i].p]
          BY <1>7, <4>1
        <4>3. Len(procs') = Len(procs) /\ jobs'[i].p = jobs[i].p /\ procs'[jobs'[i].p] = procs[jobs[i].p]
          BY <1>7, <4>1, <4>2
        <4> QED BY ZenonT(60), <1>9, <4>1, <4>3 DEF JobsFit
      <3> QED BY <3>1, <3>2
    <2> QED BY <2>1, <2>2 DEF JobsFit
  <1>15. KillerFits(killer, procs', jobs) /\ GlanceFits(glance, procs', jobs)
           /\ Phases(phase, agent, glance, killer, procs', jobs)
    BY <1>7, HoldersFit DEF JobInv
  <1>16. KillerFits(killer, procs', jobs') /\ GlanceFits(glance, procs', jobs')
    BY <1>10, <1>12, <1>15 DEF KillerFits, GlanceFits
  <1>17. Phases(phase, agent, glance, killer, procs', jobs')
    <2>1. \A i \in DOMAIN jobs : Reaped(procs', jobs, i) => Reaped(procs', jobs', i)
      BY <1>12 DEF Reaped
    <2> QED BY <1>10, <1>15, <2>1 DEF Phases
  <1>18. AgentFits(agent, procs', jobs')
    <2>1. AgentFits(agent, procs, jobs)
      BY DEF JobInv
    <2>2. agent.pc \in {"loop", "killing"} => agent.p # p
      BY <1>3, <2>1 DEF AgentFits
    <2> QED BY <1>7, <1>10, <2>1, <2>2 DEF AgentFits, Holding
  <1> QED BY <1>1, <1>7, <1>11, <1>14, <1>16, <1>17, <1>18 DEF JobInv

-----------------------------------------------------------------------------
(* The theorems of the jobs.                                               *)

\* Every step of the jobs keeps the invariant.
LEMMA JobNextKeeps ==
  ASSUME JobInv, Job!Next
  PROVE  JobInv'
  <1>1. CASE Job!Kernel
    BY <1>1, KernelKeeps
  <1>2. CASE Job!Bash
    BY <1>2, ReadReadyKeeps, TickKeeps, OverKeeps, PromoteKeeps, TimeoutKeeps DEF Job!Bash
  <1>3. CASE Job!Threads
    BY <1>3, KillSignalsKeep, KillReapsKeeps, KillSettlesKeeps, KillJoinsKeeps, GlanceWritesKeeps,
       ShutdownNextKeeps, DrainKeeps, DrainStopsKeeps DEF Job!Threads
  <1>4. CASE Job!BashCall \/ Job!StartJob \/ Job!Look \/ Job!WaitEnds \/ Job!Shutdown
    BY <1>4, BashCallKeeps, StartJobKeeps, LookKeeps, WaitEndsKeeps, ShutdownKeeps
  <1>5. CASE \E j \in DOMAIN jobs : Job!WaitJob(j) \/ Job!KillJob(j) \/ Job!Glance(j)
    BY <1>5, WaitJobKeeps, KillJobKeeps, GlanceKeeps
  <1> QED BY <1>1, <1>2, <1>3, <1>4, <1>5 DEF Job!Next

\* The inductive invariant of the jobs holds of every state of a run in which they move, and rests in the others.
THEOREM JobsAreSound == AllSpec => []JobInv
  <1>1. AllInit => JobInv
    BY JobInit DEF AllInit
  <1>2. JobInv /\ [AllNext]_<<part, vars, groupVars, jobVars>> => JobInv'
    <2> SUFFICES ASSUME JobInv, [AllNext]_<<part, vars, groupVars, jobVars>>
                 PROVE  JobInv'
      OBVIOUS
    <2>1. CASE Job!Next
      BY <2>1, JobNextKeeps
    <2>2. CASE UNCHANGED jobVars
      BY <2>2 DEF jobVars, JobInv
    <2> QED BY <2>1, <2>2 DEF AllNext
  <1> QED BY <1>1, <1>2, PTL DEF AllSpec

\* A job's half of the invariant is what its user sees.
LEMMA JobHistory ==
  ASSUME JobInv
  PROVE  Job!HistoryIsWhole
  <1> SUFFICES ASSUME NEW j \in DOMAIN jobs, procs[jobs[j].p].kind = "bash"
               PROVE  LET p == procs[jobs[j].p]
                          text == Job!Decoded(1, p.read, p.eof)
                          shown == Job!FlattenSeq(jobs[j].buffer)
                      IN /\ Job!IsSuffix(shown, text)
                         /\ Len(shown) <= BUFFER_LIMIT
                         /\ ~jobs[j].cut => shown = text
    BY DEF Job!HistoryIsWhole
  <1> DEFINE p == procs[jobs[j].p]
             text == Job!Decoded(1, p.read, p.eof)
             shown == Job!FlattenSeq(jobs[j].buffer)
  <1>1. p \in ProcState /\ jobs[j] \in JobState /\ Shows(jobs[j], text)
    <2>1. jobs[j].p \in 1..Len(procs) /\ Shows(jobs[j], text)
      BY DEF JobInv, JobsFit
    <2>2. procs \in Seq(ProcState) /\ jobs \in [DOMAIN jobs -> JobState]
      BY DEF JobInv, ProcsFit, Numbered
    <2>3. procs[jobs[j].p] \in ProcState /\ jobs[j] \in JobState
      BY <2>1, <2>2
    <2> QED BY <2>1, <2>3
  <1>2. p.read \in Nat /\ p.eof \in BOOLEAN /\ jobs[j].buffer \in Seq(Seq(Nat))
    BY <1>1 DEF ProcState, JobState
  <1>3. text \in Seq(Nat) /\ shown \in Seq(Nat)
    BY <1>2, DecodedIs, FlattenIsSeq
  <1> HIDE DEF p, text
  <1>4. Ends(shown, text) /\ Len(shown) <= BUFFER_LIMIT /\ (~jobs[j].cut => shown = text)
    BY <1>1 DEF Shows
  <1>5. Job!IsSuffix(shown, text)
    BY <1>3, <1>4, SuffixIs
  <1> QED BY <1>4, <1>5 DEF text, p

\* A promoted command's output is shown whole, a call that was not promoted leaves nothing, and closing the session
\* reaps every job: for every number of commands, bytes and jobs, every limit of a buffer and every deaf command.
THEOREM Accounted == AllSpec => []JobsAreAccounted
  <1>1. JobInv => JobsAreAccounted
    <2> SUFFICES ASSUME JobInv PROVE JobsAreAccounted
      OBVIOUS
    <2>1. Job!CallLeavesNothing
      <3>1. DOMAIN procs = 1..Len(procs)
        BY DEF JobInv, ProcsFit
      <3> QED BY <3>1 DEF JobInv, ProcsFit, Job!CallLeavesNothing, Job!HoldsPipe, Holding
    <2>2. Job!ShutdownReapsJobs
      BY DEF JobInv, Phases, Reaped, Job!ShutdownReapsJobs, Job!alive
    <2> QED BY <2>1, <2>2, JobHistory DEF JobsAreAccounted
  <1> QED BY <1>1, JobsAreSound, PTL
===============================================================================
