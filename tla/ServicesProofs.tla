---------------------------- MODULE ServicesProofs ----------------------------
(***************************************************************************)
(* Proofs about what a turn talks to: how a request to the model ends,     *)
(* what stays of a conversation that is compacted, and what is left behind *)
(* by a plugin worker.  Each part of MCServices moves while the others     *)
(* rest, so each has an inductive invariant of its own, which the steps of *)
(* the others keep because they leave its variables alone.                 *)
(***************************************************************************)
EXTENDS MCServices, Integers, SequenceTheorems, WellFoundedInduction, TLAPS

(***************************************************************************)
(* The model client: a request, its attempts, its receipt.                 *)
(***************************************************************************)

\* What a request, its attempt and the stream of that may be.
Phases == {"idle", "intercept", "saving", "wait", "reap", "backoff", "after"}
Outcomes == {"none", "error", "refused", "replaced", "answer", "cancelled", "retry"}
TurnState == [n : Nat \ {0}, cancelling : BOOLEAN]
RequestState == [n : Nat, phase : Phases, outcome : Outcomes, matched : BOOLEAN, retry_of : Nat]
LinkState == [turn : Nat, request : Nat, last : Nat]
TaskState == [pc : {"none", "running", "closing", "done"},
              out : {"none", "answer", "transient", "permanent", "cancelled"}]
ControlState == [held : BOOLEAN, claimed : BOOLEAN]
StreamState == [text : BOOLEAN, textDone : BOOLEAN, handoff : BOOLEAN, promoted : BOOLEAN, handed : Nat, cut : BOOLEAN]
Receipts == {"none", "not_run", "started", "completed", "failed"}

\* The receipt of a request the provider may have got.
Told == {"started", "completed", "failed"}

\* Whatever comes, a task that is over stays over, and a claim is what scheduled the cancellation of the attempt
\* in flight.
AttemptFits(r, tn, t, c, n, cs, cl) ==
    /\ r.phase \notin {"wait", "reap"} => t.pc \in {"none", "done"} /\ ~c.held
    /\ r.phase = "wait" => c.held
    /\ r.phase = "reap" => tn.cancelling
    /\ r.phase = "wait" /\ t.out = "cancelled" => c.claimed \/ tn.cancelling \/ cl
    /\ c.held /\ n \in cs => c.claimed

\* Before the first attempt of a request that plugins see, its receipt is written.
ReceiptFits(r, a, co, d) ==
    /\ r.phase \in {"intercept", "saving"} => a = 0
    /\ r.phase = "saving" => co = "started"
    /\ r.phase \in {"wait", "reap", "backoff", "after"} => a > 0
    /\ r.matched /\ a > 0 => co \in Told /\ d \in Told

\* What a link names was replaced in the turn it names.
LinkFits(r, tn, l, rs) ==
    /\ l.request # 0 => <<l.turn, l.request>> \in rs
    /\ r.retry_of # 0 => \E n \in 1..tn.n : <<n, r.retry_of>> \in rs /\ (r.phase # "idle" => n = tn.n)

\* Text is handed off with the second of its end and a tool boundary, once.
StreamFits(s, t, w) ==
    /\ s.textDone => s.text
    /\ s.promoted <=> s.textDone /\ s.handoff
    /\ s.handed = (IF s.promoted THEN 1 ELSE 0)
    /\ t.pc = "running" /\ w = "chat" => ~s.textDone

ClientTypes ==
    /\ wire \in Client!Wires /\ turn \in TurnState /\ request \in RequestState /\ link \in LinkState
    /\ attempt \in Nat /\ serial \in Nat /\ task \in TaskState /\ control \in ControlState
    /\ cancels \subseteq 0..serial /\ stream \in StreamState /\ core \in Receipts /\ disk \in Receipts
    /\ closed \in BOOLEAN

\* The inductive invariant of the model client.
ClientInv ==
    /\ ClientTypes
    /\ AttemptFits(request, turn, task, control, serial, cancels, closed)
    /\ ReceiptFits(request, attempt, core, disk)
    /\ LinkFits(request, turn, link, replaced)
    /\ StreamFits(stream, task, wire)

-----------------------------------------------------------------------------
(* What a step of the client does to one of its records.                   *)

\* A request after a step: the request of before in phase p with outcome o.
Continues(r, s, p, o) == s \in [n : {r.n}, phase : {p}, outcome : {o}, matched : {r.matched}, retry_of : {r.retry_of}]

LEMMA PhaseMoves ==
  ASSUME ClientTypes, NEW p \in Phases, request' = [request EXCEPT !.phase = p]
  PROVE  Continues(request, request', p, request.outcome)
  BY DEF ClientTypes, RequestState, Continues

LEMMA ContinuesFields ==
  ASSUME ClientTypes, NEW p \in Phases, NEW o \in Outcomes, Continues(request, request', p, o)
  PROVE  /\ request' \in RequestState
         /\ request'.phase = p /\ request'.outcome = o /\ request'.matched = request.matched
         /\ request'.retry_of = request.retry_of
  BY DEF ClientTypes, RequestState, Continues

\* A request that is not idle goes on: its link and what it replaced stay.
LEMMA LinkRests ==
  ASSUME ClientInv, UNCHANGED <<turn, link, replaced>>, request'.retry_of = request.retry_of,
         request.phase = "idle" => request'.phase = "idle"
  PROVE  LinkFits(request, turn, link, replaced)'
  BY DEF ClientInv, LinkFits

\* What remains of a step that sends an attempt.
LEMMA Starts ==
  ASSUME ClientInv, Client!StartAttempt, UNCHANGED <<wire, cancels, closed, turn>>, request'.phase = "wait"
  PROVE  /\ serial' \in Nat /\ task' \in TaskState /\ control' \in ControlState /\ stream' \in StreamState
         /\ cancels' \subseteq 0..serial'
         /\ AttemptFits(request, turn, task, control, serial, cancels, closed)'
         /\ StreamFits(stream, task, wire)'
  <1>1. serial \in Nat /\ cancels \subseteq 0..serial /\ serial' = serial + 1
    BY DEF ClientInv, ClientTypes, Client!StartAttempt
  <1>2. serial' \in Nat /\ cancels' \subseteq 0..serial' /\ serial' \notin cancels'
    BY <1>1
  <1>3. task' \in TaskState /\ task'.pc = "running" /\ task'.out = "none"
    BY DEF Client!StartAttempt, TaskState
  <1>4. control' \in ControlState /\ control'.held /\ ~control'.claimed
    BY DEF Client!StartAttempt, ControlState
  <1>5. stream' \in StreamState /\ ~stream'.textDone /\ ~stream'.promoted /\ stream'.handed = 0 /\ ~stream'.handoff
    BY DEF Client!StartAttempt, Client!Silent, StreamState
  <1>6. AttemptFits(request, turn, task, control, serial, cancels, closed)'
    BY <1>2, <1>3, <1>4 DEF AttemptFits
  <1>7. StreamFits(stream, task, wire)'
    BY <1>5 DEF StreamFits
  <1> QED BY <1>2, <1>3, <1>4, <1>5, <1>6, <1>7

\* How a request ends.
LEMMA Ends ==
  ASSUME ClientInv, NEW o \in Outcomes, Client!End(o), UNCHANGED turn
  PROVE  /\ Continues(request, request', "idle", o)
         /\ link' \in LinkState
         /\ LinkFits(request, turn, link, replaced)'
  <1>1. Continues(request, request', "idle", o)
    BY Zenon DEF ClientInv, ClientTypes, RequestState, Continues, Client!End
  <1>2. request'.phase = "idle" /\ request'.retry_of = request.retry_of
    BY <1>1 DEF Continues
  <1>3. replaced \subseteq replaced'
    BY DEF Client!End
  <1>4. link' = link \/ (link' \in [turn : {turn.n}, request : {link.last}, last : {link.last}])
    BY Zenon DEF ClientInv, ClientTypes, LinkState, Client!End
  <1>5. link' \in LinkState
    BY <1>4 DEF ClientInv, ClientTypes, LinkState, TurnState
  <1>6. link'.request # 0 => <<link'.turn, link'.request>> \in replaced'
    <2>1. CASE o = "retry"
      <3>1. link' \in [turn : {turn.n}, request : {link.last}, last : {link.last}]
        BY Zenon, <2>1 DEF ClientInv, ClientTypes, LinkState, Client!End
      <3>2. link'.turn = turn.n /\ link'.request = link.last
        BY <3>1
      <3> QED BY <2>1, <3>2 DEF Client!End
    <2>2. CASE o # "retry"
      BY <2>2, <1>3 DEF ClientInv, LinkFits, Client!End
    <2> QED BY <2>1, <2>2
  <1>7. request'.retry_of # 0 => \E n \in 1..turn.n : <<n, request'.retry_of>> \in replaced'
    BY <1>2, <1>3 DEF ClientInv, LinkFits
  <1>8. LinkFits(request, turn, link, replaced)'
    BY <1>2, <1>6, <1>7 DEF LinkFits
  <1> QED BY <1>1, <1>5, <1>8

\* A request that ends leaves the attempt it has not, or had.
LEMMA EndedFits ==
  ASSUME request'.phase = "idle", task'.pc \in {"none", "done"}, ~control'.held
  PROVE  AttemptFits(request, turn, task, control, serial, cancels, closed)'
  BY DEF AttemptFits

-----------------------------------------------------------------------------
(* The request.                                                            *)

LEMMA BeginKeeps == ASSUME ClientInv, Client!Begin PROVE ClientInv'
  <1> PICK matched \in BOOLEAN :
         /\ request' = [n |-> request.n + 1, phase |-> IF matched THEN "intercept" ELSE "wait",
                        outcome |-> "none", matched |-> matched, retry_of |-> Client!RetryOf]
         /\ link' = [Client!NoLink EXCEPT !.last = IF matched THEN request.n + 1 ELSE 0]
         /\ IF matched THEN Client!NoAttempt /\ attempt' = 0 ELSE Client!StartAttempt /\ attempt' = 1
         /\ core' = IF matched THEN "not_run" ELSE "none"
         /\ disk' = "none"
    BY DEF Client!Begin
  <1>1. /\ request.phase = "idle" /\ request \in RequestState /\ request.n \in Nat /\ link \in LinkState
        /\ link.request \in Nat /\ link.turn \in Nat
        /\ turn \in TurnState /\ turn.n \in Nat \ {0}
    BY DEF Client!Begin, Client!In, ClientInv, ClientTypes, RequestState, LinkState, TurnState
  <1>2. UNCHANGED <<wire, turn, cancels, closed, replaced>>
    BY DEF Client!Begin
  <1>3. Client!RetryOf \in Nat /\ (Client!RetryOf # 0 => Client!RetryOf = link.request /\ link.turn = turn.n)
    BY <1>1 DEF Client!RetryOf
  <1>4. request' \in RequestState /\ request'.retry_of = Client!RetryOf /\ request'.matched = matched
    BY <1>1, <1>3 DEF RequestState, Phases, Outcomes
  <1>5. link' \in LinkState /\ link'.request = 0
    BY <1>1 DEF LinkState, Client!NoLink
  <1>6. LinkFits(request, turn, link, replaced)'
    <2>1. Client!RetryOf # 0 => <<turn.n, Client!RetryOf>> \in replaced
      BY <1>3 DEF ClientInv, LinkFits
    <2>2. turn.n \in 1..turn.n
      BY <1>1
    <2> QED BY <1>2, <1>4, <1>5, <2>1, <2>2 DEF LinkFits
  <1>7. core' \in Receipts /\ disk' \in Receipts
    BY DEF Receipts
  <1>8. CASE matched
    <2>1. UNCHANGED <<serial, task, control, stream>> /\ attempt' = 0 /\ request'.phase = "intercept"
      BY <1>8 DEF Client!NoAttempt
    <2>2. ClientTypes'
      BY <1>2, <1>4, <1>5, <1>7, <2>1 DEF ClientInv, ClientTypes
    <2>3. AttemptFits(request, turn, task, control, serial, cancels, closed)'
      BY <1>1, <1>2, <2>1 DEF ClientInv, AttemptFits
    <2>4. ReceiptFits(request, attempt, core, disk)'
      BY <2>1 DEF ReceiptFits
    <2>5. StreamFits(stream, task, wire)'
      BY <1>2, <2>1 DEF ClientInv, StreamFits
    <2> QED BY <1>6, <2>2, <2>3, <2>4, <2>5 DEF ClientInv
  <1>9. CASE ~matched
    <2>1. Client!StartAttempt /\ attempt' = 1 /\ request'.phase = "wait"
      BY <1>9
    <2>2. /\ serial' \in Nat /\ task' \in TaskState /\ control' \in ControlState /\ stream' \in StreamState
          /\ cancels' \subseteq 0..serial'
          /\ AttemptFits(request, turn, task, control, serial, cancels, closed)'
          /\ StreamFits(stream, task, wire)'
      BY <1>2, <2>1, Starts
    <2>3. ClientTypes'
      BY <1>2, <1>4, <1>5, <1>7, <2>1, <2>2 DEF ClientInv, ClientTypes
    <2>4. ReceiptFits(request, attempt, core, disk)'
      BY <1>4, <1>9, <2>1 DEF ReceiptFits
    <2> QED BY <1>6, <2>2, <2>3, <2>4 DEF ClientInv
  <1> QED BY <1>8, <1>9

\* A request that ends with no attempt under way.
LEMMA EndKeeps ==
  ASSUME ClientInv, NEW o \in Outcomes, Client!End(o), request.phase \notin {"wait", "reap"},
         UNCHANGED <<wire, turn, attempt, serial, task, control, cancels, stream, disk, closed>>,
         core' \in Receipts, request.matched /\ attempt > 0 => core' \in Told
  PROVE  ClientInv'
  <1>1. /\ Continues(request, request', "idle", o) /\ link' \in LinkState
        /\ LinkFits(request, turn, link, replaced)'
    BY Ends
  <1>2. request' \in RequestState /\ request'.phase = "idle" /\ request'.matched = request.matched
    BY <1>1, ContinuesFields DEF ClientInv, Phases
  <1>3. ClientTypes'
    BY <1>1, <1>2 DEF ClientInv, ClientTypes
  <1>4. AttemptFits(request, turn, task, control, serial, cancels, closed)'
    BY <1>2 DEF ClientInv, AttemptFits
  <1>5. ReceiptFits(request, attempt, core, disk)'
    BY <1>2 DEF ClientInv, ReceiptFits
  <1>6. StreamFits(stream, task, wire)'
    BY DEF ClientInv, StreamFits
  <1> QED BY <1>1, <1>3, <1>4, <1>5, <1>6 DEF ClientInv

LEMMA PluginEndsKeeps == ASSUME ClientInv, Client!PluginEnds PROVE ClientInv'
  <1> PICK o \in {"error", "refused", "replaced"} : Client!End(o)
    BY DEF Client!PluginEnds
  <1>1. o \in Outcomes /\ request.phase \notin {"wait", "reap"}
    BY DEF Client!PluginEnds, Client!In, Outcomes
  <1>2. core' \in Receipts /\ (request.matched /\ attempt > 0 => core' \in Told)
    BY DEF Client!PluginEnds, ClientInv, ClientTypes, ReceiptFits, Client!receipt
  <1> QED BY <1>1, <1>2, EndKeeps DEF Client!PluginEnds, Client!receipt

LEMMA DeliverKeeps == ASSUME ClientInv, Client!Deliver PROVE ClientInv'
  <1> PICK o \in {"answer", "replaced", "refused", "error"} : Client!End(o)
    BY DEF Client!Deliver
  <1>1. o \in Outcomes /\ request.phase \notin {"wait", "reap"}
    BY DEF Client!Deliver, Client!In, Outcomes
  <1>2. core' \in Receipts /\ (request.matched /\ attempt > 0 => core' \in Told)
    BY DEF Client!Deliver, ClientInv, ClientTypes, ReceiptFits, Client!receipt
  <1> QED BY <1>1, <1>2, EndKeeps DEF Client!Deliver, Client!receipt

LEMMA SaveFailsKeeps == ASSUME ClientInv, Client!SaveFails PROVE ClientInv'
  <1>1. "error" \in Outcomes /\ request.phase \notin {"wait", "reap"} /\ Client!End("error")
    BY DEF Client!SaveFails, Client!In, Outcomes
  <1>2. core' \in Receipts /\ core' \in Told
    BY DEF Client!SaveFails, Receipts, Told
  <1> QED BY <1>1, <1>2, EndKeeps DEF Client!SaveFails

LEMMA ContinueKeeps == ASSUME ClientInv, Client!Continue PROVE ClientInv'
  <1>1. /\ request.phase = "intercept" /\ request' = [request EXCEPT !.phase = "saving"] /\ core' = "started"
        /\ UNCHANGED <<wire, turn, link, attempt, serial, task, control, cancels, stream, disk, closed, replaced>>
    BY DEF Client!Continue, Client!In
  <1>2. "saving" \in Phases /\ request.outcome \in Outcomes
    BY DEF Phases, ClientInv, ClientTypes, RequestState
  <1>3. Continues(request, request', "saving", request.outcome)
    BY <1>1, <1>2, PhaseMoves DEF ClientInv
  <1>4. /\ request' \in RequestState /\ request'.phase = "saving" /\ request'.matched = request.matched
        /\ request'.retry_of = request.retry_of
    BY <1>2, <1>3, ContinuesFields DEF ClientInv
  <1>5. ClientTypes'
    BY <1>1, <1>4 DEF ClientInv, ClientTypes, Receipts
  <1>6. AttemptFits(request, turn, task, control, serial, cancels, closed)'
    BY <1>1, <1>4 DEF ClientInv, AttemptFits
  <1>7. ReceiptFits(request, attempt, core, disk)'
    BY <1>1, <1>4 DEF ClientInv, ReceiptFits
  <1>8. StreamFits(stream, task, wire)'
    BY <1>1 DEF ClientInv, StreamFits
  <1>9. LinkFits(request, turn, link, replaced)'
    BY <1>1, <1>4, LinkRests
  <1> QED BY <1>5, <1>6, <1>7, <1>8, <1>9 DEF ClientInv

\* A request that is sent, the first time or again.
LEMMA SendingKeeps ==
  ASSUME ClientInv, request.phase \in {"saving", "backoff"}, request' = [request EXCEPT !.phase = "wait"],
         Client!StartAttempt, attempt' \in Nat, attempt' > 0, disk' \in Receipts,
         request.matched => core \in Told /\ disk' \in Told,
         UNCHANGED <<wire, turn, link, cancels, core, closed, replaced>>
  PROVE  ClientInv'
  <1>1. "wait" \in Phases /\ request.outcome \in Outcomes
    BY DEF Phases, ClientInv, ClientTypes, RequestState
  <1>2. Continues(request, request', "wait", request.outcome)
    BY <1>1, PhaseMoves DEF ClientInv
  <1>3. /\ request' \in RequestState /\ request'.phase = "wait" /\ request'.matched = request.matched
        /\ request'.retry_of = request.retry_of
    BY <1>1, <1>2, ContinuesFields DEF ClientInv
  <1>4. /\ serial' \in Nat /\ task' \in TaskState /\ control' \in ControlState /\ stream' \in StreamState
        /\ cancels' \subseteq 0..serial'
        /\ AttemptFits(request, turn, task, control, serial, cancels, closed)'
        /\ StreamFits(stream, task, wire)'
    BY <1>3, Starts
  <1>5. ClientTypes'
    BY <1>3, <1>4 DEF ClientInv, ClientTypes
  <1>6. ReceiptFits(request, attempt, core, disk)'
    BY <1>3 DEF ReceiptFits
  <1>7. LinkFits(request, turn, link, replaced)'
    BY <1>3, LinkRests
  <1> QED BY <1>4, <1>5, <1>6, <1>7 DEF ClientInv

LEMMA SendKeeps == ASSUME ClientInv, Client!Send PROVE ClientInv'
  <1>1. /\ request.phase = "saving" /\ request' = [request EXCEPT !.phase = "wait"] /\ Client!StartAttempt
        /\ attempt' = 1 /\ disk' = core
        /\ UNCHANGED <<wire, turn, link, cancels, core, closed, replaced>>
    BY DEF Client!Send, Client!In
  <1>2. core = "started" /\ core \in Receipts
    BY <1>1 DEF ClientInv, ClientTypes, ReceiptFits
  <1>3. core \in Told
    BY <1>2 DEF Told
  <1>4. attempt' \in Nat /\ attempt' > 0
    BY <1>1
  <1> QED BY <1>1, <1>2, <1>3, <1>4, SendingKeeps

LEMMA AgainKeeps == ASSUME ClientInv, Client!Again PROVE ClientInv'
  <1>1. /\ request.phase = "backoff" /\ request' = [request EXCEPT !.phase = "wait"] /\ Client!StartAttempt
        /\ UNCHANGED <<wire, turn, link, attempt, cancels, core, disk, closed, replaced>>
    BY DEF Client!Again, Client!In, Client!receipt
  <1>2. attempt' \in Nat /\ attempt' > 0 /\ disk' \in Receipts
    BY <1>1 DEF ClientInv, ClientTypes, ReceiptFits
  <1>3. request.matched => core \in Told /\ disk' \in Told
    BY <1>1 DEF ClientInv, ReceiptFits
  <1> QED BY <1>1, <1>2, <1>3, SendingKeeps

LEMMA SaveKeeps == ASSUME ClientInv, Client!Save PROVE ClientInv'
  <1>1. /\ disk' = core
        /\ UNCHANGED <<wire, turn, request, link, attempt, serial, task, control, cancels, stream, core, closed, replaced>>
    BY DEF Client!Save
  <1>2. ClientTypes'
    BY <1>1 DEF ClientInv, ClientTypes
  <1>3. ReceiptFits(request, attempt, core, disk)'
    BY <1>1 DEF ClientInv, ReceiptFits
  <1> QED BY <1>1, <1>2, <1>3 DEF ClientInv, AttemptFits, LinkFits, StreamFits

LEMMA NextTurnKeeps == ASSUME ClientInv, Client!NextTurn PROVE ClientInv'
  <1>1. /\ request.phase = "idle" /\ turn' = [n |-> turn.n + 1, cancelling |-> FALSE]
        /\ UNCHANGED <<wire, request, link, attempt, serial, task, control, cancels, stream, core, disk, closed, replaced>>
    BY DEF Client!NextTurn, Client!In, Client!receipt
  <1>2. turn.n \in Nat \ {0} /\ turn' \in TurnState /\ turn'.n = turn.n + 1
    BY <1>1 DEF ClientInv, ClientTypes, TurnState
  <1>3. ClientTypes'
    BY <1>1, <1>2 DEF ClientInv, ClientTypes
  <1>4. AttemptFits(request, turn, task, control, serial, cancels, closed)'
    BY <1>1 DEF ClientInv, AttemptFits
  <1>5. LinkFits(request, turn, link, replaced)'
    <2>1. 1..turn.n \subseteq 1..turn'.n
      BY <1>2
    <2> QED BY <1>1, <2>1 DEF ClientInv, LinkFits
  <1> QED BY <1>1, <1>3, <1>4, <1>5 DEF ClientInv, ReceiptFits, StreamFits

-----------------------------------------------------------------------------
(* The attempt.                                                            *)

\* A handoff: of a stream that fits but for the end of the text or the boundary it has just seen.
Fresh(s) ==
    /\ s \in StreamState /\ (s.textDone => s.text) /\ (s.promoted => s.textDone /\ s.handoff)
    /\ s.handed = (IF s.promoted THEN 1 ELSE 0)

LEMMA Promotes ==
  ASSUME NEW s, Fresh(s), NEW r, r = Client!Promote(s)
  PROVE  /\ r \in StreamState /\ r.text = s.text /\ r.textDone = s.textDone /\ r.handoff = s.handoff
         /\ r.promoted <=> s.textDone /\ s.handoff
         /\ r.handed = (IF s.textDone /\ s.handoff THEN 1 ELSE 0)
  <1>1. CASE s.textDone /\ s.handoff /\ ~s.promoted
    <2>1. r = [s EXCEPT !.promoted = TRUE, !.handed = s.handed + 1]
      BY <1>1 DEF Client!Promote, Fresh
    <2>2. s.handed = 0 /\ s.text
      BY <1>1 DEF Fresh
    <2>3. r = [s EXCEPT !.promoted = TRUE, !.handed = 1]
      BY <2>1, <2>2
    <2>4. s \in StreamState
      BY DEF Fresh
    <2>5. r \in [text : {s.text}, textDone : {s.textDone}, handoff : {s.handoff}, promoted : {TRUE}, handed : {1},
                 cut : {s.cut}]
      BY ONLY Zenon, <2>3, <2>4 DEF StreamState
    <2>6. /\ r.text = s.text /\ r.textDone = s.textDone /\ r.handoff = s.handoff /\ r.promoted = TRUE /\ r.handed = 1
      BY ONLY Zenon, <2>5
    <2>7. r \in StreamState
      <3>1. /\ s.text \in BOOLEAN /\ s.textDone \in BOOLEAN /\ s.handoff \in BOOLEAN /\ s.cut \in BOOLEAN
            /\ TRUE \in BOOLEAN /\ 1 \in Nat
        BY ONLY <2>4 DEF StreamState
      <3> QED BY ONLY Zenon, <2>5, <3>1 DEF StreamState
    <2> QED BY <1>1, <2>6, <2>7
  <1>2. CASE ~(s.textDone /\ s.handoff /\ ~s.promoted)
    <2>1. r = s
      BY <1>2 DEF Client!Promote, Fresh
    <2> QED BY <1>2, <2>1 DEF Fresh
  <1> QED BY <1>1, <1>2

\* What the stream in flight is.
LEMMA StreamIs ==
  ASSUME ClientInv
  PROVE  stream \in StreamState /\ Fresh(stream) /\ wire \in Client!Wires
  BY DEF ClientInv, ClientTypes, StreamFits, Fresh

\* What another event of the stream leaves alone.
LEMMA StreamMoves ==
  ASSUME ClientInv, stream' \in StreamState, StreamFits(stream, task, wire)',
         UNCHANGED <<wire, turn, request, link, attempt, serial, task, control, cancels, core, disk, closed, replaced>>
  PROVE  ClientInv'
  BY DEF ClientInv, ClientTypes, AttemptFits, ReceiptFits, LinkFits

LEMMA TextKeeps == ASSUME ClientInv, Client!Text PROVE ClientInv'
  <1>1. /\ ~stream.textDone /\ stream' = [stream EXCEPT !.text = TRUE]
        /\ UNCHANGED <<wire, turn, request, link, attempt, serial, task, control, cancels, core, disk, closed, replaced>>
    BY DEF Client!Text, Client!Attempt, Client!receipt
  <1>2. stream' \in [text : {TRUE}, textDone : {stream.textDone}, handoff : {stream.handoff},
                     promoted : {stream.promoted}, handed : {stream.handed}, cut : {stream.cut}]
    BY Zenon, <1>1, StreamIs DEF StreamState
  <1>3. stream' \in StreamState
    BY Zenon, <1>2, StreamIs DEF StreamState
  <1>4. StreamFits(stream, task, wire)'
    BY <1>1, <1>2 DEF ClientInv, StreamFits
  <1> QED BY <1>1, <1>3, <1>4, StreamMoves

LEMMA TextDoneKeeps == ASSUME ClientInv, Client!TextDone PROVE ClientInv'
  <1> DEFINE s == [stream EXCEPT !.textDone = TRUE]
  <1>1. /\ wire # "chat" /\ stream.text /\ stream' = Client!Promote(s)
        /\ UNCHANGED <<wire, turn, request, link, attempt, serial, task, control, cancels, core, disk, closed, replaced>>
    BY DEF Client!TextDone, Client!Attempt, Client!receipt
  <1>2. s \in [text : {stream.text}, textDone : {TRUE}, handoff : {stream.handoff},
               promoted : {stream.promoted}, handed : {stream.handed}, cut : {stream.cut}]
    BY Zenon, StreamIs DEF StreamState
  <1>3. Fresh(s)
    BY Zenon, <1>1, <1>2, StreamIs DEF Fresh, StreamState
  <1>4. /\ stream' \in StreamState /\ stream'.text = s.text /\ stream'.textDone = s.textDone
        /\ stream'.handoff = s.handoff /\ (stream'.promoted <=> s.textDone /\ s.handoff)
        /\ stream'.handed = (IF s.textDone /\ s.handoff THEN 1 ELSE 0)
    BY Zenon, <1>1, <1>3, Promotes
  <1>5. StreamFits(stream, task, wire)'
    BY Zenon, <1>1, <1>2, <1>4 DEF StreamFits
  <1> QED BY <1>1, <1>4, <1>5, StreamMoves

LEMMA ToolSeenKeeps == ASSUME ClientInv, Client!ToolSeen PROVE ClientInv'
  <1> DEFINE s == [stream EXCEPT !.handoff = TRUE]
  <1>1. /\ stream' = (IF wire = "chat" THEN s ELSE Client!Promote(s)) /\ task.pc = "running"
        /\ UNCHANGED <<wire, turn, request, link, attempt, serial, task, control, cancels, core, disk, closed, replaced>>
    BY DEF Client!ToolSeen, Client!Attempt, Client!receipt, Client!Running
  <1>2. s \in [text : {stream.text}, textDone : {stream.textDone}, handoff : {TRUE},
               promoted : {stream.promoted}, handed : {stream.handed}, cut : {stream.cut}]
    BY Zenon, StreamIs DEF StreamState
  <1>3. Fresh(s)
    BY Zenon, <1>1, <1>2, StreamIs DEF Fresh, StreamState
  <1>4. CASE wire = "chat"
    <2>1. ~stream.textDone /\ ~stream.promoted /\ stream.handed = 0
      BY <1>1, <1>4 DEF ClientInv, StreamFits
    <2>2. stream' = s /\ s \in StreamState
      BY <1>1, <1>3, <1>4 DEF Fresh
    <2>3. StreamFits(stream, task, wire)'
      BY <1>2, <2>1, <2>2 DEF StreamFits
    <2> QED BY Zenon, <1>1, <2>2, <2>3, StreamMoves
  <1>5. CASE wire # "chat"
    <2>1. /\ stream' \in StreamState /\ stream'.text = s.text /\ stream'.textDone = s.textDone
          /\ stream'.handoff = s.handoff /\ (stream'.promoted <=> s.textDone /\ s.handoff)
          /\ stream'.handed = (IF s.textDone /\ s.handoff THEN 1 ELSE 0)
      BY Zenon, <1>1, <1>3, <1>5, Promotes
    <2>2. StreamFits(stream, task, wire)'
      BY Zenon, <1>1, <1>2, <1>3, <1>5, <2>1 DEF StreamFits, Fresh
    <2> QED BY <1>1, <2>1, <2>2, StreamMoves
  <1> QED BY <1>4, <1>5

\* The attempt in flight is one of the request that waits for it, or is cancelled for.
LEMMA InFlight ==
  ASSUME ClientInv, task.pc \in {"running", "closing"}
  PROVE  request.phase \in {"wait", "reap"}
  BY DEF ClientInv, AttemptFits

\* An attempt that ends by itself was not cancelled.
LEMMA LeaveKeeps ==
  ASSUME ClientInv, task.pc \in {"running", "closing"}, task' \in TaskState, task'.pc # "running",
         task'.out = "cancelled" => task.out = "cancelled",
         stream' \in StreamState, StreamFits(stream, task, wire)',
         UNCHANGED <<wire, turn, request, link, attempt, serial, control, cancels, core, disk, closed, replaced>>
  PROVE  ClientInv'
  <1>1. ClientTypes'
    BY DEF ClientInv, ClientTypes
  <1>2. AttemptFits(request, turn, task, control, serial, cancels, closed)'
    BY InFlight DEF ClientInv, AttemptFits
  <1> QED BY <1>1, <1>2 DEF ClientInv, ReceiptFits, LinkFits

\* An answer shows whether the text is final.
LEMMA AnsweredIs ==
  ASSUME ClientInv, Client!Answered
  PROVE  /\ task.pc = "running" /\ task' = [pc |-> "closing", out |-> "answer"]
         /\ UNCHANGED <<wire, turn, request, link, attempt, serial, control, cancels, core, disk, closed, replaced>>
         /\ stream' \in StreamState /\ StreamFits(stream, task, wire)'
         /\ wire # "unstreamed" => stream'.handed = (IF stream.text /\ stream.handoff THEN 1 ELSE 0)
  <1> DEFINE s == [stream EXCEPT !.textDone = stream.text]
  <1>1. /\ task.pc = "running" /\ task' = [pc |-> "closing", out |-> "answer"]
        /\ wire = "anthropic" /\ stream.text => stream.textDone
        /\ stream' = (IF wire \in {"chat", "responses"} THEN Client!Promote(s) ELSE stream)
        /\ UNCHANGED <<wire, turn, request, link, attempt, serial, control, cancels, core, disk, closed, replaced>>
    BY DEF Client!Answered, Client!Leave, Client!receipt, Client!Running
  <1>2. s \in [text : {stream.text}, textDone : {stream.text}, handoff : {stream.handoff},
               promoted : {stream.promoted}, handed : {stream.handed}, cut : {stream.cut}]
    BY StreamIs DEF StreamState
  <1>3. Fresh(s)
    BY <1>2, StreamIs DEF Fresh, StreamState
  <1>4. task'.pc = "closing"
    BY <1>1
  <1>5. CASE wire \in {"chat", "responses"}
    <2>1. /\ stream' \in StreamState /\ stream'.text = s.text /\ stream'.textDone = s.textDone
          /\ stream'.handoff = s.handoff /\ (stream'.promoted <=> s.textDone /\ s.handoff)
          /\ stream'.handed = (IF s.textDone /\ s.handoff THEN 1 ELSE 0)
      BY Zenon, <1>1, <1>3, <1>5, Promotes
    <2>2. StreamFits(stream, task, wire)'
      BY <1>2, <1>4, <2>1 DEF StreamFits
    <2> QED BY <1>1, <1>2, <2>1, <2>2
  <1>6. CASE wire \notin {"chat", "responses"}
    <2>1. stream' = stream
      BY <1>1, <1>6
    <2>2. StreamFits(stream, task, wire)'
      BY <1>1, <1>4, <2>1 DEF ClientInv, StreamFits
    <2>3. wire = "anthropic" \/ wire = "unstreamed"
      BY <1>6, StreamIs DEF Client!Wires
    <2>4. wire # "unstreamed" => stream.handed = (IF stream.text /\ stream.handoff THEN 1 ELSE 0)
      BY <1>1, <2>3 DEF ClientInv, StreamFits
    <2> QED BY <1>1, <2>1, <2>2, <2>4, StreamIs
  <1> QED BY <1>5, <1>6

LEMMA AnsweredKeeps == ASSUME ClientInv, Client!Answered PROVE ClientInv'
  <1>1. task' \in TaskState /\ task'.pc # "running" /\ task'.out # "cancelled"
    BY AnsweredIs DEF TaskState
  <1> QED BY <1>1, AnsweredIs, LeaveKeeps

LEMMA StreamEndsKeeps == ASSUME ClientInv, Client!StreamEnds PROVE ClientInv'
  <1>1. /\ task.pc = "running"
        /\ task' = [pc |-> "closing", out |-> IF wire = "responses" THEN "transient" ELSE "answer"]
        /\ stream' = [stream EXCEPT !.cut = TRUE]
        /\ UNCHANGED <<wire, turn, request, link, attempt, serial, control, cancels, core, disk, closed, replaced>>
    BY DEF Client!StreamEnds, Client!Leave, Client!receipt, Client!Running
  <1>2. task' \in TaskState /\ task'.pc # "running" /\ task'.out # "cancelled"
    BY <1>1 DEF TaskState
  <1>3. stream' \in [text : {stream.text}, textDone : {stream.textDone}, handoff : {stream.handoff},
                     promoted : {stream.promoted}, handed : {stream.handed}, cut : {TRUE}]
    BY Zenon, <1>1, StreamIs DEF StreamState
  <1>4. stream' \in StreamState
    BY Zenon, <1>3, StreamIs DEF StreamState
  <1>5. StreamFits(stream, task, wire)'
    BY <1>1, <1>2, <1>3 DEF ClientInv, StreamFits
  <1> QED BY <1>1, <1>2, <1>4, <1>5, LeaveKeeps

LEMMA FailsKeeps == ASSUME ClientInv, Client!Fails PROVE ClientInv'
  <1>1. /\ task.pc = "running" /\ \E out \in {"transient", "permanent"} : task' = [pc |-> "closing", out |-> out]
        /\ UNCHANGED <<wire, turn, request, link, attempt, serial, control, cancels, stream, core, disk, closed, replaced>>
    BY DEF Client!Fails, Client!Leave, Client!receipt, Client!Running
  <1>2. task' \in TaskState /\ task'.pc # "running" /\ task'.out # "cancelled"
    BY <1>1 DEF TaskState
  <1>3. StreamFits(stream, task, wire)'
    BY <1>1, <1>2 DEF ClientInv, StreamFits
  <1> QED BY <1>1, <1>2, <1>3, StreamIs, LeaveKeeps

LEMMA FinishKeeps == ASSUME ClientInv, Client!Finish PROVE ClientInv'
  <1>1. /\ task.pc = "closing" /\ task' = [task EXCEPT !.pc = "done"]
        /\ UNCHANGED <<wire, turn, request, link, attempt, serial, control, cancels, stream, core, disk, closed, replaced>>
    BY DEF Client!Finish, Client!receipt
  <1>2. task' \in [pc : {"done"}, out : {task.out}]
    BY <1>1 DEF ClientInv, ClientTypes, TaskState
  <1>3. task' \in TaskState /\ task'.pc # "running" /\ task'.out = task.out
    BY <1>2 DEF ClientInv, ClientTypes, TaskState
  <1>4. StreamFits(stream, task, wire)'
    BY <1>1, <1>3 DEF ClientInv, StreamFits
  <1> QED BY <1>1, <1>3, <1>4, StreamIs, LeaveKeeps

-----------------------------------------------------------------------------
(* The cancellations, and what an attempt that ended means.                *)

\* A cancellation as the child meets it.
LEMMA CancelledIs ==
  ASSUME ClientInv, NEW t, t = Client!Cancelled(task)
  PROVE  /\ t \in TaskState /\ t.pc # "running"
         /\ task.pc \in {"none", "done"} => t = task
         /\ t = task \/ t.out = "cancelled"
  <1>1. task \in TaskState /\ task.pc \in {"none", "running", "closing", "done"}
    BY DEF ClientInv, ClientTypes, TaskState
  <1>2. CASE task.pc = "running"
    <2>1. t = [pc |-> "closing", out |-> "cancelled"]
      BY <1>2 DEF Client!Cancelled
    <2> QED BY <1>2, <2>1 DEF TaskState
  <1>3. CASE task.pc = "closing"
    <2>1. t = [pc |-> "done", out |-> "cancelled"]
      BY <1>3 DEF Client!Cancelled
    <2> QED BY <1>3, <2>1 DEF TaskState
  <1>4. CASE task.pc \in {"none", "done"}
    <2>1. t = task
      BY <1>4 DEF Client!Cancelled
    <2> QED BY <1>1, <1>4, <2>1
  <1> QED BY <1>1, <1>2, <1>3, <1>4

\* A stream that fits a task fits it when it no longer runs.
LEMMA StreamRests ==
  ASSUME ClientInv, UNCHANGED <<stream, wire>>, task' = task \/ task'.pc # "running"
  PROVE  stream' \in StreamState /\ StreamFits(stream, task, wire)'
  BY DEF ClientInv, ClientTypes, StreamFits

LEMMA ClaimKeeps == ASSUME ClientInv, Client!Claim PROVE ClientInv'
  <1>1. /\ control.held /\ control' = [control EXCEPT !.claimed = TRUE] /\ cancels' = cancels \cup {serial}
        /\ UNCHANGED <<wire, turn, request, link, attempt, serial, task, stream, core, disk, closed, replaced>>
    BY DEF Client!Claim, Client!receipt
  <1>2. control' \in [held : {control.held}, claimed : {TRUE}]
    BY Zenon, <1>1 DEF ClientInv, ClientTypes, ControlState
  <1>3. control' \in ControlState /\ control'.held = control.held /\ control'.claimed
    BY Zenon, <1>2 DEF ClientInv, ClientTypes, ControlState
  <1>4. serial \in Nat /\ cancels' \subseteq 0..serial
    BY <1>1 DEF ClientInv, ClientTypes
  <1>5. ClientTypes'
    BY <1>1, <1>3, <1>4 DEF ClientInv, ClientTypes
  <1>6. AttemptFits(request, turn, task, control, serial, cancels, closed)'
    BY <1>1, <1>3 DEF ClientInv, AttemptFits
  <1> QED BY <1>1, <1>5, <1>6, StreamRests DEF ClientInv, ReceiptFits, LinkFits

LEMMA CancelArrivesKeeps == ASSUME ClientInv, Client!CancelArrives PROVE ClientInv'
  <1> PICK a \in cancels : cancels' = cancels \ {a} /\ task' = (IF a = serial THEN Client!Cancelled(task) ELSE task)
    BY DEF Client!CancelArrives
  <1>1. UNCHANGED <<wire, turn, request, link, attempt, serial, control, stream, core, disk, closed, replaced>>
    BY DEF Client!CancelArrives, Client!receipt
  <1>2. /\ task' \in TaskState /\ (task' = task \/ task'.pc # "running")
        /\ task.pc \in {"none", "done"} => task' = task
        /\ task' = task \/ (task'.out = "cancelled" /\ serial \in cancels)
    <2>1. CASE a = serial
      BY <2>1, CancelledIs
    <2>2. CASE a # serial
      BY <2>2 DEF ClientInv, ClientTypes
    <2> QED BY <2>1, <2>2
  <1>3. ClientTypes'
    BY <1>1, <1>2 DEF ClientInv, ClientTypes
  <1>4. AttemptFits(request, turn, task, control, serial, cancels, closed)'
    BY <1>1, <1>2 DEF ClientInv, AttemptFits
  <1> QED BY <1>1, <1>2, <1>3, <1>4, StreamRests DEF ClientInv, ReceiptFits, LinkFits

LEMMA CancelTurnKeeps == ASSUME ClientInv, Client!CancelTurn PROVE ClientInv'
  <1>1. /\ turn' = [turn EXCEPT !.cancelling = TRUE]
        /\ UNCHANGED <<wire, request, link, attempt, serial, task, control, cancels, stream, core, disk, closed, replaced>>
    BY DEF Client!CancelTurn, Client!receipt
  <1>2. turn' \in [n : {turn.n}, cancelling : {TRUE}]
    BY Zenon, <1>1 DEF ClientInv, ClientTypes, TurnState
  <1>3. turn' \in TurnState /\ turn'.n = turn.n /\ turn'.cancelling
    BY Zenon, <1>2 DEF ClientInv, ClientTypes, TurnState
  <1>4. ClientTypes'
    BY <1>1, <1>3 DEF ClientInv, ClientTypes
  <1>5. AttemptFits(request, turn, task, control, serial, cancels, closed)'
    BY <1>1, <1>3 DEF ClientInv, AttemptFits
  <1> QED BY <1>1, <1>3, <1>4, <1>5, StreamRests DEF ClientInv, ReceiptFits, LinkFits

\* The receipt of a request that is abandoned.
LEMMA AbandonedIs ==
  ASSUME ClientInv
  PROVE  Client!Abandoned \in Receipts /\ (request.matched /\ attempt > 0 => Client!Abandoned \in Told)
  <1>1. CASE request.phase = "after" \/ core = "started"
    BY <1>1 DEF Client!Abandoned, Client!In, Receipts, Told
  <1>2. CASE ~(request.phase = "after" \/ core = "started")
    BY <1>2 DEF Client!Abandoned, Client!In, ClientInv, ClientTypes, ReceiptFits
  <1> QED BY <1>1, <1>2

LEMMA CancelDeliveredKeeps == ASSUME ClientInv, Client!CancelDelivered PROVE ClientInv'
  <1>1. turn.cancelling /\ UNCHANGED <<wire, turn, attempt, serial, control, cancels, stream, disk, closed>>
    BY DEF Client!CancelDelivered
  <1>2. CASE /\ request.phase \in {"intercept", "saving", "backoff", "after"}
             /\ Client!End("cancelled") /\ core' = Client!Abandoned /\ UNCHANGED task
    <2>1. "cancelled" \in Outcomes /\ request.phase \notin {"wait", "reap"} /\ Client!End("cancelled")
      BY <1>2 DEF Outcomes
    <2>2. core' \in Receipts /\ (request.matched /\ attempt > 0 => core' \in Told)
      BY <1>2, AbandonedIs
    <2> QED BY <1>1, <1>2, <2>1, <2>2, EndKeeps
  <1>3. CASE /\ Client!In("wait") /\ request' = [request EXCEPT !.phase = "reap"]
             /\ task' = Client!Cancelled(task) /\ UNCHANGED <<link, replaced, core>>
    <2>1. "reap" \in Phases /\ request.outcome \in Outcomes /\ request.phase = "wait"
      BY <1>3 DEF Phases, Client!In, ClientInv, ClientTypes, RequestState
    <2>2. Continues(request, request', "reap", request.outcome)
      BY <1>3, <2>1, PhaseMoves DEF ClientInv
    <2>3. /\ request' \in RequestState /\ request'.phase = "reap" /\ request'.matched = request.matched
          /\ request'.retry_of = request.retry_of
      BY <2>1, <2>2, ContinuesFields DEF ClientInv
    <2>4. task' \in TaskState /\ task'.pc # "running"
      BY <1>3, CancelledIs
    <2>5. ClientTypes'
      BY <1>1, <1>3, <2>3, <2>4 DEF ClientInv, ClientTypes
    <2>6. AttemptFits(request, turn, task, control, serial, cancels, closed)'
      BY <1>1, <2>1, <2>3 DEF ClientInv, AttemptFits
    <2>7. ReceiptFits(request, attempt, core, disk)'
      BY <1>1, <1>3, <2>1, <2>3 DEF ClientInv, ReceiptFits
    <2>8. StreamFits(stream, task, wire)'
      BY <1>1, <2>4, StreamRests
    <2>9. LinkFits(request, turn, link, replaced)'
      BY <1>1, <1>3, <2>1, <2>3, LinkRests
    <2> QED BY <2>5, <2>6, <2>7, <2>8, <2>9 DEF ClientInv
  <1> QED BY <1>2, <1>3 DEF Client!CancelDelivered

LEMMA CloseKeeps == ASSUME ClientInv, Client!Close PROVE ClientInv'
  <1>1. /\ closed' = TRUE /\ task' = (IF control.held THEN Client!Cancelled(task) ELSE task)
        /\ UNCHANGED <<wire, turn, request, link, attempt, serial, control, cancels, stream, core, disk, replaced>>
    BY DEF Client!Close, Client!receipt
  <1>2. /\ task' \in TaskState /\ (task' = task \/ task'.pc # "running")
        /\ task.pc \in {"none", "done"} => task' = task
    <2>1. CASE control.held
      BY <1>1, <2>1, CancelledIs
    <2>2. CASE ~control.held
      BY <1>1, <2>2 DEF ClientInv, ClientTypes
    <2> QED BY <2>1, <2>2
  <1>3. ClientTypes'
    BY <1>1, <1>2 DEF ClientInv, ClientTypes
  <1>4. AttemptFits(request, turn, task, control, serial, cancels, closed)'
    BY <1>1, <1>2 DEF ClientInv, AttemptFits
  <1> QED BY Zenon, <1>1, <1>2, <1>3, <1>4, StreamRests DEF ClientInv, ReceiptFits, LinkFits

\* The ways an attempt that ended is settled.
LEMMA SettleIs ==
  ASSUME ClientInv, Client!Settle
  PROVE  /\ request.phase \in {"wait", "reap"} /\ task.pc = "done" /\ control' = Client!Released
         /\ UNCHANGED <<wire, turn, serial, task, cancels, stream, disk, closed>>
         /\ \/ /\ Client!Disposition = "again" /\ request' = [request EXCEPT !.phase = "backoff"]
               /\ attempt' = attempt + 1 /\ UNCHANGED <<link, replaced, core>>
            \/ /\ Client!Disposition = "answer" /\ request.matched /\ request' = [request EXCEPT !.phase = "after"]
               /\ core' = "completed" /\ UNCHANGED <<link, replaced, attempt>>
            \/ /\ Client!Disposition # "again" /\ Client!End(Client!Disposition)
               /\ core' = (IF request.matched THEN "failed" ELSE core) /\ UNCHANGED attempt
  <1>1. CASE Client!Disposition = "again"
    BY <1>1 DEF Client!Settle
  <1>2. CASE Client!Disposition = "answer" /\ request.matched
    BY <1>2 DEF Client!Settle
  <1>3. CASE Client!Disposition # "again" /\ ~(Client!Disposition = "answer" /\ request.matched)
    BY <1>3 DEF Client!Settle
  <1> QED BY <1>1, <1>2, <1>3

\* What an attempt comes to.
LEMMA DispositionIs ==
  ASSUME ClientInv
  PROVE  /\ Client!Disposition \in Outcomes \cup {"again"}
         /\ Client!Disposition = "answer" => ~control.claimed /\ ~turn.cancelling
         /\ Client!Disposition = "retry" => control.claimed /\ ~turn.cancelling
         /\ Client!Disposition = "cancelled" => request.phase = "reap" \/ turn.cancelling \/ (~control.claimed /\ task.out = "cancelled")
  <1>b. turn.cancelling \in BOOLEAN /\ control.claimed \in BOOLEAN
    BY DEF ClientInv, ClientTypes, TurnState, ControlState
  <1>1. CASE request.phase = "reap" \/ turn.cancelling
    <2>1. Client!Disposition = "cancelled"
      BY ONLY <1>b, <1>1 DEF Client!Disposition, Client!In
    <2> QED BY <1>1, <2>1 DEF Outcomes
  <1>2. CASE ~(request.phase = "reap" \/ turn.cancelling) /\ control.claimed
    <2>1. Client!Disposition = "retry"
      BY ONLY <1>b, <1>2 DEF Client!Disposition, Client!In
    <2> QED BY <1>2, <2>1 DEF Outcomes
  <1>3. CASE ~(request.phase = "reap" \/ turn.cancelling) /\ ~control.claimed /\ task.out = "cancelled"
    <2>1. Client!Disposition = "cancelled"
      BY ONLY <1>b, <1>3 DEF Client!Disposition, Client!In
    <2> QED BY <1>3, <2>1 DEF Outcomes
  <1>4. CASE ~(request.phase = "reap" \/ turn.cancelling) /\ ~control.claimed /\ task.out # "cancelled"
    <2>1. Client!Disposition \in {"again", "error", "answer"}
      BY ONLY <1>b, <1>4 DEF Client!Disposition, Client!In
    <2> QED BY <1>4, <2>1 DEF Outcomes
  <1> QED BY <1>1, <1>2, <1>3, <1>4

LEMMA SettleKeeps == ASSUME ClientInv, Client!Settle PROVE ClientInv'
  <1>1. /\ request.phase \in {"wait", "reap"} /\ task.pc = "done" /\ control' = Client!Released
        /\ UNCHANGED <<wire, turn, serial, task, cancels, stream, disk, closed>>
    BY SettleIs
  <1>2. control' \in ControlState /\ ~control'.held
    BY <1>1 DEF Client!Released, ControlState
  <1>3. StreamFits(stream, task, wire)'
    BY <1>1, StreamRests
  <1>4. attempt \in Nat /\ attempt > 0 /\ request.outcome \in Outcomes
    BY <1>1 DEF ClientInv, ClientTypes, ReceiptFits, RequestState
  <1>5. ASSUME NEW p \in {"backoff", "after"}, request' = [request EXCEPT !.phase = p], UNCHANGED <<link, replaced>>,
               attempt' \in Nat, attempt' > 0, core' \in Receipts, request.matched => core' \in Told
        PROVE  ClientInv'
    <2>1. p \in Phases
      BY DEF Phases
    <2>2. Continues(request, request', p, request.outcome)
      BY <1>5, <2>1, PhaseMoves DEF ClientInv
    <2>3. /\ request' \in RequestState /\ request'.phase = p /\ request'.matched = request.matched
          /\ request'.retry_of = request.retry_of
      BY <1>4, <2>1, <2>2, ContinuesFields DEF ClientInv
    <2>4. ClientTypes'
      BY <1>1, <1>2, <1>5, <2>3 DEF ClientInv, ClientTypes
    <2>5. AttemptFits(request, turn, task, control, serial, cancels, closed)'
      BY <1>1, <1>2, <2>3 DEF AttemptFits
    <2>6. ReceiptFits(request, attempt, core, disk)'
      BY <1>1, <1>4, <1>5, <2>3 DEF ClientInv, ReceiptFits
    <2>7. LinkFits(request, turn, link, replaced)'
      BY <1>1, <1>5, <2>3, LinkRests
    <2> QED BY <1>3, <2>4, <2>5, <2>6, <2>7 DEF ClientInv
  <1>6. CASE /\ Client!Disposition = "again" /\ request' = [request EXCEPT !.phase = "backoff"]
             /\ attempt' = attempt + 1 /\ UNCHANGED <<link, replaced, core>>
    <2>1. attempt' \in Nat /\ attempt' > 0
      BY <1>4, <1>6
    <2>2. core' \in Receipts /\ (request.matched => core' \in Told)
      BY <1>4, <1>6 DEF ClientInv, ClientTypes, ReceiptFits
    <2> QED BY <1>5, <1>6, <2>1, <2>2
  <1>7. CASE /\ Client!Disposition = "answer" /\ request.matched /\ request' = [request EXCEPT !.phase = "after"]
             /\ core' = "completed" /\ UNCHANGED <<link, replaced, attempt>>
    <2>1. core' \in Receipts /\ core' \in Told
      BY <1>7 DEF Receipts, Told
    <2> QED BY <1>4, <1>5, <1>7, <2>1
  <1>8. CASE /\ Client!Disposition # "again" /\ Client!End(Client!Disposition)
             /\ core' = (IF request.matched THEN "failed" ELSE core) /\ UNCHANGED attempt
    <2>1. Client!Disposition \in Outcomes
      BY <1>8, DispositionIs
    <2>2. /\ Continues(request, request', "idle", Client!Disposition) /\ link' \in LinkState
          /\ LinkFits(request, turn, link, replaced)'
      BY <1>1, <1>8, <2>1, Ends
    <2>3. request' \in RequestState /\ request'.phase = "idle" /\ request'.matched = request.matched
      BY <2>1, <2>2, ContinuesFields DEF ClientInv, Phases
    <2>4. core' \in Receipts /\ (request.matched => core' \in Told)
      BY <1>8 DEF Receipts, Told, ClientInv, ClientTypes
    <2>5. ClientTypes'
      BY <1>1, <1>2, <1>8, <2>2, <2>3, <2>4 DEF ClientInv, ClientTypes
    <2>6. AttemptFits(request, turn, task, control, serial, cancels, closed)'
      BY <1>1, <1>2, <2>3, EndedFits
    <2>7. ReceiptFits(request, attempt, core, disk)'
      BY <1>1, <1>8, <2>3, <2>4 DEF ClientInv, ReceiptFits
    <2> QED BY <1>3, <2>2, <2>5, <2>6, <2>7 DEF ClientInv
  <1> QED BY <1>6, <1>7, <1>8, SettleIs

-----------------------------------------------------------------------------

LEMMA ClientStart == Client!Init => ClientInv
  <1> SUFFICES ASSUME Client!Init PROVE ClientInv
    OBVIOUS
  <1>1. /\ wire \in Client!Wires /\ turn = [n |-> 1, cancelling |-> FALSE]
        /\ request = [n |-> 0, phase |-> "idle", outcome |-> "none", matched |-> FALSE, retry_of |-> 0]
        /\ link = [turn |-> 0, request |-> 0, last |-> 0] /\ attempt = 0 /\ serial = 0
        /\ task = [pc |-> "none", out |-> "none"] /\ control = [held |-> FALSE, claimed |-> FALSE]
        /\ cancels = {} /\ core = "none" /\ disk = "none" /\ closed = FALSE
        /\ stream = [text |-> FALSE, textDone |-> FALSE, handoff |-> FALSE, promoted |-> FALSE, handed |-> 0, cut |-> FALSE]
    BY DEF Client!Init, Client!NoLink, Client!NoTask, Client!Released, Client!Silent
  <1>2. request \in RequestState /\ request.phase = "idle" /\ ~request.matched /\ request.retry_of = 0
    BY <1>1 DEF RequestState, Phases, Outcomes
  <1>3. turn \in TurnState /\ link \in LinkState /\ link.request = 0
    BY <1>1 DEF TurnState, LinkState
  <1>4. task \in TaskState /\ task.pc = "none" /\ control \in ControlState /\ ~control.held
    BY <1>1 DEF TaskState, ControlState
  <1>5. stream \in StreamState /\ ~stream.textDone /\ ~stream.promoted /\ stream.handed = 0
    BY <1>1 DEF StreamState
  <1>6. ClientTypes
    BY Zenon, <1>1, <1>2, <1>3, <1>4, <1>5 DEF ClientTypes, Receipts
  <1>7. StreamFits(stream, task, wire)
    BY <1>5 DEF StreamFits
  <1> QED BY <1>1, <1>2, <1>3, <1>4, <1>6, <1>7 DEF ClientInv, AttemptFits, ReceiptFits, LinkFits

LEMMA ClientKeeps == ASSUME ClientInv, Client!Next PROVE ClientInv'
  BY BeginKeeps, PluginEndsKeeps, ContinueKeeps, SendKeeps, SaveFailsKeeps, DeliverKeeps, SaveKeeps, TextKeeps,
     TextDoneKeeps, ToolSeenKeeps, AnsweredKeeps, StreamEndsKeeps, FailsKeeps, FinishKeeps, ClaimKeeps,
     CancelArrivesKeeps, CancelTurnKeeps, CancelDeliveredKeeps, CloseKeeps, SettleKeeps, AgainKeeps, NextTurnKeeps
     DEF Client!Next

\* The parts move one at a time.
LEMMA ClientSteps == [Next]_vars => Client!Next \/ UNCHANGED clientVars
  BY DEF Next, vars

LEMMA ClientInvariant == Spec => []ClientInv
  <1>1. Init => ClientInv
    BY ClientStart DEF Init
  <1>2. ClientInv /\ [Next]_vars => ClientInv'
    <2>1. CASE UNCHANGED clientVars
      BY <2>1 DEF clientVars, ClientInv, ClientTypes, AttemptFits, ReceiptFits, LinkFits, StreamFits
    <2> QED BY <2>1, ClientSteps, ClientKeeps
  <1> QED BY <1>1, <1>2, PTL DEF Spec

\* No attempt outlives the request that sent it, a crash at any moment finds no receipt that denies a request the
\* provider may have got, and a request replaces another only where the user had that one sent again
\* (client.py:353, 461-466, interception.py:178).
THEOREM RequestsStayClean == Spec => []RequestsEndClean
  <1>1. ClientInv => RequestsEndClean
    BY DEF ClientInv, AttemptFits, ReceiptFits, LinkFits, Told, RequestsEndClean, Client!NothingOutlivesItsRequest,
       Client!ReceiptsCoverSending, Client!RetriesAreLinked
  <1> QED BY <1>1, ClientInvariant, PTL

-----------------------------------------------------------------------------
(* What a step of the client may do.                                       *)

\* What is said of the end of a request, of one step.
EndsOneWay ==
    /\ request.phase = "wait" /\ request'.phase \in {"after", "idle"}
         /\ (request'.phase = "after" \/ request'.outcome = "answer") => ~control.claimed /\ ~turn.cancelling
    /\ request'.phase = "idle" /\ request'.outcome = "retry" /\ request.phase # "idle"
         => control.claimed /\ ~turn.cancelling
    /\ request'.phase = "idle" /\ request'.outcome = "cancelled" /\ request.phase # "idle" => turn.cancelling \/ closed
\* What is said of the text of an answer, of one step.
HandsOff ==
    task.pc = "running" /\ task'.pc = "closing" /\ task'.out = "answer" /\ wire # "unstreamed" /\ ~stream'.cut
      => stream'.handed = (IF stream.text /\ stream.handoff THEN 1 ELSE 0)

\* A request ends with one outcome of those its step may give it.
LEMMA EndsWith ==
  ASSUME ClientInv, NEW o \in Outcomes, Client!End(o), UNCHANGED turn
  PROVE  request'.phase = "idle" /\ request'.outcome = o
  <1>1. Continues(request, request', "idle", o)
    BY Ends
  <1> QED BY <1>1, ContinuesFields DEF ClientInv, Phases

\* The step that settles an attempt.
LEMMA SettleEnds == ASSUME ClientInv, Client!Settle PROVE EndsOneWay
  <1>1. request.phase \in {"wait", "reap"} /\ task.pc = "done" /\ UNCHANGED turn
    BY SettleIs
  <1>2. /\ request.phase = "reap" => turn.cancelling
        /\ request.phase = "wait" /\ task.out = "cancelled" => control.claimed \/ turn.cancelling \/ closed
    BY DEF ClientInv, AttemptFits
  <1>3. request.outcome \in Outcomes
    BY DEF ClientInv, ClientTypes, RequestState
  <1>4. CASE Client!Disposition = "again" /\ request' = [request EXCEPT !.phase = "backoff"]
    <2>1. "backoff" \in Phases
      BY DEF Phases
    <2>2. Continues(request, request', "backoff", request.outcome)
      BY <1>4, <2>1, PhaseMoves DEF ClientInv
    <2>3. request'.phase = "backoff"
      BY <2>2 DEF Continues
    <2> QED BY <2>3 DEF EndsOneWay
  <1>5. CASE Client!Disposition = "answer" /\ request' = [request EXCEPT !.phase = "after"]
    <2>1. "after" \in Phases
      BY DEF Phases
    <2>2. Continues(request, request', "after", request.outcome)
      BY <1>5, <2>1, PhaseMoves DEF ClientInv
    <2>3. request'.phase = "after"
      BY <2>2 DEF Continues
    <2>4. ~control.claimed /\ ~turn.cancelling
      BY <1>5, DispositionIs
    <2> QED BY <2>3, <2>4 DEF EndsOneWay
  <1>6. CASE Client!Disposition # "again" /\ Client!End(Client!Disposition)
    <2>1. Client!Disposition \in Outcomes
      BY <1>6, DispositionIs
    <2>2. request'.phase = "idle" /\ request'.outcome = Client!Disposition
      BY <1>1, <1>6, <2>1, EndsWith
    <2>3. Client!Disposition = "cancelled" => turn.cancelling \/ closed
      BY <1>1, <1>2, DispositionIs
    <2> QED BY <2>2, <2>3, DispositionIs DEF EndsOneWay
  <1> QED BY <1>4, <1>5, <1>6, SettleIs

\* The other steps that end a request.
LEMMA OthersEnd ==
  ASSUME ClientInv, Client!PluginEnds \/ Client!SaveFails \/ Client!Deliver \/ Client!CancelDelivered
  PROVE  EndsOneWay
  <1>1. CASE Client!PluginEnds
    <2>1. /\ request.phase = "intercept" /\ UNCHANGED turn
          /\ \E o \in {"error", "refused", "replaced"} : Client!End(o)
      BY <1>1 DEF Client!PluginEnds, Client!In
    <2>2. request'.phase = "idle" /\ request'.outcome \in {"error", "refused", "replaced"}
      BY <2>1, EndsWith DEF Outcomes
    <2> QED BY <2>1, <2>2 DEF EndsOneWay
  <1>2. CASE Client!SaveFails
    <2>1. request.phase = "saving" /\ UNCHANGED turn /\ \E o \in {"error"} : Client!End(o)
      BY <1>2 DEF Client!SaveFails, Client!In
    <2>2. request'.phase = "idle" /\ request'.outcome \in {"error"}
      BY <2>1, EndsWith DEF Outcomes
    <2> QED BY <2>1, <2>2 DEF EndsOneWay
  <1>3. CASE Client!Deliver
    <2>1. /\ request.phase = "after" /\ UNCHANGED turn
          /\ \E o \in {"answer", "replaced", "refused", "error"} : Client!End(o)
      BY <1>3 DEF Client!Deliver, Client!In
    <2>2. request'.phase = "idle" /\ request'.outcome \in {"answer", "replaced", "refused", "error"}
      BY <2>1, EndsWith DEF Outcomes
    <2> QED BY <2>1, <2>2 DEF EndsOneWay
  <1>4. CASE Client!CancelDelivered
    <2>1. turn.cancelling /\ UNCHANGED turn
      BY <1>4 DEF Client!CancelDelivered
    <2>2. CASE request.phase \in {"intercept", "saving", "backoff", "after"} /\ Client!End("cancelled")
      <3>1. \E o \in {"cancelled"} : Client!End(o)
        BY <2>2
      <3>2. request'.phase = "idle" /\ request'.outcome \in {"cancelled"}
        BY <2>1, <3>1, EndsWith DEF Outcomes
      <3> QED BY <2>1, <2>2, <3>2 DEF EndsOneWay
    <2>3. CASE request' = [request EXCEPT !.phase = "reap"]
      <3>1. "reap" \in Phases
        BY DEF Phases
      <3>2. Continues(request, request', "reap", request.outcome)
        BY <2>3, <3>1, PhaseMoves DEF ClientInv
      <3>3. request'.phase = "reap"
        BY <3>2 DEF Continues
      <3> QED BY <3>3 DEF EndsOneWay
    <2> QED BY <1>4, <2>2, <2>3 DEF Client!CancelDelivered
  <1> QED BY <1>1, <1>2, <1>3, <1>4

\* The steps that go on with a request, or begin one.
LEMMA NobodyEnds ==
  ASSUME ClientInv,
         \/ Client!Begin \/ Client!Continue \/ Client!Send \/ Client!Again
         \/ UNCHANGED request
  PROVE  EndsOneWay
  <1>1. ASSUME NEW p \in Phases \ {"after", "idle"}, request' = [request EXCEPT !.phase = p] PROVE EndsOneWay
    <2>1. Continues(request, request', p, request.outcome)
      BY <1>1, PhaseMoves DEF ClientInv
    <2>2. request'.phase = p
      BY <2>1 DEF Continues
    <2> QED BY <2>2 DEF EndsOneWay
  <1>2. CASE Client!Begin
    <2>1. request.phase = "idle"
      BY <1>2 DEF Client!Begin, Client!In
    <2> QED BY <2>1 DEF EndsOneWay
  <1>3. CASE Client!Continue
    BY <1>1, <1>3 DEF Client!Continue, Phases
  <1>4. CASE Client!Send
    BY <1>1, <1>4 DEF Client!Send, Phases
  <1>5. CASE Client!Again
    BY <1>1, <1>5 DEF Client!Again, Phases
  <1>6. CASE UNCHANGED request
    BY <1>6 DEF EndsOneWay
  <1> QED BY <1>2, <1>3, <1>4, <1>5, <1>6

\* Each step of the client ends a request one way.
LEMMA StepEnds == ASSUME ClientInv, Client!Next PROVE EndsOneWay
  <1>1. CASE Client!Settle
    BY <1>1, SettleEnds
  <1>2. CASE Client!PluginEnds \/ Client!SaveFails \/ Client!Deliver \/ Client!CancelDelivered
    BY <1>2, OthersEnd
  <1>3. CASE Client!Begin \/ Client!Continue \/ Client!Send \/ Client!Again
    BY <1>3, NobodyEnds
  <1>4. CASE \/ Client!Save \/ Client!Text \/ Client!TextDone \/ Client!ToolSeen \/ Client!Answered
             \/ Client!StreamEnds \/ Client!Fails \/ Client!Finish \/ Client!Claim \/ Client!CancelArrives
             \/ Client!CancelTurn \/ Client!Close \/ Client!NextTurn
    <2>1. UNCHANGED request
      BY <1>4 DEF Client!Save, Client!Text, Client!TextDone, Client!ToolSeen, Client!Attempt, Client!Answered,
                  Client!StreamEnds, Client!Fails, Client!Leave, Client!Finish, Client!Claim, Client!CancelArrives,
                  Client!CancelTurn, Client!Close, Client!NextTurn
    <2> QED BY <2>1, NobodyEnds
  <1> QED BY <1>1, <1>2, <1>3, <1>4 DEF Client!Next

\* A cancellation leaves no answer behind.
LEMMA CancelIsNoAnswer ==
  ASSUME ClientInv, task.pc = "running", task' = task \/ task' = Client!Cancelled(task)
  PROVE  HandsOff
  <1>1. CASE task' = task
    BY <1>1 DEF HandsOff
  <1>2. CASE task' = Client!Cancelled(task)
    <2>1. task' = [pc |-> "closing", out |-> "cancelled"]
      BY <1>2 DEF Client!Cancelled
    <2>2. task'.out = "cancelled"
      BY <2>1
    <2> QED BY <2>2 DEF HandsOff
  <1> QED BY <1>1, <1>2

\* Each step of the client hands the text of an answer off as it should.
LEMMA StepHandsOff == ASSUME ClientInv, Client!Next PROVE HandsOff
  <1> SUFFICES ASSUME task.pc = "running" PROVE HandsOff
    BY DEF HandsOff
  <1>1. request.phase \in {"wait", "reap"}
    BY InFlight
  <1>2. CASE Client!Answered
    BY <1>2, AnsweredIs DEF HandsOff
  <1>3. CASE Client!StreamEnds
    <2>1. stream' = [stream EXCEPT !.cut = TRUE]
      BY <1>3 DEF Client!StreamEnds, Client!Leave
    <2>2. stream'.cut
      BY <2>1, StreamIs DEF StreamState
    <2> QED BY <2>2 DEF HandsOff
  <1>4. CASE Client!Fails
    <2>1. \E out \in {"transient", "permanent"} : task' = [pc |-> "closing", out |-> out]
      BY <1>4 DEF Client!Fails, Client!Leave
    <2>2. task'.out # "answer"
      BY <2>1
    <2> QED BY <2>2 DEF HandsOff
  <1>5. CASE Client!CancelArrives \/ Client!Close \/ Client!CancelDelivered
    <2>1. task' = task \/ task' = Client!Cancelled(task)
      BY <1>5 DEF Client!CancelArrives, Client!Close, Client!CancelDelivered
    <2> QED BY <2>1, CancelIsNoAnswer
  <1>6. CASE \/ Client!PluginEnds \/ Client!Continue \/ Client!SaveFails \/ Client!Deliver \/ Client!Save
             \/ Client!Text \/ Client!TextDone \/ Client!ToolSeen \/ Client!Claim \/ Client!CancelTurn
             \/ Client!NextTurn
    <2>1. task' = task
      BY <1>6 DEF Client!PluginEnds, Client!Continue, Client!SaveFails, Client!Deliver, Client!Save, Client!Text,
                  Client!TextDone, Client!ToolSeen, Client!Attempt, Client!Claim, Client!CancelTurn, Client!NextTurn
    <2> QED BY <2>1, CancelIsNoAnswer
  <1>7. ~(Client!Begin \/ Client!Send \/ Client!Again \/ Client!Settle \/ Client!Finish)
    BY <1>1 DEF Client!Begin, Client!Send, Client!Again, Client!Settle, Client!Finish, Client!In
  <1> QED BY <1>2, <1>3, <1>4, <1>5, <1>6, <1>7 DEF Client!Next

\* A request ends one way whatever raced, and the text of a streamed answer is handed to the transcript exactly once
\* (client.py:474-487, responses.py:196, anthropic.py:286, chat.py:258).
THEOREM OneWayToEnd == Spec => OneDisposition
  <1>1. ClientInv /\ [Next]_vars => [EndsOneWay /\ HandsOff]_clientVars
    BY ClientSteps, StepEnds, StepHandsOff
  <1>2. UNCHANGED clientVars <=> UNCHANGED Client!vars
    BY DEF clientVars, Client!vars, Client!receipt
  <1>3. [EndsOneWay /\ HandsOff]_clientVars
          => [/\ request.phase = "wait" /\ request'.phase \in {"after", "idle"}
                   /\ (request'.phase = "after" \/ request'.outcome = "answer") => ~control.claimed /\ ~turn.cancelling
              /\ request'.phase = "idle" /\ request'.outcome = "retry" /\ request.phase # "idle"
                   => control.claimed /\ ~turn.cancelling
              /\ request'.phase = "idle" /\ request'.outcome = "cancelled" /\ request.phase # "idle"
                   => turn.cancelling \/ closed]_Client!vars
    BY <1>2 DEF EndsOneWay
  <1>4. [EndsOneWay /\ HandsOff]_clientVars
          => [Client!Running /\ task'.pc = "closing" /\ task'.out = "answer" /\ wire # "unstreamed" /\ ~stream'.cut
                => stream'.handed = (IF stream.text /\ stream.handoff THEN 1 ELSE 0)]_Client!vars
    BY <1>2 DEF HandsOff, Client!Running
  <1> QED BY <1>1, <1>3, <1>4, ClientInvariant, PTL
             DEF Spec, OneDisposition, Client!DispositionsAreKeptApart, Client!TextIsHandedOffOnce

(***************************************************************************)
(* The plugin channel: requests to a worker and what they do on the host.  *)
(***************************************************************************)

\* What the channel's records may be.
ReqState == [op : Operations \cup {"none"}, by : Requests \cup {0},
             step : {"none", "sent", "grace", "close", "unwind", "joining", "returned"},
             future : {"none", "pending", "answered", "failed"}]
ServiceState == [parent : Requests \cup {0}, step : {"none", "asked", "running", "cancelled", "over"}]
NextStates == {"none", "ready", "running", "cancelled", "over"}

\* A frame that asks for a service names the request the service is for.
FramesFit == \A r \in Requests, c \in Services : Channel!Frame("service", r, c) \in frames => service[c].parent = r

\* A call under way is one of some request.
CallsFit == \A c \in Services : service[c].step \in {"running", "cancelled"} => service[c].parent \in Requests

\* The inductive invariant of the channel: what is said of work below a request, and a teardown that killed the
\* process before it waits for the reader, whose end fails all who wait and all who come.
ChannelInv ==
    /\ req \in [Requests -> ReqState] /\ service \in [Services -> ServiceState] /\ next \in [Requests -> NextStates]
    /\ FramesFit /\ CallsFit
    /\ Channel!HostWorkBelongsToACall
    /\ stage = "drain" => ~process
    /\ ~reader => error /\ \A r \in Requests : ~Channel!Pending(r)
    /\ channelClosed => ~process /\ ~reader

\* A request that waits has not returned.
LEMMA PendingIs ==
  ASSUME NEW r \in Requests, Channel!Pending(r)
  PROVE  req[r].step # "returned"
  BY DEF Channel!Pending

-----------------------------------------------------------------------------
(* What a step of the channel does.                                        *)

\* A function of requests, or of host calls, after a step that sets what it holds for one.
LEMMA ReqStep ==
  ASSUME ChannelInv, NEW r \in Requests, NEW s, req' = [req EXCEPT ![r].step = s], s \in {"close", "unwind", "joining", "grace"}
  PROVE  /\ req' \in [Requests -> ReqState]
         /\ req'[r].step = s /\ req'[r].future = req[r].future
         /\ \A q \in Requests \ {r} : req'[q] = req[q]
  <1>1. req \in [Requests -> ReqState] /\ req[r] \in ReqState
    BY DEF ChannelInv
  <1>2. req' = [req EXCEPT ![r] = [req[r] EXCEPT !.step = s]]
    BY <1>1
  <1>3. [req[r] EXCEPT !.step = s] \in [op : {req[r].op}, by : {req[r].by}, step : {s}, future : {req[r].future}]
    BY <1>1 DEF ReqState
  <1>4. /\ [req[r] EXCEPT !.step = s].step = s /\ [req[r] EXCEPT !.step = s].future = req[r].future
        /\ [req[r] EXCEPT !.step = s] \in ReqState
    BY <1>1, <1>3 DEF ReqState
  <1> QED BY <1>1, <1>2, <1>4

\* The calls of those are cancelled, and nothing else of any call changes.
CallsCancel ==
    /\ service' \in [Services -> ServiceState]
    /\ \A c \in Services : service'[c].parent = service[c].parent
    /\ \A c \in Services : service'[c].step \in {"running", "cancelled"} => service[c].step \in {"running", "cancelled"}
\* So are continuations.
NextsCancel ==
    /\ next' \in [Requests -> NextStates]
    /\ \A r \in Requests : next'[r] \in {"running", "cancelled"} => next[r] \in {"running", "cancelled"}

LEMMA CancelCalls ==
  ASSUME ChannelInv, NEW S, Channel!CancelServices(S)
  PROVE  CallsCancel
  <1>1. \A c \in Services : service[c] \in ServiceState
    BY DEF ChannelInv
  <1>2. ASSUME NEW c \in Services
        PROVE  /\ service'[c] \in ServiceState /\ service'[c].parent = service[c].parent
               /\ service'[c].step \in {"running", "cancelled"} => service[c].step \in {"running", "cancelled"}
    <2>1. CASE c \in S /\ service[c].step = "running"
      <3>1. service'[c] = [service[c] EXCEPT !.step = "cancelled"]
        BY <2>1 DEF Channel!CancelServices
      <3>2. service'[c] \in [parent : {service[c].parent}, step : {"cancelled"}]
        BY <1>1, <3>1 DEF ServiceState
      <3> QED BY <1>1, <2>1, <3>2 DEF ServiceState
    <2>2. CASE ~(c \in S /\ service[c].step = "running")
      <3>1. service'[c] = service[c]
        BY <2>2 DEF Channel!CancelServices
      <3> QED BY <1>1, <3>1
    <2> QED BY <2>1, <2>2
  <1>3. service' = [c \in Services |-> service'[c]]
    BY DEF Channel!CancelServices
  <1> QED BY <1>2, <1>3 DEF CallsCancel

LEMMA CancelNexts ==
  ASSUME ChannelInv, NEW S, Channel!CancelNext(S)
  PROVE  NextsCancel
  BY DEF ChannelInv, Channel!CancelNext, NextsCancel, NextStates

\* What a step keeps that begins no work and ends no request.
LEMMA QuietKeeps ==
  ASSUME ChannelInv, req' \in [Requests -> ReqState],
         \A r \in Requests : req'[r].step = "returned" => req[r].step = "returned",
         CallsCancel \/ UNCHANGED service, NextsCancel \/ UNCHANGED next, frames' \subseteq frames
  PROVE  /\ service' \in [Services -> ServiceState] /\ next' \in [Requests -> NextStates]
         /\ FramesFit' /\ CallsFit' /\ Channel!HostWorkBelongsToACall'
  <1>1. CallsCancel
    BY DEF CallsCancel, ChannelInv
  <1>2. NextsCancel
    BY DEF NextsCancel, ChannelInv
  <1>3. FramesFit'
    BY <1>1 DEF FramesFit, CallsCancel, ChannelInv, Channel!Frame
  <1>4. CallsFit'
    BY <1>1 DEF CallsFit, CallsCancel, ChannelInv
  <1>5. Channel!HostWorkBelongsToACall'
    <2>1. ASSUME NEW c \in Services, service'[c].step \in {"running", "cancelled"}
          PROVE  req'[service'[c].parent].step # "returned"
      <3>1. /\ service[c].step \in {"running", "cancelled"} /\ service'[c].parent = service[c].parent
            /\ service[c].parent \in Requests
        BY <1>1, <2>1 DEF CallsCancel, ChannelInv, CallsFit
      <3>2. req[service[c].parent].step # "returned"
        BY <3>1 DEF ChannelInv, Channel!HostWorkBelongsToACall, Channel!Called
      <3> QED BY <3>1, <3>2
    <2>2. ASSUME NEW r \in Requests, next'[r] \in {"running", "cancelled"}
          PROVE  req'[r].step # "returned"
      <3>1. next[r] \in {"running", "cancelled"}
        BY <1>2, <2>2 DEF NextsCancel
      <3>2. req[r].step # "returned"
        BY <3>1 DEF ChannelInv, Channel!HostWorkBelongsToACall, Channel!Active
      <3> QED BY <3>2
    <2> QED BY <2>1, <2>2 DEF Channel!HostWorkBelongsToACall, Channel!Called, Channel!Active
  <1> QED BY <1>1, <1>2, <1>3, <1>4, <1>5 DEF CallsCancel, NextsCancel

\* What keeps the rest: nobody new waits once the reader is gone, and the process once killed stays so.
LEMMA TeardownKeeps ==
  ASSUME ChannelInv, error => error', process' => process, reader' => reader,
         stage' = "drain" => stage = "drain" \/ ~process',
         ~reader' => error' /\ \A r \in Requests : Channel!Pending(r)' => Channel!Pending(r) /\ ~reader,
         channelClosed' => channelClosed \/ (stage = "drain" /\ ~reader)
  PROVE  /\ stage' = "drain" => ~process'
         /\ ~reader' => error' /\ \A r \in Requests : ~Channel!Pending(r)'
         /\ channelClosed' => ~process' /\ ~reader'
  BY DEF ChannelInv

\* The two together.
LEMMA QuietStep ==
  ASSUME ChannelInv, req' \in [Requests -> ReqState],
         \A r \in Requests : req'[r].step = "returned" => req[r].step = "returned",
         \A r \in Requests : Channel!Pending(r)' => Channel!Pending(r),
         CallsCancel \/ UNCHANGED service, NextsCancel \/ UNCHANGED next, frames' \subseteq frames,
         error => error', process' => process, reader' = reader,
         stage' = "drain" => stage = "drain" \/ ~process',
         channelClosed' => channelClosed \/ (stage = "drain" /\ ~reader)
  PROVE  ChannelInv'
  <1>1. /\ service' \in [Services -> ServiceState] /\ next' \in [Requests -> NextStates]
        /\ FramesFit' /\ CallsFit' /\ Channel!HostWorkBelongsToACall'
    BY QuietKeeps
  <1>2. ~reader' => error' /\ \A r \in Requests : Channel!Pending(r)' => Channel!Pending(r) /\ ~reader
    BY DEF ChannelInv
  <1>3. /\ stage' = "drain" => ~process'
        /\ ~reader' => error' /\ \A r \in Requests : ~Channel!Pending(r)'
        /\ channelClosed' => ~process' /\ ~reader'
    BY <1>2, TeardownKeeps
  <1> QED BY <1>1, <1>3 DEF ChannelInv

\* A request that moves to another of its steps waits for no more than before.
LEMMA GoesKeeps ==
  ASSUME ChannelInv, NEW r \in Requests, NEW s \in {"close", "unwind", "joining", "grace"},
         req' = [req EXCEPT ![r].step = s], s \in {"close", "grace"} => req[r].step \in {"sent", "grace", "close"}
  PROVE  /\ req' \in [Requests -> ReqState]
         /\ \A q \in Requests : req'[q].step = "returned" => req[q].step = "returned"
         /\ \A q \in Requests : Channel!Pending(q)' => Channel!Pending(q)
  <1>1. /\ req' \in [Requests -> ReqState]
        /\ req'[r].step = s /\ req'[r].future = req[r].future
        /\ \A q \in Requests \ {r} : req'[q] = req[q]
    BY Zenon, ReqStep
  <1>2. \A q \in Requests : req'[q].step = "returned" => req[q].step = "returned"
    BY <1>1
  <1>3. Channel!Pending(r)' => Channel!Pending(r)
    BY <1>1 DEF Channel!Pending
  <1>4. \A q \in Requests \ {r} : Channel!Pending(q)' => Channel!Pending(q)
    BY <1>1 DEF Channel!Pending
  <1> QED BY <1>1, <1>2, <1>3, <1>4

\* Requests that stay as they are.
LEMMA ReqRests ==
  ASSUME ChannelInv, UNCHANGED req
  PROVE  /\ req' \in [Requests -> ReqState]
         /\ \A q \in Requests : req'[q].step = "returned" => req[q].step = "returned"
         /\ \A q \in Requests : Channel!Pending(q)' => Channel!Pending(q)
  BY DEF ChannelInv, Channel!Pending

-----------------------------------------------------------------------------
(* The actions.                                                            *)

LEMMA RequestKeeps ==
  ASSUME ChannelInv, NEW r \in Requests, NEW op \in Operations, NEW by \in Requests \cup {0}, Channel!Request(r, op, by)
  PROVE  ChannelInv'
  <1>1. /\ req[r] = Channel!NoRequest
        /\ UNCHANGED <<frames, service, error, process, reader, stage, channelClosed>>
    BY DEF Channel!Request, Channel!teardown
  <1>2. PICK s \in {"sent", "unwind"}, f \in {"pending", "failed"} :
           /\ req' = [req EXCEPT ![r] = [op |-> op, by |-> by, step |-> s, future |-> f]]
           /\ f = "pending" => ~error
    BY DEF Channel!Request
  <1>3. /\ req' \in [Requests -> ReqState] /\ req'[r].step = s /\ req'[r].future = f
        /\ \A q \in Requests \ {r} : req'[q] = req[q]
    <2>1. [op |-> op, by |-> by, step |-> s, future |-> f] \in ReqState
      BY DEF ReqState
    <2> QED BY <1>2, <2>1 DEF ChannelInv
  <1>4. next' \in [Requests -> NextStates] /\ \A q \in Requests : next'[q] # next[q] => next'[q] = "ready"
    <2>1. next' = next \/ next' = [next EXCEPT ![r] = "ready"]
      BY DEF Channel!Request
    <2> QED BY <2>1 DEF ChannelInv, NextStates
  <1>5. NextsCancel
    BY <1>4 DEF NextsCancel
  <1>6. \A q \in Requests : req'[q].step = "returned" => req[q].step = "returned"
    BY <1>3
  <1>7. /\ service' \in [Services -> ServiceState] /\ next' \in [Requests -> NextStates]
        /\ FramesFit' /\ CallsFit' /\ Channel!HostWorkBelongsToACall'
    BY <1>1, <1>3, <1>5, <1>6, QuietKeeps
  <1>8. ASSUME NEW q \in Requests, Channel!Pending(q)' PROVE Channel!Pending(q) \/ reader
    <2>1. CASE q = r
      BY <1>1, <1>2, <1>3, <1>8, <2>1 DEF ChannelInv, Channel!Pending
    <2>2. CASE q # r
      BY <1>3, <1>8, <2>2 DEF Channel!Pending
    <2> QED BY <2>1, <2>2
  <1>9. /\ stage' = "drain" => ~process'
        /\ ~reader' => error' /\ \A q \in Requests : ~Channel!Pending(q)'
        /\ channelClosed' => ~process' /\ ~reader'
    BY <1>1, <1>8 DEF ChannelInv
  <1> QED BY <1>3, <1>7, <1>9 DEF ChannelInv

\* The steps that only move a request along.
LEMMA MovesKeep ==
  ASSUME ChannelInv, NEW r \in Requests,
         Channel!Answered(r) \/ Channel!TimesOut(r) \/ Channel!Cancelled(r) \/ Channel!GraceOver(r) \/ Channel!BelowCancelled(r)
  PROVE  ChannelInv'
  <1>1. /\ UNCHANGED <<frames, service, next, process, reader, stage, channelClosed>> /\ (error => error')
        /\ \E s \in {"close", "unwind", "joining", "grace"} :
             /\ req' = [req EXCEPT ![r].step = s]
             /\ s \in {"close", "grace"} => req[r].step \in {"sent", "grace", "close"}
    <2>1. CASE Channel!Answered(r)
      BY <2>1 DEF Channel!Answered, Channel!Goes, Channel!teardown
    <2>2. CASE Channel!TimesOut(r)
      BY <2>2 DEF Channel!TimesOut, Channel!Goes, Channel!teardown
    <2>3. CASE Channel!Cancelled(r)
      BY <2>3 DEF Channel!Cancelled, Channel!Goes, Channel!teardown
    <2>4. CASE Channel!GraceOver(r)
      BY Zenon, <2>4 DEF Channel!GraceOver, Channel!Goes, Channel!teardown
    <2>5. CASE Channel!BelowCancelled(r)
      BY <2>3, <2>5 DEF Channel!BelowCancelled, Channel!Goes, Channel!teardown
    <2> QED BY <2>1, <2>2, <2>3, <2>4, <2>5
  <1>2. /\ req' \in [Requests -> ReqState]
        /\ \A q \in Requests : req'[q].step = "returned" => req[q].step = "returned"
        /\ \A q \in Requests : Channel!Pending(q)' => Channel!Pending(q)
    BY Zenon, <1>1, GoesKeeps
  <1> QED BY <1>1, <1>2, QuietStep

LEMMA UnwindKeeps == ASSUME ChannelInv, NEW r \in Requests, Channel!Unwind(r) PROVE ChannelInv'
  <1>1. /\ \E s \in {"joining"} : req' = [req EXCEPT ![r].step = s]
        /\ Channel!CancelServices(Channel!Settles(r)) /\ Channel!CancelNext({r})
        /\ UNCHANGED <<frames, error, process, reader, stage, channelClosed>>
    BY DEF Channel!Unwind, Channel!Goes, Channel!teardown
  <1>2. CallsCancel /\ NextsCancel
    BY <1>1, CancelCalls, CancelNexts
  <1>3. /\ req' \in [Requests -> ReqState]
        /\ \A q \in Requests : req'[q].step = "returned" => req[q].step = "returned"
        /\ \A q \in Requests : Channel!Pending(q)' => Channel!Pending(q)
    BY Zenon, <1>1, GoesKeeps
  <1> QED BY <1>1, <1>2, <1>3, QuietStep

\* A request returns when all that was done for it is over.
LEMMA ReturnedKeeps == ASSUME ChannelInv, NEW r \in Requests, Channel!Returned(r) PROVE ChannelInv'
  <1>1. /\ Channel!CallsOf(r) = {} /\ ~Channel!Active(r)
        /\ req' = [req EXCEPT ![r] = [req[r] EXCEPT !.by = 0, !.step = "returned", !.future = "none"]]
        /\ UNCHANGED <<frames, service, next, error, process, reader, stage, channelClosed>>
    BY DEF Channel!Returned, Channel!Settles, Channel!teardown
  <1>2. [req[r] EXCEPT !.by = 0, !.step = "returned", !.future = "none"]
           \in [op : {req[r].op}, by : {0}, step : {"returned"}, future : {"none"}]
    BY Zenon DEF ChannelInv, ReqState
  <1>3. [req[r] EXCEPT !.by = 0, !.step = "returned", !.future = "none"] \in ReqState
    BY <1>2 DEF ChannelInv, ReqState
  <1>4. /\ req' \in [Requests -> ReqState] /\ req'[r].future = "none"
        /\ \A q \in Requests \ {r} : req'[q] = req[q]
    BY <1>1, <1>2, <1>3 DEF ChannelInv
  <1>5. Channel!HostWorkBelongsToACall'
    <2>1. ASSUME NEW c \in Services, service[c].step \in {"running", "cancelled"}
          PROVE  req'[service[c].parent].step # "returned"
      <3>1. service[c].parent \in Requests \ {r}
        BY <1>1, <2>1 DEF ChannelInv, CallsFit, Channel!CallsOf, Channel!Called
      <3>2. req[service[c].parent].step # "returned"
        BY <2>1 DEF ChannelInv, Channel!HostWorkBelongsToACall, Channel!Called
      <3> QED BY <1>4, <3>1, <3>2
    <2>2. ASSUME NEW q \in Requests, Channel!Active(q) PROVE req'[q].step # "returned"
      BY <1>1, <1>4, <2>2 DEF ChannelInv, Channel!HostWorkBelongsToACall
    <2> QED BY <1>1, <2>1, <2>2 DEF Channel!HostWorkBelongsToACall, Channel!Called, Channel!Active
  <1>6. \A q \in Requests : Channel!Pending(q)' => Channel!Pending(q)
    BY <1>4 DEF Channel!Pending
  <1> QED BY <1>1, <1>4, <1>5, <1>6 DEF ChannelInv, FramesFit, CallsFit

\* One call goes to another of its steps, to run only for a request that waits.
LEMMA CallMoves ==
  ASSUME ChannelInv, NEW c \in Services, NEW s \in {"running", "over"}, service' = [service EXCEPT ![c].step = s]
  PROVE  /\ service' \in [Services -> ServiceState]
         /\ service'[c].step = s /\ service'[c].parent = service[c].parent
         /\ \A d \in Services \ {c} : service'[d] = service[d]
  <1>1. service \in [Services -> ServiceState] /\ service[c] \in ServiceState
    BY DEF ChannelInv
  <1>2. service' = [service EXCEPT ![c] = [service[c] EXCEPT !.step = s]]
    BY <1>1
  <1>3. [service[c] EXCEPT !.step = s] \in [parent : {service[c].parent}, step : {s}]
    BY <1>1 DEF ServiceState
  <1>4. /\ [service[c] EXCEPT !.step = s].step = s /\ [service[c] EXCEPT !.step = s].parent = service[c].parent
        /\ [service[c] EXCEPT !.step = s] \in ServiceState
    BY <1>1, <1>3 DEF ServiceState
  <1> QED BY <1>1, <1>2, <1>4

LEMMA ServiceEndsKeeps == ASSUME ChannelInv, NEW c \in Services, Channel!ServiceEnds(c) PROVE ChannelInv'
  <1>1. /\ \E s \in {"over"} : service' = [service EXCEPT ![c].step = s]
        /\ UNCHANGED <<req, frames, next, error, process, reader, stage, channelClosed>>
    BY DEF Channel!ServiceEnds, Channel!teardown
  <1>2. /\ service' \in [Services -> ServiceState]
        /\ service'[c].step \in {"over"} /\ service'[c].parent = service[c].parent
        /\ \A d \in Services \ {c} : service'[d] = service[d]
    BY Zenon, <1>1, CallMoves
  <1>3. CallsCancel
    BY <1>2 DEF CallsCancel
  <1> QED BY <1>1, <1>3, ReqRests, QuietStep

LEMMA NextEndsKeeps == ASSUME ChannelInv, NEW r \in Requests, Channel!NextEnds(r) PROVE ChannelInv'
  <1>1. /\ next' = [next EXCEPT ![r] = "over"]
        /\ UNCHANGED <<req, frames, service, error, process, reader, stage, channelClosed>>
    BY DEF Channel!NextEnds, Channel!teardown
  <1>2. NextsCancel
    BY <1>1 DEF NextsCancel, NextStates, ChannelInv
  <1> QED BY <1>1, <1>2, ReqRests, QuietStep

\* What the worker writes that asks for no call.
LEMMA WritesKeep ==
  ASSUME ChannelInv, NEW r \in Requests, NEW k \in {"reply", "continue"}, frames' = frames \cup {Channel!Frame(k, r, 0)},
         UNCHANGED <<req, service, next, error, process, reader, stage, channelClosed>>
  PROVE  ChannelInv'
  <1>1. FramesFit'
    <2>1. ASSUME NEW q \in Requests, NEW c \in Services PROVE Channel!Frame("service", q, c) # Channel!Frame(k, r, 0)
      BY DEF Channel!Frame
    <2> QED BY <2>1 DEF ChannelInv, FramesFit
  <1> QED BY <1>1 DEF ChannelInv, CallsFit, Channel!HostWorkBelongsToACall, Channel!Called, Channel!Active, Channel!Pending

LEMMA RespondKeeps == ASSUME ChannelInv, NEW r \in Requests, Channel!Respond(r) \/ Channel!CallNext(r) PROVE ChannelInv'
  <1>1. /\ \E k \in {"reply", "continue"} : frames' = frames \cup {Channel!Frame(k, r, 0)}
        /\ UNCHANGED <<req, service, next, error, process, reader, stage, channelClosed>>
    BY DEF Channel!Respond, Channel!CallNext, Channel!teardown
  <1> QED BY <1>1, WritesKeep

LEMMA CallHostKeeps == ASSUME ChannelInv, NEW r \in Requests, NEW c \in Services, Channel!CallHost(r, c) PROVE ChannelInv'
  <1>1. /\ service[c] = Channel!NoService /\ service' = [service EXCEPT ![c] = [parent |-> r, step |-> "asked"]]
        /\ frames' = frames \cup {Channel!Frame("service", r, c)}
        /\ UNCHANGED <<req, next, error, process, reader, stage, channelClosed>>
    BY DEF Channel!CallHost, Channel!teardown
  <1>2. /\ service' \in [Services -> ServiceState] /\ service'[c].parent = r /\ service'[c].step = "asked"
        /\ \A d \in Services \ {c} : service'[d] = service[d]
    <2>1. [parent |-> r, step |-> "asked"] \in ServiceState
      BY DEF ServiceState
    <2> QED BY <1>1, <2>1 DEF ChannelInv
  <1>3. service[c].parent \notin Requests
    BY <1>1, ChannelConstants DEF Channel!NoService
  <1>4. FramesFit'
    <2>1. ASSUME NEW q \in Requests, NEW d \in Services, Channel!Frame("service", q, d) \in frames'
          PROVE  service'[d].parent = q
      <3>1. CASE Channel!Frame("service", q, d) \in frames
        <4>1. service[d].parent = q
          BY <3>1 DEF ChannelInv, FramesFit
        <4>2. d # c
          BY <1>3, <4>1
        <4> QED BY <1>2, <4>1, <4>2
      <3>2. CASE Channel!Frame("service", q, d) = Channel!Frame("service", r, c)
        <4>1. q = r /\ d = c
          BY <3>2 DEF Channel!Frame
        <4> QED BY <1>2, <4>1
      <3> QED BY <1>1, <2>1, <3>1, <3>2
    <2> QED BY <2>1 DEF FramesFit
  <1>5. CallsFit'
    BY <1>2 DEF ChannelInv, CallsFit
  <1>6. Channel!HostWorkBelongsToACall'
    <2>1. ASSUME NEW d \in Services, service'[d].step \in {"running", "cancelled"}
          PROVE  req[service'[d].parent].step # "returned"
      BY <1>2, <2>1 DEF ChannelInv, Channel!HostWorkBelongsToACall, Channel!Called
    <2> QED BY <1>1, <2>1 DEF ChannelInv, Channel!HostWorkBelongsToACall, Channel!Called, Channel!Active
  <1> QED BY <1>1, <1>2, <1>4, <1>5, <1>6 DEF ChannelInv, Channel!Pending

LEMMA DieKeeps == ASSUME ChannelInv, Channel!Die PROVE ChannelInv'
  <1>1. ~process' /\ UNCHANGED <<req, frames, service, next, error, reader, stage, channelClosed>>
    BY DEF Channel!Die, Channel!teardown
  <1> QED BY <1>1, ReqRests, QuietStep

LEMMA ReadReplyKeeps == ASSUME ChannelInv, NEW r \in Requests, Channel!ReadReply(r) PROVE ChannelInv'
  <1>1. /\ frames' \subseteq frames
        /\ req' = (IF Channel!Pending(r) THEN [req EXCEPT ![r].future = "answered"] ELSE req)
        /\ UNCHANGED <<service, next, error, process, reader, stage, channelClosed>>
    BY DEF Channel!ReadReply, Channel!teardown
  <1>2. CASE ~Channel!Pending(r)
    BY <1>1, <1>2, ReqRests, QuietStep
  <1>3. CASE Channel!Pending(r)
    <2>1. req' = [req EXCEPT ![r] = [req[r] EXCEPT !.future = "answered"]]
      BY <1>1, <1>3 DEF ChannelInv
    <2>2. [req[r] EXCEPT !.future = "answered"] \in [op : {req[r].op}, by : {req[r].by}, step : {req[r].step}, future : {"answered"}]
      BY DEF ChannelInv, ReqState
    <2>3. [req[r] EXCEPT !.future = "answered"] \in ReqState
      BY <2>2 DEF ChannelInv, ReqState
    <2>4. /\ req' \in [Requests -> ReqState] /\ req'[r].future = "answered" /\ req'[r].step = req[r].step
          /\ \A q \in Requests \ {r} : req'[q] = req[q]
      BY <2>1, <2>2, <2>3 DEF ChannelInv
    <2>5. \A q \in Requests : req'[q].step = "returned" => req[q].step = "returned"
      BY <2>4
    <2>6. \A q \in Requests : Channel!Pending(q)' => Channel!Pending(q)
      BY <2>4 DEF Channel!Pending
    <2> QED BY <1>1, <2>4, <2>5, <2>6, QuietStep
  <1> QED BY <1>2, <1>3

LEMMA ReadServiceKeeps == ASSUME ChannelInv, NEW r \in Requests, NEW c \in Services, Channel!ReadService(r, c) PROVE ChannelInv'
  <1>1. /\ Channel!Frame("service", r, c) \in frames /\ frames' \subseteq frames
        /\ UNCHANGED <<req, next, error, process, reader, stage, channelClosed>>
    BY DEF Channel!ReadService, Channel!teardown
  <1>2. PICK s \in {"running", "over"} : service' = [service EXCEPT ![c].step = s] /\ (s = "running" => Channel!Admitted(r))
    BY Zenon DEF Channel!ReadService
  <1>3. /\ service' \in [Services -> ServiceState]
        /\ service'[c].step = s /\ service'[c].parent = service[c].parent
        /\ \A d \in Services \ {c} : service'[d] = service[d]
    BY Zenon, <1>2, CallMoves
  <1>4. service[c].parent = r
    BY <1>1 DEF ChannelInv, FramesFit
  <1>5. FramesFit'
    BY <1>1, <1>3 DEF ChannelInv, FramesFit, Channel!Frame
  <1>6. CallsFit'
    BY <1>3, <1>4 DEF ChannelInv, CallsFit
  <1>7. Channel!HostWorkBelongsToACall'
    <2>1. ASSUME NEW d \in Services, service'[d].step \in {"running", "cancelled"}
          PROVE  req[service'[d].parent].step # "returned"
      <3>1. CASE d = c
        <4>1. Channel!Pending(r)
          BY <1>2, <1>3, <2>1, <3>1 DEF Channel!Admitted
        <4> QED BY <1>3, <1>4, <3>1, <4>1, PendingIs
      <3>2. CASE d # c
        BY <1>3, <2>1, <3>2 DEF ChannelInv, Channel!HostWorkBelongsToACall, Channel!Called
      <3> QED BY <3>1, <3>2
    <2> QED BY <1>1, <2>1 DEF ChannelInv, Channel!HostWorkBelongsToACall, Channel!Called, Channel!Active
  <1> QED BY <1>1, <1>3, <1>5, <1>6, <1>7 DEF ChannelInv, Channel!Pending

LEMMA ReadContinueKeeps == ASSUME ChannelInv, NEW r \in Requests, Channel!ReadContinue(r) PROVE ChannelInv'
  <1>1. /\ frames' \subseteq frames
        /\ next' = (IF next[r] = "ready" /\ Channel!Admitted(r) THEN [next EXCEPT ![r] = "running"] ELSE next)
        /\ UNCHANGED <<req, service, error, process, reader, stage, channelClosed>>
    BY DEF Channel!ReadContinue, Channel!teardown
  <1>2. CASE ~(next[r] = "ready" /\ Channel!Admitted(r))
    BY <1>1, <1>2, ReqRests, QuietStep
  <1>3. CASE next[r] = "ready" /\ Channel!Admitted(r)
    <2>1. /\ next' \in [Requests -> NextStates] /\ next' = [next EXCEPT ![r] = "running"]
          /\ \A q \in Requests \ {r} : next'[q] = next[q]
      BY <1>1, <1>3 DEF ChannelInv, NextStates
    <2>2. req[r].step # "returned"
      BY <1>3, PendingIs DEF Channel!Admitted
    <2>3. ASSUME NEW q \in Requests, next'[q] \in {"running", "cancelled"} PROVE req[q].step # "returned"
      BY <2>1, <2>2, <2>3 DEF ChannelInv, Channel!HostWorkBelongsToACall, Channel!Active
    <2>4. Channel!HostWorkBelongsToACall'
      BY <1>1, <2>3 DEF ChannelInv, Channel!HostWorkBelongsToACall, Channel!Called, Channel!Active
    <2>5. FramesFit' /\ CallsFit'
      BY <1>1 DEF ChannelInv, FramesFit, CallsFit, Channel!Frame
    <2> QED BY <1>1, <2>1, <2>4, <2>5 DEF ChannelInv, Channel!Pending
  <1> QED BY <1>2, <1>3

\* When the stream ends, nobody waits any more.
LEMMA ReaderEndsKeeps == ASSUME ChannelInv, Channel!ReaderEnds PROVE ChannelInv'
  <1>1. /\ ~reader' /\ frames' = {} /\ error' /\ req' = Channel!FailPending
        /\ Channel!CancelServices(Services) /\ Channel!CancelNext(Requests)
        /\ UNCHANGED <<process, stage, channelClosed>>
    BY DEF Channel!ReaderEnds, Channel!teardown
  <1>2. CallsCancel /\ NextsCancel
    BY <1>1, CancelCalls, CancelNexts
  <1>3. ASSUME NEW r \in Requests
        PROVE  /\ req'[r] \in ReqState /\ (req'[r].step = "returned" => req[r].step = "returned")
               /\ ~Channel!Pending(r)'
    <2>0. req[r] \in ReqState
      BY DEF ChannelInv
    <2>1. CASE Channel!Pending(r)
      <3>1. req'[r] = [req[r] EXCEPT !.future = "failed"]
        BY <1>1, <2>1 DEF Channel!FailPending
      <3>2. req'[r] \in [op : {req[r].op}, by : {req[r].by}, step : {req[r].step}, future : {"failed"}]
        BY <2>0, <3>1 DEF ReqState
      <3>3. req'[r].step = req[r].step /\ req'[r].future = "failed"
        BY <3>2
      <3>4. req'[r] \in ReqState
        BY <2>0, <3>2 DEF ReqState
      <3> QED BY <3>3, <3>4 DEF Channel!Pending
    <2>2. CASE ~Channel!Pending(r)
      <3>1. req'[r] = req[r]
        BY <1>1, <2>2 DEF Channel!FailPending
      <3> QED BY <2>0, <2>2, <3>1 DEF Channel!Pending
    <2> QED BY <2>1, <2>2
  <1>4. req' \in [Requests -> ReqState]
    <2>1. req' = [r \in Requests |-> req'[r]]
      BY <1>1 DEF Channel!FailPending
    <2> QED BY <1>3, <2>1
  <1>5. /\ service' \in [Services -> ServiceState] /\ next' \in [Requests -> NextStates]
        /\ FramesFit' /\ CallsFit' /\ Channel!HostWorkBelongsToACall'
    BY <1>1, <1>2, <1>3, <1>4, QuietKeeps
  <1> QED BY <1>1, <1>3, <1>4, <1>5 DEF ChannelInv

LEMMA RetireKeeps == ASSUME ChannelInv, Channel!Retire \/ Channel!Joined \/ Channel!Ask PROVE ChannelInv'
  <1>1. /\ UNCHANGED <<req, frames, service, next, error, process, reader, channelClosed>>
        /\ stage' = "drain" => stage = "drain"
    BY DEF Channel!Retire, Channel!Joined, Channel!Ask
  <1> QED BY <1>1, ReqRests, QuietStep

\* Whoever leaves goes on, or was the owner.
LEMMA LeavesKeeps ==
  ASSUME ChannelInv, NEW t, Channel!Leaves(t)
  PROVE  /\ req' \in [Requests -> ReqState]
         /\ \A q \in Requests : req'[q].step = "returned" => req[q].step = "returned"
         /\ \A q \in Requests : Channel!Pending(q)' => Channel!Pending(q)
  <1>1. CASE UNCHANGED req
    BY <1>1, ReqRests
  <1>2. CASE t \in Requests /\ \E s \in {"unwind"} : req' = [req EXCEPT ![t].step = s]
    BY Zenon, <1>2, GoesKeeps
  <1>3. CASE t \notin Requests /\ \E s \in {"unwind"} : req' = [req EXCEPT ![t].step = s]
    <2>1. UNCHANGED req
      BY <1>3 DEF ChannelInv
    <2> QED BY <2>1, ReqRests
  <1> QED BY <1>1, <1>2, <1>3 DEF Channel!Leaves, Channel!Goes

LEMMA AcquireKeeps == ASSUME ChannelInv, NEW t, Channel!Acquire(t) PROVE ChannelInv'
  <1>1. UNCHANGED <<frames, error, process, reader, channelClosed>>
    BY DEF Channel!Acquire
  <1>2. CASE Channel!Leaves(t) /\ UNCHANGED <<lock, stage, service, next>>
    BY <1>1, <1>2, LeavesKeeps, QuietStep
  <1>3. CASE stage' = "join" /\ Channel!CancelServices(Services) /\ Channel!CancelNext(Requests) /\ UNCHANGED req
    <2>1. CallsCancel /\ NextsCancel
      BY <1>3, CancelCalls, CancelNexts
    <2> QED BY <1>1, <1>3, <2>1, ReqRests, QuietStep
  <1> QED BY <1>2, <1>3 DEF Channel!Acquire

LEMMA KillKeeps == ASSUME ChannelInv, Channel!Kill PROVE ChannelInv'
  <1>1. /\ ~process' /\ UNCHANGED <<req, frames, service, next, error, reader, channelClosed>>
    BY Zenon DEF Channel!Kill, Channel!Kills
  <1> QED BY <1>1, ReqRests, QuietStep

LEMMA DrainedKeeps == ASSUME ChannelInv, Channel!Drained PROVE ChannelInv'
  <1>1. /\ stage = "drain" /\ ~reader /\ stage' = "none" /\ Channel!Leaves(lock)
        /\ UNCHANGED <<frames, service, next, error, process, reader>>
    BY DEF Channel!Drained
  <1> QED BY <1>1, LeavesKeeps, QuietStep

-----------------------------------------------------------------------------

LEMMA ChannelStart == Channel!Init => ChannelInv
  <1> SUFFICES ASSUME Channel!Init PROVE ChannelInv
    OBVIOUS
  <1>1. Channel!NoRequest \in ReqState /\ Channel!NoRequest.step = "none" /\ Channel!NoRequest.future = "none"
    BY DEF Channel!NoRequest, ReqState
  <1>2. Channel!NoService \in ServiceState /\ Channel!NoService.step = "none"
    BY DEF Channel!NoService, ServiceState
  <1> QED BY <1>1, <1>2 DEF Channel!Init, ChannelInv, FramesFit, CallsFit, NextStates, Channel!HostWorkBelongsToACall,
                            Channel!Called, Channel!Active, Channel!Pending

LEMMA ChannelKeeps == ASSUME ChannelInv, Channel!Next PROVE ChannelInv'
  BY ReaderEndsKeeps, DieKeeps, RetireKeeps, KillKeeps, DrainedKeeps, AcquireKeeps, ServiceEndsKeeps, RequestKeeps,
     MovesKeep, UnwindKeeps, ReturnedKeeps, NextEndsKeeps, RespondKeeps, ReadReplyKeeps, ReadContinueKeeps,
     CallHostKeeps, ReadServiceKeeps DEF Channel!Next, Channel!UserCancels

LEMMA ChannelInvariant == Spec => []ChannelInv
  <1>1. Init => ChannelInv
    BY ChannelStart DEF Init
  <1>2. [Next]_vars => Channel!Next \/ UNCHANGED channelVars
    BY DEF Next, vars
  <1>3. ChannelInv /\ [Next]_vars => ChannelInv'
    <2>1. CASE UNCHANGED channelVars
      BY <2>1 DEF channelVars, ChannelInv, FramesFit, CallsFit, Channel!HostWorkBelongsToACall, Channel!Called,
                  Channel!Active, Channel!Pending
    <2> QED BY <1>2, <2>1, ChannelKeeps
  <1> QED BY <1>1, <1>3, PTL DEF Spec

\* What a worker makes the host do ends before the request it was done for returns, and after a teardown nobody waits
\* and nothing of the process is left (hostcalls.py:1-6, process.py:228-231).
THEOREM NothingStaysBehind == Spec => []NothingIsLeftBehind
  <1>1. ChannelInv => NothingIsLeftBehind
    BY DEF ChannelInv, NothingIsLeftBehind, Channel!ClosedIsQuiet
  <1> QED BY <1>1, ChannelInvariant, PTL

(***************************************************************************)
(* Numbers and sequences.                                                  *)
(***************************************************************************)

\* A set of natural numbers that is not empty has a least member.
LEMMA LeastNatural ==
  ASSUME NEW T \in SUBSET Nat, T # {}
  PROVE  \E x \in T : \A y \in T : x <= y
<1> DEFINE R == {ss \in Nat \X Nat : ss[1] < ss[2]}
<1>1. IsWellFoundedOn(R, Nat)
  BY NatLessThanWellFounded DEF OpToRel
<1> HIDE DEF R
<1>2. PICK x \in T : \A y \in T : <<y, x>> \notin R
  BY Zenon, <1>1, WFMin
<1>3. ASSUME NEW y \in T PROVE x <= y
  <2>1. y \in Nat /\ x \in Nat
    OBVIOUS
  <2>2. <<y, x>> \in Nat \X Nat /\ <<y, x>>[1] = y /\ <<y, x>>[2] = x
    BY <2>1
  <2>3. ~(y < x)
    <3>1. <<y, x>> \notin R
      BY <1>2
    <3> QED BY <2>2, <3>1 DEF R
  <2> QED BY <2>1, <2>3
<1> QED BY <1>3

\* What is true of 0 and of each number after one it is true of is true up to n.
LEMMA UpTo ==
  ASSUME NEW n \in Nat, NEW T, 0 \in T, \A k \in 0 .. n - 1 : k \in T => k + 1 \in T
  PROVE  \A k \in 0 .. n : k \in T
<1> DEFINE B == (0 .. n) \ T
<1>1. CASE B = {}
  BY <1>1
<1>2. CASE B # {}
  <2>1. PICK k \in B : \A j \in B : k <= j
    <3> B \in SUBSET Nat
      OBVIOUS
    <3> HIDE DEF B
    <3> QED BY <1>2, LeastNatural
  <2>2. k # 0 /\ k - 1 \in 0 .. n - 1 /\ k - 1 \notin B
    BY <2>1
  <2>3. k - 1 \in T
    BY <2>2
  <2>4. (k - 1) + 1 \in T
    BY <2>2, <2>3
  <2> QED BY <2>4, <2>1
<1> QED BY <1>1, <1>2

\* The sequences of s joined up to each of them.
Joins(S, s, f) ==
    /\ f \in [1..Len(s) -> Seq(S)]
    /\ \A i \in 1..Len(s) : f[i] = IF i = 1 THEN s[i] ELSE f[i - 1] \o s[i]

\* A sequence of sequences can be joined.
LEMMA CanJoin ==
  ASSUME NEW S, NEW s \in Seq(Seq(S)), s # <<>>
  PROVE  \E f : Joins(S, s, f)
  <1> DEFINE N == Len(s) - 1
             IsJoin(f, m) == /\ f \in [1..m + 1 -> Seq(S)]
                             /\ \A i \in 1..m + 1 : f[i] = IF i = 1 THEN s[i] ELSE f[i - 1] \o s[i]
             T == {m \in 0..N : \E f : IsJoin(f, m)}
  <1>0. Len(s) \in Nat /\ Len(s) >= 1 /\ N \in Nat /\ N + 1 = Len(s) /\ \A i \in 1..Len(s) : s[i] \in Seq(S)
    OBVIOUS
  <1>1. 0 \in T
    <2> DEFINE f == [n \in 1..0 + 1 |-> s[1]]
    <2>1. IsJoin(f, 0)
      BY <1>0
    <2>2. 0 \in 0..N
      BY <1>0
    <2> HIDE DEF IsJoin, f, N
    <2> QED BY <2>1, <2>2
  <1>2. ASSUME NEW k \in 0..N - 1, k \in T PROVE k + 1 \in T
    <2>1. PICK f : IsJoin(f, k)
      BY Zenon, <1>2
    <2>0. k \in Nat /\ k + 2 <= Len(s) /\ k + 2 \in 1..Len(s) /\ s[k + 2] \in Seq(S) /\ k + 1 \in 1..k + 1
      BY <1>0
    <2> DEFINE g == [n \in 1..(k + 1) + 1 |-> IF n = k + 2 THEN f[k + 1] \o s[k + 2] ELSE f[n]]
    <2> HIDE DEF N
    <2>2. \A n \in 1..(k + 1) + 1 : g[n] \in Seq(S) /\ g[n] = IF n = 1 THEN s[n] ELSE g[n - 1] \o s[n]
      <3> SUFFICES ASSUME NEW n \in 1..(k + 1) + 1
                   PROVE  g[n] \in Seq(S) /\ g[n] = IF n = 1 THEN s[n] ELSE g[n - 1] \o s[n]
        BY Zenon
      <3>1. CASE n = k + 2
        <4>1. n # 1 /\ n - 1 = k + 1 /\ n - 1 \in 1..(k + 1) + 1 /\ n - 1 # k + 2
          BY <3>1, <2>0
        <4>2. g[n] = f[k + 1] \o s[k + 2] /\ g[n - 1] = f[k + 1]
          BY Zenon, <4>1, <3>1
        <4>3. f[k + 1] \in Seq(S)
          BY <2>0, <2>1
        <4>4. f[k + 1] \o s[k + 2] \in Seq(S)
          BY <4>3, <2>0, ConcatProperties
        <4> HIDE DEF g
        <4> QED BY Zenon, <4>1, <4>2, <4>4, <3>1
      <3>2. CASE n # k + 2
        <4>1. n \in 1..k + 1 /\ (n # 1 => n - 1 \in 1..k + 1 /\ n - 1 \in 1..(k + 1) + 1 /\ n - 1 # k + 2)
          BY <3>2, <2>0
        <4>2. f[n] \in Seq(S) /\ f[n] = IF n = 1 THEN s[n] ELSE f[n - 1] \o s[n]
          BY Zenon, <4>1, <2>1
        <4>3. g[n] = f[n] /\ (n # 1 => g[n - 1] = f[n - 1])
          BY <4>1, <3>2
        <4> HIDE DEF g
        <4> QED BY <4>2, <4>3
      <3> QED BY <3>1, <3>2
    <2>3. g \in [1..(k + 1) + 1 -> Seq(S)]
      <3>1. g = [n \in 1..(k + 1) + 1 |-> g[n]]
        OBVIOUS
      <3> HIDE DEF g
      <3> QED BY Zenon, <2>2, <3>1
    <2>4. k + 1 \in 0..N
      BY <1>0 DEF N
    <2>5. IsJoin(g, k + 1)
      <3> HIDE DEF g
      <3> QED BY Zenon, <2>2, <2>3
    <2> HIDE DEF IsJoin, g
    <2> QED BY <2>4, <2>5
  <1>3. N \in T
    <2>1. \A k \in 0..N - 1 : k \in T => k + 1 \in T
      BY Zenon, <1>2
    <2> HIDE DEF T, N
    <2>2. \A k \in 0..N : k \in T
      BY Zenon, <1>0, <1>1, <2>1, UpTo
    <2>3. N \in 0..N
      BY <1>0
    <2> QED BY <2>2, <2>3
  <1>4. PICK f : IsJoin(f, N)
    BY Zenon, <1>3
  <1>5. Joins(S, s, f)
    <2> HIDE DEF N
    <2> QED BY Zenon, <1>0, <1>4 DEF Joins
  <1> QED BY <1>5

\* Sequence t begins with sequence s.
Begins(s, t) == Len(s) <= Len(t) /\ \A i \in 1..Len(s) : s[i] = t[i]

\* Sequences that begin alike are joined alike.
LEMMA JoinsAlike ==
  ASSUME NEW S, NEW s \in Seq(Seq(S)), NEW t \in Seq(Seq(S)), Begins(s, t), s # <<>>,
         NEW f, NEW g, Joins(S, s, f), Joins(S, t, g)
  PROVE  \A i \in 1..Len(s) : f[i] = g[i]
  <1> DEFINE N == Len(s) - 1
             T == {m \in 0..N : f[m + 1] = g[m + 1]}
  <1>b. Len(s) <= Len(t) /\ \A i \in 1..Len(s) : s[i] = t[i]
    BY DEF Begins
  <1>0. Len(s) \in Nat /\ Len(s) >= 1 /\ Len(t) \in Nat /\ N \in Nat /\ N + 1 = Len(s)
    OBVIOUS
  <1>1. 0 \in T
    <2>0. 1 \in 1..Len(s) /\ 1 \in 1..Len(t) /\ 0 \in 0..N
      BY <1>0, <1>b
    <2>1. f[1] = s[1] /\ g[1] = t[1] /\ s[1] = t[1] /\ 0 \in 0..N
      BY Zenon, <2>0, <1>b DEF Joins
    <2> QED BY <2>1
  <1>2. ASSUME NEW k \in 0..N - 1, k \in T PROVE k + 1 \in T
    <2>1. k + 2 \in 1..Len(s) /\ k + 2 \in 1..Len(t) /\ k + 2 # 1 /\ (k + 2) - 1 = k + 1 /\ k + 1 \in 0..N
            /\ (k + 1) + 1 = k + 2
      BY <1>0, <1>b
    <2>2. f[k + 2] = f[k + 1] \o s[k + 2] /\ g[k + 2] = g[k + 1] \o t[k + 2] /\ s[k + 2] = t[k + 2]
      BY Zenon, <2>1, <1>b DEF Joins
    <2>3. f[k + 1] = g[k + 1]
      BY <1>2
    <2> HIDE DEF N
    <2> QED BY Zenon, <2>1, <2>2, <2>3
  <1>3. \A k \in 0..N : k \in T
    <2>1. \A k \in 0..N - 1 : k \in T => k + 1 \in T
      BY <1>2
    <2> HIDE DEF T, N
    <2> QED BY Zenon, <1>0, <1>1, <2>1, UpTo
  <1> SUFFICES ASSUME NEW i \in 1..Len(s) PROVE f[i] = g[i]
    OBVIOUS
  <1>4. i - 1 \in 0..N /\ (i - 1) + 1 = i
    BY <1>0
  <1> HIDE DEF N
  <1> QED BY <1>3, <1>4

\* FlattenSeq joins.
LEMMA FlattenJoins ==
  ASSUME NEW S, NEW s \in Seq(Seq(S)), s # <<>>
  PROVE  \E f : Joins(S, s, f) /\ Context!FlattenSeq(s) = f[Len(s)]
  <1> DEFINE IsF(f) == f = [i \in 1..Len(s) |-> IF i = 1 THEN s[i] ELSE f[i - 1] \o s[i]]
             h == CHOOSE f : IsF(f)
  <1>0. Len(s) \in Nat /\ Len(s) # 0
    OBVIOUS
  <1>1. PICK f : Joins(S, s, f)
    BY CanJoin
  <1>2. IsF(f)
    <2>1. f = [i \in 1..Len(s) |-> f[i]]
      BY <1>1 DEF Joins
    <2> QED BY Zenon, <1>1, <2>1 DEF Joins
  <1>3. IsF(h)
    BY Zenon, <1>2
  <1>4. Context!FlattenSeq(s) = h[Len(s)]
    BY <1>0 DEF Context!FlattenSeq
  <1>5. Joins(S, s, h)
    <2> HIDE DEF h
    <2>1. \A i \in 1..Len(s) : h[i] = IF i = 1 THEN s[i] ELSE h[i - 1] \o s[i]
      BY Zenon, <1>3
    <2>2. h = [i \in 1..Len(s) |-> h[i]]
      BY <1>3, <2>1
    <2>3. \A i \in 1..Len(s) : h[i] = f[i]
      <3> DEFINE N == Len(s) - 1
                 T == {m \in 0..N : f[m + 1] = h[m + 1]}
      <3>0. Len(s) >= 1 /\ N \in Nat /\ N + 1 = Len(s)
        BY <1>0
      <3>1. 0 \in T
        <4>1. f[1] = s[1] /\ h[1] = s[1] /\ 0 \in 0..N
          BY <3>0, <1>1, <2>1 DEF Joins
        <4> QED BY <4>1
      <3>2. ASSUME NEW k \in 0..N - 1, k \in T PROVE k + 1 \in T
        <4>1. k + 2 \in 1..Len(s) /\ k + 2 # 1 /\ (k + 2) - 1 = k + 1 /\ k + 1 \in 0..N /\ (k + 1) + 1 = k + 2
          BY <3>0
        <4>2. f[k + 2] = f[k + 1] \o s[k + 2] /\ h[k + 2] = h[k + 1] \o s[k + 2]
          BY Zenon, <4>1, <1>1, <2>1 DEF Joins
        <4>3. f[k + 1] = h[k + 1]
          BY <3>2
        <4> HIDE DEF N
        <4> QED BY Zenon, <4>1, <4>2, <4>3
      <3>3. \A k \in 0..N : k \in T
        <4>1. \A k \in 0..N - 1 : k \in T => k + 1 \in T
          BY <3>2
        <4> HIDE DEF T, N
        <4> QED BY Zenon, <3>0, <3>1, <4>1, UpTo
      <3> SUFFICES ASSUME NEW i \in 1..Len(s) PROVE h[i] = f[i]
        OBVIOUS
      <3>4. i - 1 \in 0..N /\ (i - 1) + 1 = i
        BY <3>0
      <3> HIDE DEF N
      <3> QED BY <3>3, <3>4
    <2>4. h \in [1..Len(s) -> Seq(S)]
      BY <2>2, <2>3, <1>1 DEF Joins
    <2> QED BY Zenon, <2>1, <2>4 DEF Joins
  <1> HIDE DEF h
  <1> QED BY <1>4, <1>5

\* Nothing joined is nothing.
LEMMA FlattenNone == Context!FlattenSeq(<<>>) = <<>>
  BY DEF Context!FlattenSeq

\* What is joined is a sequence.
LEMMA FlattenIsSeq ==
  ASSUME NEW S, NEW s \in Seq(Seq(S))
  PROVE  Context!FlattenSeq(s) \in Seq(S)
  <1>1. CASE s = <<>>
    BY Zenon, <1>1, FlattenNone, EmptySeq
  <1>2. CASE s # <<>>
    <2>1. PICK f : Joins(S, s, f) /\ Context!FlattenSeq(s) = f[Len(s)]
      BY <1>2, FlattenJoins
    <2>2. Len(s) \in 1..Len(s)
      BY <1>2
    <2> QED BY <2>1, <2>2 DEF Joins
  <1> QED BY <1>1, <1>2

\* A sequence added is joined at the end.
LEMMA FlattenAppend ==
  ASSUME NEW S, NEW s \in Seq(Seq(S)), NEW x \in Seq(S)
  PROVE  Context!FlattenSeq(Append(s, x)) = Context!FlattenSeq(s) \o x
  <1> DEFINE t == Append(s, x)
             n == Len(s)
  <1>1. /\ t \in Seq(Seq(S)) /\ t # <<>> /\ Len(t) = n + 1 /\ n \in Nat
        /\ \A i \in 1..n : t[i] = s[i]
        /\ t[n + 1] = x
    BY AppendProperties
  <1> HIDE DEF t
  <1>2. PICK g : Joins(S, t, g) /\ Context!FlattenSeq(t) = g[n + 1]
    BY <1>1, FlattenJoins
  <1>3. n + 1 \in 1..Len(t)
    BY <1>1
  <1>4. CASE s = <<>>
    <2>1. n = 0
      BY <1>4
    <2>2. g[n + 1] = x
      BY <1>1, <1>2, <1>3, <2>1 DEF Joins
    <2> QED BY <1>2, <1>4, <2>2, FlattenNone, ConcatEmptySeq DEF t
  <1>5. CASE s # <<>>
    <2>1. PICK f : Joins(S, s, f) /\ Context!FlattenSeq(s) = f[n]
      BY <1>5, FlattenJoins
    <2>2. n >= 1 /\ n \in 1..n
      BY <1>1, <1>5
    <2>3. \A i \in 1..n : f[i] = g[i]
      <3>1. Begins(s, t) /\ Joins(S, t, g) /\ Joins(S, s, f)
        BY <1>1, <1>2, <2>1 DEF Begins
      <3> QED BY <3>1, <1>1, <1>5, JoinsAlike
    <2>4. n + 1 # 1 /\ (n + 1) - 1 = n
      BY <2>2
    <2>5. g[n + 1] = g[n] \o x
      BY Zenon, <1>1, <1>2, <1>3, <2>4 DEF Joins
    <2> QED BY Zenon, <1>2, <2>1, <2>2, <2>3, <2>5 DEF t
  <1> QED BY <1>4, <1>5

(***************************************************************************)
(* Compaction: what is evicted, summarized and written to history files.   *)
(***************************************************************************)

\* The messages of a conversation.
Messages == [id : Nat, kind : Context!Kinds, size : Sizes \cup {1}]

\* A result follows its call or a sibling, and a call has a result.
Whole(s) ==
    \A i \in 1..Len(s) :
        /\ s[i].kind = "result" => i > 1 /\ s[i - 1].kind \in {"call", "result"}
        /\ s[i].kind = "call" => i < Len(s) /\ s[i + 1].kind = "result"
\* Checkpoints aside, each message has an identity of its own, of those given so far.
Distinct(s) ==
    \A i, j \in 1..Len(s) : s[i].kind # "summary" /\ s[j].kind # "summary" /\ s[i].id = s[j].id => i = j
Numbered(s, n) == \A i \in 1..Len(s) : IF s[i].kind = "summary" THEN s[i].id = 0 ELSE s[i].id \in 1..n
\* A conversation of the first n messages.
Conversation(s, n) == s \in Seq(Messages) /\ Whole(s) /\ Distinct(s) /\ Numbered(s, n)
\* No message is in both.
Apart(s, t) ==
    \A i \in 1..Len(s), j \in 1..Len(t) :
        s[i].kind # "summary" /\ t[j].kind # "summary" => s[i].id # t[j].id

\* A conversation, the turn that follows it and the turn as its request carries it.
TurnsFit(h, t, r, n) == Conversation(h, n) /\ Conversation(t, n) /\ Conversation(r, n) /\ Apart(h, t) /\ Apart(h, r)
\* A follow-up that is not accepted yet is the newest message, in the request alone.
ClaimFits(h, t, n, claimed, p) ==
    /\ claimed => n > 0 /\ Numbered(h, n - 1) /\ Numbered(t, n - 1)
    /\ p = "idle" => ~claimed

Segment == [key : Nat \ {0}, span : SUBSET Nat]
\* The keys of a sequence of segments rise.
Rising(sg) == sg \in Seq(Segment) /\ \A i, j \in 1..Len(sg) : i < j => sg[i].key < sg[j].key
\* A file was written of a segment no newer than the newest retained: its key is not given again.
FilesFit ==
    /\ DOMAIN files \subseteq Nat
    /\ \A k \in DOMAIN files : Len(segments) > 0 /\ k <= segments[Len(segments)].key
ArchiveFits == Rising(segments) /\ Len(segments) <= MaxSegments /\ FilesFit /\ Context!FilesNameOneSpan

\* What a pass leaves to be said of it.
PassFits == Context!LatestRequestSurvives /\ Context!SummaryCoversTheSpan

\* The inductive invariant of compaction.
ContextInv ==
    /\ count \in Nat
    /\ TurnsFit(history, contextTurn, contextRequest, count)
    /\ ClaimFits(history, contextTurn, count, pending, pc)
    /\ ArchiveFits
    /\ PassFits

-----------------------------------------------------------------------------
(* What a conversation is made of another with.                            *)

\* Sequence r has the members of s at the places f, in their order.
Places(r, s, f) ==
    /\ f \in [1..Len(r) -> 1..Len(s)]
    /\ \A a, b \in 1..Len(r) : a < b => f[a] < f[b]
    /\ \A a \in 1..Len(r) : r[a] = s[f[a]]
Selection(r, s) == r \in Seq(Messages) /\ \E f : Places(r, s, f)

LEMMA MessageIs ==
  ASSUME NEW s \in Seq(Messages)
  PROVE  /\ Len(s) \in Nat /\ DOMAIN s = 1..Len(s)
         /\ \A i \in 1..Len(s) : s[i] \in Messages /\ s[i].kind \in Context!Kinds /\ s[i].id \in Nat
  <1>1. Len(s) \in Nat /\ DOMAIN s = 1..Len(s) /\ \A i \in 1..Len(s) : s[i] \in Messages
    BY LenProperties, ElementOfSeq
  <1>2. \A m \in Messages : m.kind \in Context!Kinds /\ m.id \in Nat
    BY DEF Messages
  <1> QED BY <1>1, <1>2

\* A selection keeps identities.
LEMMA SelectionKeeps ==
  ASSUME NEW s \in Seq(Messages), NEW r, Selection(r, s)
  PROVE  /\ Distinct(s) => Distinct(r)
         /\ \A n : Numbered(s, n) => Numbered(r, n)
         /\ \A t : Apart(s, t) => Apart(r, t)
         /\ \A t : Apart(t, s) => Apart(t, r)
  <1>1. PICK f : Places(r, s, f)
    BY DEF Selection
  <1>2. r \in Seq(Messages) /\ Len(r) \in Nat /\ Len(s) \in Nat
    BY DEF Selection
  <1>3. /\ \A a \in 1..Len(r) : f[a] \in 1..Len(s) /\ r[a] = s[f[a]]
        /\ \A a, b \in 1..Len(r) : f[a] = f[b] => a = b
    <2>1. \A a \in 1..Len(r) : f[a] \in 1..Len(s) /\ r[a] = s[f[a]]
      BY <1>1 DEF Places
    <2>2. ASSUME NEW a \in 1..Len(r), NEW b \in 1..Len(r), a # b PROVE f[a] # f[b]
      <3>1. a < b \/ b < a
        BY <1>2, <2>2
      <3>2. f[a] < f[b] \/ f[b] < f[a]
        BY <1>1, <3>1 DEF Places
      <3>3. f[a] \in Nat /\ f[b] \in Nat
        BY <2>1
      <3> QED BY <3>2, <3>3
    <2> QED BY <2>1, <2>2
  <1>4. Distinct(s) => Distinct(r)
    BY ONLY SMTT(40), <1>3 DEF Distinct
  <1>5. ASSUME NEW n, Numbered(s, n) PROVE Numbered(r, n)
    BY ONLY <1>3, <1>5 DEF Numbered
  <1>6. ASSUME NEW t, Apart(s, t) PROVE Apart(r, t)
    BY ONLY <1>3, <1>6 DEF Apart
  <1>7. ASSUME NEW t, Apart(t, s) PROVE Apart(t, r)
    BY ONLY <1>3, <1>7 DEF Apart
  <1> QED BY <1>4, <1>5, <1>6, <1>7

\* A selection of a selection is one.
LEMMA SelectionOfSelection ==
  ASSUME NEW s, NEW r, NEW q, Selection(r, s), Selection(q, r)
  PROVE  Selection(q, s)
  <1>1. PICK f : Places(r, s, f)
    BY DEF Selection
  <1>2. PICK g : Places(q, r, g)
    BY DEF Selection
  <1> DEFINE h == [a \in 1..Len(q) |-> f[g[a]]]
  <1>3. \A a \in 1..Len(q) : g[a] \in 1..Len(r) /\ f[g[a]] \in 1..Len(s) /\ q[a] = s[f[g[a]]]
    BY <1>1, <1>2 DEF Places
  <1>4. \A a, b \in 1..Len(q) : a < b => f[g[a]] < f[g[b]]
    BY <1>1, <1>2, <1>3 DEF Places
  <1>5. Places(q, s, h)
    BY <1>3, <1>4 DEF Places
  <1> HIDE DEF h
  <1> QED BY <1>5 DEF Selection

\* A part of a conversation.
LEMMA PartIs ==
  ASSUME NEW s \in Seq(Messages), NEW a \in 1..Len(s) + 1, NEW b \in 0..Len(s), a <= b + 1
  PROVE  /\ SubSeq(s, a, b) \in Seq(Messages) /\ Len(SubSeq(s, a, b)) = b - a + 1
         /\ \A i \in 1..b - a + 1 : SubSeq(s, a, b)[i] = s[a + i - 1] /\ a + i - 1 \in a..b
         /\ Selection(SubSeq(s, a, b), s)
  <1>1. Len(s) \in Nat /\ a \in Int /\ b \in Int /\ \A i \in a..b : s[i] \in Messages
    BY MessageIs
  <1>2. /\ SubSeq(s, a, b) \in Seq(Messages)
        /\ Len(SubSeq(s, a, b)) = (IF a <= b THEN b - a + 1 ELSE 0)
        /\ \A i \in 1..b - a + 1 : SubSeq(s, a, b)[i] = s[a + i - 1]
    BY <1>1, SubSeqProperties
  <1>3. Len(SubSeq(s, a, b)) = b - a + 1
    BY <1>1, <1>2
  <1> DEFINE r == SubSeq(s, a, b)
             f == [i \in 1..Len(r) |-> a + i - 1]
  <1>4. \A i \in 1..b - a + 1 : a + i - 1 \in a..b /\ a + i - 1 \in 1..Len(s)
    BY <1>1
  <1>5. f \in [1..Len(r) -> 1..Len(s)]
    BY <1>3, <1>4
  <1>6. \A i, j \in 1..Len(r) : i < j => f[i] < f[j]
    BY <1>1, <1>3
  <1>7. \A i \in 1..Len(r) : r[i] = s[f[i]]
    BY <1>2, <1>3
  <1>8. Places(r, s, f)
    <2> HIDE DEF r, f
    <2> QED BY <1>5, <1>6, <1>7 DEF Places
  <1>9. Selection(r, s)
    <2> HIDE DEF f
    <2> QED BY <1>2, <1>8 DEF Selection
  <1> QED BY <1>2, <1>3, <1>4, <1>9

\* The messages of s that are no checkpoints, before they are joined.
Singles(s) == [i \in DOMAIN s |-> IF s[i].kind = "summary" THEN <<>> ELSE <<s[i]>>]

\* Sequence r has what is no checkpoint of the first n messages of s.
Leaves(r, s, n) ==
    \E f : /\ Places(r, s, f) /\ \A a \in 1..Len(r) : f[a] <= n /\ r[a].kind # "summary"
           /\ \A j \in 1..n : s[j].kind # "summary" => \E a \in 1..Len(r) : f[a] = j

\* One more message.
LEMMA LeavesNext ==
  ASSUME NEW s \in Seq(Messages), NEW n \in 0..Len(s) - 1, NEW r \in Seq(Messages), Leaves(r, s, n),
         NEW x, x = (IF s[n + 1].kind = "summary" THEN <<>> ELSE <<s[n + 1]>>)
  PROVE  r \o x \in Seq(Messages) /\ Leaves(r \o x, s, n + 1)
  <1>0. Len(s) \in Nat /\ n \in Nat /\ n + 1 \in 1..Len(s) /\ s[n + 1] \in Messages /\ Len(r) \in Nat
    BY MessageIs
  <1>1. PICK f : /\ Places(r, s, f) /\ \A a \in 1..Len(r) : f[a] <= n /\ r[a].kind # "summary"
                 /\ \A j \in 1..n : s[j].kind # "summary" => \E a \in 1..Len(r) : f[a] = j
    BY DEF Leaves
  <1>2. CASE s[n + 1].kind = "summary"
    <2>1. r \o x = r
      BY <1>2, ConcatEmptySeq
    <2>2. \A a \in 1..Len(r) : f[a] <= n + 1
      BY <1>0, <1>1 DEF Places
    <2>3. \A j \in 1..n + 1 : s[j].kind # "summary" => \E a \in 1..Len(r) : f[a] = j
      <3> SUFFICES ASSUME NEW j \in 1..n + 1, s[j].kind # "summary" PROVE \E a \in 1..Len(r) : f[a] = j
        OBVIOUS
      <3>1. j \in 1..n
        BY <1>0, <1>2
      <3> QED BY <1>1, <3>1
    <2>4. Leaves(r, s, n + 1)
      BY <1>1, <2>2, <2>3 DEF Leaves
    <2> QED BY Zenon, <2>1, <2>4
  <1>3. CASE s[n + 1].kind # "summary"
    <2> DEFINE q == r \o x
               L == Len(r) + 1
               g == [a \in 1..L |-> IF a = L THEN n + 1 ELSE f[a]]
    <2>1. x = <<s[n + 1]>> /\ x \in Seq(Messages) /\ Len(x) = 1 /\ x[1] = s[n + 1]
      BY <1>0, <1>3
    <2>2. /\ q \in Seq(Messages) /\ Len(q) = L /\ q[L] = s[n + 1]
          /\ \A a \in 1..Len(r) : q[a] = r[a]
      <3>1. /\ q \in Seq(Messages) /\ Len(q) = Len(r) + Len(x)
            /\ \A i \in 1..Len(r) + Len(x) : q[i] = (IF i <= Len(r) THEN r[i] ELSE x[i - Len(r)])
        BY <2>1, ConcatProperties
      <3> HIDE DEF q
      <3>2. L \in 1..Len(r) + Len(x) /\ ~(L <= Len(r)) /\ L - Len(r) = 1
        BY <1>0, <2>1
      <3>3. \A a \in 1..Len(r) : a \in 1..Len(r) + Len(x) /\ a <= Len(r)
        BY <1>0, <2>1
      <3> QED BY <1>0, <2>1, <3>1, <3>2, <3>3
    <2>3. /\ \A a \in 1..Len(r) : a \in 1..L /\ a # L /\ a < L /\ f[a] \in 1..Len(s) /\ f[a] <= n /\ f[a] < n + 1
          /\ \A a \in 1..L : a # L => a \in 1..Len(r)
          /\ L \in 1..L
      BY <1>0, <1>1 DEF Places
    <2>4. \A a \in 1..Len(r) : g[a] = f[a]
      BY <2>3
    <2>5. g[L] = n + 1
      BY <2>3
    <2> HIDE DEF q
    <2>6. g \in [1..L -> 1..Len(s)]
      <3>1. g = [a \in 1..L |-> g[a]]
        OBVIOUS
      <3> HIDE DEF g
      <3> QED BY Zenon, <1>0, <2>3, <2>4, <2>5, <3>1
    <2> HIDE DEF g
    <2>7. \A a, b \in 1..L : a < b => g[a] < g[b]
      <3> SUFFICES ASSUME NEW a \in 1..L, NEW b \in 1..L, a < b PROVE g[a] < g[b]
        OBVIOUS
      <3>1. a \in 1..Len(r)
        BY <1>0
      <3>2. CASE b = L
        BY <2>3, <2>4, <2>5, <3>1, <3>2
      <3>3. CASE b # L
        <4>1. b \in 1..Len(r)
          BY <2>3, <3>3
        <4> QED BY <1>1, <2>4, <3>1, <4>1 DEF Places
      <3> QED BY <3>2, <3>3
    <2>8. \A a \in 1..L : q[a] = s[g[a]] /\ g[a] <= n + 1 /\ q[a].kind # "summary"
      <3> SUFFICES ASSUME NEW a \in 1..L PROVE q[a] = s[g[a]] /\ g[a] <= n + 1 /\ q[a].kind # "summary"
        OBVIOUS
      <3>1. CASE a = L
        BY <1>0, <1>3, <2>2, <2>5, <3>1
      <3>2. CASE a # L
        <4>1. a \in 1..Len(r)
          BY <2>3, <3>2
        <4>2. q[a] = r[a] /\ g[a] = f[a] /\ r[a] = s[f[a]] /\ r[a].kind # "summary" /\ f[a] < n + 1
          BY <1>1, <2>2, <2>3, <2>4, <4>1 DEF Places
        <4> QED BY <1>0, <2>3, <4>1, <4>2
      <3> QED BY <3>1, <3>2
    <2>9. \A j \in 1..n + 1 : s[j].kind # "summary" => \E a \in 1..L : g[a] = j
      <3> SUFFICES ASSUME NEW j \in 1..n + 1, s[j].kind # "summary" PROVE \E a \in 1..L : g[a] = j
        OBVIOUS
      <3>1. CASE j = n + 1
        BY <2>3, <2>5, <3>1
      <3>2. CASE j # n + 1
        <4>1. j \in 1..n
          BY <1>0, <3>2
        <4> QED BY Zenon, <1>1, <2>3, <2>4, <4>1
      <3> QED BY <3>1, <3>2
    <2>10. Places(q, s, g)
      BY Zenon, <2>2, <2>6, <2>7, <2>8 DEF Places
    <2>11. \A a \in 1..Len(q) : g[a] <= n + 1 /\ q[a].kind # "summary"
      BY <2>2, <2>8
    <2>12. \A j \in 1..n + 1 : s[j].kind # "summary" => \E a \in 1..Len(q) : g[a] = j
      BY <2>2, <2>9
    <2>13. Leaves(q, s, n + 1)
      BY <2>10, <2>11, <2>12 DEF Leaves
    <2> QED BY <2>2, <2>13 DEF q
  <1> QED BY <1>2, <1>3

\* What without_summaries leaves.
LEMMA WithoutIs ==
  ASSUME NEW s \in Seq(Messages)
  PROVE  /\ Context!without_summaries(s) \in Seq(Messages)
         /\ Leaves(Context!without_summaries(s), s, Len(s))
  <1> DEFINE q == Singles(s)
             N == Len(s)
             Good(k) == /\ Context!FlattenSeq(SubSeq(q, 1, k)) \in Seq(Messages)
                        /\ Leaves(Context!FlattenSeq(SubSeq(q, 1, k)), s, k)
             T == {k \in 0..N : Good(k)}
  <1>0. N \in Nat /\ DOMAIN s = 1..N /\ \A i \in 1..N : s[i] \in Messages
    BY MessageIs
  <1>1. /\ q \in Seq(Seq(Messages)) /\ Len(q) = N
        /\ \A i \in 1..N : q[i] = (IF s[i].kind = "summary" THEN <<>> ELSE <<s[i]>>) /\ q[i] \in Seq(Messages)
    <2>1. \A i \in 1..N : (IF s[i].kind = "summary" THEN <<>> ELSE <<s[i]>>) \in Seq(Messages)
      BY <1>0
    <2>2. q \in [1..N -> Seq(Messages)]
      BY <1>0, <2>1 DEF Singles
    <2>3. \A i \in 1..N : q[i] = (IF s[i].kind = "summary" THEN <<>> ELSE <<s[i]>>)
      BY <1>0 DEF Singles
    <2> HIDE DEF q
    <2> QED BY <1>0, <2>1, <2>2, <2>3
  <1>2. Context!without_summaries(s) = Context!FlattenSeq(q)
    BY DEF Context!without_summaries, Singles
  <1> HIDE DEF q
  <1>3. 0 \in T
    <2>1. SubSeq(q, 1, 0) = <<>>
      BY SubSeqEmpty
    <2>2. Context!FlattenSeq(SubSeq(q, 1, 0)) = <<>>
      BY Zenon, <2>1, FlattenNone
    <2>3. Leaves(<<>>, s, 0)
      <3> DEFINE f == [a \in 1..0 |-> 1]
      <3>1. 1..Len(<<>>) = {} /\ 1..0 = {}
        OBVIOUS
      <3>2. Places(<<>>, s, f)
        BY <3>1 DEF Places
      <3> HIDE DEF f
      <3> QED BY <3>1, <3>2 DEF Leaves
    <2>4. <<>> \in Seq(Messages) /\ 0 \in 0..N
      BY <1>0
    <2> QED BY Zenon, <2>2, <2>3, <2>4
  <1>4. ASSUME NEW k \in 0..N - 1, k \in T PROVE k + 1 \in T
    <2>0. k \in Nat /\ k + 1 \in 1..N /\ k + 1 \in 0..N
      BY <1>0
    <2> DEFINE p == SubSeq(q, 1, k)
    <2>1. p \in Seq(Seq(Messages))
      BY <1>1, <2>0, SubSeqProperties
    <2>2. SubSeq(q, 1, k + 1) = Append(p, q[k + 1])
      <3>0. 1 \in 1..Len(q) /\ k + 1 \in 1..Len(q) /\ q \in Seq(Seq(Messages))
        BY <1>0, <1>1, <2>0
      <3> HIDE DEF p, N
      <3>1. SubSeq(q, 1, k + 1) = SubSeq(q, 1, (k + 1) - 1) \o <<q[k + 1]>>
        BY ONLY <3>0, SubSeqRecursiveSecond
      <3>2. (k + 1) - 1 = k
        BY <2>0
      <3>3. SubSeq(q, 1, (k + 1) - 1) = p
        BY <3>2 DEF p
      <3>4. q[k + 1] \in Seq(Messages)
        BY <1>1, <2>0
      <3>5. Append(p, q[k + 1]) = p \o <<q[k + 1]>>
        BY ONLY <2>1, <3>4, AppendIsConcat
      <3> QED BY ONLY <3>1, <3>3, <3>5
    <2> HIDE DEF p
    <2>3. Context!FlattenSeq(Append(p, q[k + 1])) = Context!FlattenSeq(p) \o q[k + 1]
      BY Zenon, <1>1, <2>0, <2>1, FlattenAppend
    <2>4. Context!FlattenSeq(p) \in Seq(Messages) /\ Leaves(Context!FlattenSeq(p), s, k)
      BY <1>4 DEF p
    <2>5. q[k + 1] = (IF s[k + 1].kind = "summary" THEN <<>> ELSE <<s[k + 1]>>)
      BY <1>1, <2>0
    <2>6. /\ Context!FlattenSeq(p) \o q[k + 1] \in Seq(Messages)
          /\ Leaves(Context!FlattenSeq(p) \o q[k + 1], s, k + 1)
      BY <1>4, <2>4, <2>5, LeavesNext
    <2> QED BY Zenon, <2>0, <2>2, <2>3, <2>6
  <1>5. N \in T
    <2>1. \A k \in 0..N - 1 : k \in T => k + 1 \in T
      BY <1>4
    <2> HIDE DEF T, N
    <2>2. \A k \in 0..N : k \in T
      BY <1>0, <1>3, <2>1, UpTo
    <2> QED BY <1>0, <2>2
  <1>6. SubSeq(q, 1, N) = q
    BY <1>1, SubSeqFull
  <1> QED BY Zenon, <1>2, <1>5, <1>6

-----------------------------------------------------------------------------
(* Where the cut goes.                                                     *)

\* The greatest of some natural numbers with a bound.
LEMMA MaxIs ==
  ASSUME NEW n \in Nat, NEW T \in SUBSET (0..n), T # {}
  PROVE  Context!Max(T) \in T /\ \A y \in T : y <= Context!Max(T)
  <1> DEFINE L == {n - y : y \in T}
  <1>1. L \in SUBSET Nat /\ L # {}
    <2>1. \A y \in T : n - y \in Nat
      OBVIOUS
    <2>2. L \in SUBSET Nat
      BY <2>1
    <2>3. PICK y \in T : TRUE
      BY Zenon
    <2>4. n - y \in L
      OBVIOUS
    <2> HIDE DEF L
    <2> QED BY <2>2, <2>4
  <1>2. PICK z \in L : \A w \in L : z <= w
    <2> HIDE DEF L
    <2> QED BY <1>1, LeastNatural
  <1>3. PICK x \in T : z = n - x
    BY <1>2
  <1>4. \A y \in T : x >= y
    <2> SUFFICES ASSUME NEW y \in T PROVE x >= y
      OBVIOUS
    <2>1. n - y \in L /\ x \in 0..n /\ y \in 0..n
      OBVIOUS
    <2>2. n - x <= n - y
      BY Zenon, <1>2, <1>3, <2>1
    <2> QED BY <2>1, <2>2
  <1> DEFINE m == CHOOSE k \in T : \A y \in T : k >= y
  <1>5. m \in T /\ \A y \in T : m >= y
    BY Zenon, <1>4
  <1>6. Context!Max(T) = m
    BY DEF Context!Max
  <1> HIDE DEF m
  <1>7. m \in Nat /\ \A y \in T : y \in Nat
    BY <1>5
  <1> QED BY <1>5, <1>6, <1>7

\* The latest request, if there is one.
LEMMA LatestIs ==
  ASSUME NEW s \in Seq(Messages), NEW u, u = Context!latest_user_index(s)
  PROVE  u \in 0..Len(s) /\ (u # 0 => u \in 1..Len(s) /\ s[u].kind = "user")
  <1> DEFINE T == {i \in DOMAIN s : s[i].kind \in {"user"}}
  <1>1. Len(s) \in Nat /\ DOMAIN s = 1..Len(s)
    BY MessageIs
  <1>2. u = IF T = {} THEN 0 ELSE Context!Max(T)
    BY DEF Context!latest_user_index, Context!OfKind
  <1>3. CASE T = {}
    BY <1>1, <1>2, <1>3
  <1>4. CASE T # {}
    <2>1. T \in SUBSET (0..Len(s))
      BY <1>1
    <2>2. \A i \in T : i \in 1..Len(s) /\ s[i].kind = "user"
      BY <1>1
    <2> HIDE DEF T
    <2>3. Context!Max(T) \in T
      BY Zenon, <1>1, <1>4, <2>1, MaxIs
    <2> QED BY <1>1, <1>2, <1>4, <2>2, <2>3
  <1> QED BY <1>3, <1>4

\* A place where a conversation can be cut.
Clean(s, c) == c \in 0..Len(s) /\ (c < Len(s) => s[c + 1].kind # "result")

\* safe_cut finds one.
LEMMA SafeCutIs ==
  ASSUME NEW s \in Seq(Messages), Whole(s), NEW cut \in 0..Len(s)
  PROVE  Clean(s, Context!safe_cut(s, cut))
  <1> DEFINE T == {k \in 0..cut : k = 0 \/ s[k].kind # "result"}
             c == Context!Max(T)
             r == Context!safe_cut(s, cut)
  <1>0. Len(s) \in Nat /\ cut \in Nat
    BY MessageIs
  <1>1. r = IF cut < Len(s) /\ s[cut + 1].kind = "result" THEN (IF c > 0 /\ s[c].kind = "call" THEN c - 1 ELSE c)
            ELSE cut
    BY DEF Context!safe_cut
  <1>2. CASE ~(cut < Len(s) /\ s[cut + 1].kind = "result")
    <2>1. r = cut
      BY <1>1, <1>2
    <2> HIDE DEF r
    <2>2. Clean(s, cut)
      BY <1>0, <1>2 DEF Clean
    <2> QED BY <2>1, <2>2 DEF r
  <1>3. CASE cut < Len(s) /\ s[cut + 1].kind = "result"
    <2>1. T \in SUBSET (0..cut) /\ 0 \in T
      BY <1>0
    <2>2. \A k \in T : k = 0 \/ s[k].kind # "result"
      OBVIOUS
    <2>3. \A k \in 0..cut : k \notin T => s[k].kind = "result"
      OBVIOUS
    <2> HIDE DEF T, r
    <2>4. c \in T /\ \A y \in T : y <= c
      BY Zenon, <1>0, <2>1, MaxIs
    <2> HIDE DEF c
    <2>5. c \in 0..cut /\ c + 1 \in 1..Len(s) /\ c \in Nat
      BY <1>0, <1>3, <2>1, <2>4
    <2>6. s[c + 1].kind = "result"
      <3>1. CASE c = cut
        BY <1>3, <3>1
      <3>2. CASE c # cut
        <4>1. c + 1 \in 0..cut /\ c + 1 \notin T
          BY <1>0, <2>4, <2>5, <3>2
        <4> QED BY <2>3, <4>1
      <3> QED BY <3>1, <3>2
    <2>7. c + 1 > 1 /\ s[(c + 1) - 1].kind \in {"call", "result"}
      BY <2>5, <2>6 DEF Whole
    <2>8. (c + 1) - 1 = c /\ c > 0
      BY <2>5, <2>7
    <2>9. s[c].kind = "call"
      BY <2>2, <2>4, <2>7, <2>8
    <2>10. r = c - 1
      BY <1>1, <1>3, <2>8, <2>9
    <2>11. (c - 1) + 1 = c /\ c - 1 \in 0..Len(s)
      BY <1>0, <2>5, <2>8
    <2>12. Clean(s, c - 1)
      BY <2>9, <2>11 DEF Clean
    <2> QED BY <2>10, <2>12 DEF r
  <1> QED BY <1>2, <1>3

\* The kept tail starts at one.
LEMMA StartIs ==
  ASSUME NEW s \in Seq(Messages), Whole(s), NEW recent \in Nat
  PROVE  Clean(s, Context!keep_start(s, recent))
  <1> DEFINE share == Context!Max({1, Budget \div 4})
             T == {n \in 0..Len(s) : /\ n <= recent
                                     /\ \/ n <= 1
                                        \/ Context!request_tokens(SubSeq(s, Len(s) - n + 1, Len(s))) <= share}
             m == Context!Max(T)
  <1>0. Len(s) \in Nat
    BY MessageIs
  <1>1. Context!keep_start(s, recent) = Context!safe_cut(s, Len(s) - m)
    BY DEF Context!keep_start
  <1>2. T \in SUBSET (0..Len(s)) /\ 0 \in T
    BY <1>0
  <1> HIDE DEF T
  <1>3. m \in T
    BY Zenon, <1>0, <1>2, MaxIs
  <1> HIDE DEF m
  <1>4. Len(s) - m \in 0..Len(s)
    BY <1>0, <1>2, <1>3
  <1> QED BY <1>1, <1>4, SafeCutIs

-----------------------------------------------------------------------------
(* What stays whole.                                                       *)

\* Whole conversations one after the other.
LEMMA WholeJoin ==
  ASSUME NEW a \in Seq(Messages), NEW b \in Seq(Messages), Whole(a), Whole(b)
  PROVE  Whole(a \o b)
  <1> DEFINE c == a \o b
             m == Len(a)
             n == Len(b)
  <1>1. m \in Nat /\ n \in Nat
    BY MessageIs
  <1>2. /\ Len(c) = m + n
        /\ \A i \in 1..m + n : c[i] = IF i <= m THEN a[i] ELSE b[i - m]
    BY ConcatProperties
  <1> HIDE DEF c
  <1>3. \A i \in 1..m : i \in 1..m + n /\ c[i] = a[i]
    BY <1>1, <1>2
  <1>4. \A i \in 1..n : m + i \in 1..m + n /\ c[m + i] = b[i]
    <2> SUFFICES ASSUME NEW i \in 1..n PROVE m + i \in 1..m + n /\ c[m + i] = b[i]
      OBVIOUS
    <2>1. m + i \in 1..m + n /\ ~(m + i <= m) /\ (m + i) - m = i
      BY <1>1
    <2> QED BY <1>2, <2>1
  <1>5. ASSUME NEW i \in 1..Len(c)
        PROVE  /\ c[i].kind = "result" => i > 1 /\ c[i - 1].kind \in {"call", "result"}
               /\ c[i].kind = "call" => i < Len(c) /\ c[i + 1].kind = "result"
    <2>1. CASE i <= m
      <3>1. i \in 1..m /\ i \in Nat
        BY <1>1, <1>2, <2>1
      <3>2. ASSUME c[i].kind = "result" PROVE i > 1 /\ c[i - 1].kind \in {"call", "result"}
        <4>1. i > 1 /\ a[i - 1].kind \in {"call", "result"}
          BY <1>3, <3>1, <3>2 DEF Whole
        <4>2. i - 1 \in 1..m
          BY <1>1, <3>1, <4>1
        <4> QED BY <1>3, <4>1, <4>2
      <3>3. ASSUME c[i].kind = "call" PROVE i < Len(c) /\ c[i + 1].kind = "result"
        <4>1. i < m /\ a[i + 1].kind = "result"
          BY <1>3, <3>1, <3>3 DEF Whole
        <4>2. i + 1 \in 1..m /\ i < Len(c)
          BY <1>1, <1>2, <3>1, <4>1
        <4> QED BY <1>3, <4>1, <4>2
      <3> QED BY <3>2, <3>3
    <2>2. CASE i > m
      <3> DEFINE j == i - m
      <3>1. j \in 1..n /\ m + j = i /\ i \in Nat
        BY <1>1, <1>2, <2>2
      <3> HIDE DEF j
      <3>2. c[i] = b[j]
        BY <1>4, <3>1
      <3>3. ASSUME c[i].kind = "result" PROVE i > 1 /\ c[i - 1].kind \in {"call", "result"}
        <4>1. j > 1 /\ b[j - 1].kind \in {"call", "result"}
          BY <3>1, <3>2, <3>3 DEF Whole
        <4>2. j - 1 \in 1..n /\ m + (j - 1) = i - 1 /\ i > 1
          BY <1>1, <3>1, <4>1
        <4>3. c[m + (j - 1)] = b[j - 1]
          BY <1>4, <4>2
        <4> QED BY <4>1, <4>2, <4>3
      <3>4. ASSUME c[i].kind = "call" PROVE i < Len(c) /\ c[i + 1].kind = "result"
        <4>1. j < n /\ b[j + 1].kind = "result"
          BY <3>1, <3>2, <3>4 DEF Whole
        <4>2. j + 1 \in 1..n /\ m + (j + 1) = i + 1 /\ i < Len(c)
          BY <1>1, <1>2, <3>1, <4>1
        <4>3. c[m + (j + 1)] = b[j + 1]
          BY <1>4, <4>2
        <4> QED BY <4>1, <4>2, <4>3
      <3> QED BY <3>3, <3>4
    <2>3. i <= m \/ i > m
      BY <1>1, <1>2
    <2> QED BY <2>1, <2>2, <2>3
  <1>6. Whole(c)
    BY <1>5 DEF Whole
  <1> QED BY <1>6 DEF c

\* What is kept of one from a clean cut on.
LEMMA WholeTail ==
  ASSUME NEW s \in Seq(Messages), Whole(s), NEW c, Clean(s, c)
  PROVE  Whole(SubSeq(s, c + 1, Len(s)))
  <1> DEFINE N == Len(s)
             r == SubSeq(s, c + 1, N)
  <1>0. N \in Nat /\ c \in 0..N /\ c \in Nat /\ c + 1 \in 1..N + 1 /\ N \in 0..N /\ c + 1 <= N + 1
    BY MessageIs DEF Clean
  <1>1. Len(r) = N - (c + 1) + 1 /\ \A i \in 1..N - (c + 1) + 1 : r[i] = s[(c + 1) + i - 1]
    BY <1>0, PartIs
  <1> HIDE DEF r
  <1>2. Len(r) = N - c
    BY <1>0, <1>1
  <1>3. \A i \in 1..N - c : r[i] = s[c + i] /\ c + i \in 1..N
    <2> SUFFICES ASSUME NEW i \in 1..N - c PROVE r[i] = s[c + i] /\ c + i \in 1..N
      OBVIOUS
    <2>1. i \in 1..N - (c + 1) + 1 /\ (c + 1) + i - 1 = c + i /\ c + i \in 1..N
      BY <1>0
    <2> QED BY <1>1, <2>1
  <1>4. ASSUME NEW i \in 1..Len(r), r[i].kind = "result" PROVE i > 1 /\ r[i - 1].kind \in {"call", "result"}
    <2>1. i \in 1..N - c /\ r[i] = s[c + i] /\ c + i \in 1..N
      BY <1>2, <1>3
    <2>2. c + i > 1 /\ s[(c + i) - 1].kind \in {"call", "result"}
      BY <1>4, <2>1 DEF Whole
    <2>3. i # 1
      <3>1. SUFFICES ASSUME i = 1 PROVE FALSE
        OBVIOUS
      <3>2. c < N
        BY <1>0, <2>1, <3>1
      <3> QED BY <1>4, <2>1, <3>1, <3>2 DEF Clean
    <2>4. i - 1 \in 1..N - c /\ c + (i - 1) = (c + i) - 1 /\ i > 1
      BY <1>0, <2>1, <2>3
    <2> QED BY <1>3, <2>2, <2>4
  <1>5. ASSUME NEW i \in 1..Len(r), r[i].kind = "call" PROVE i < Len(r) /\ r[i + 1].kind = "result"
    <2>1. i \in 1..N - c /\ r[i] = s[c + i] /\ c + i \in 1..N
      BY <1>2, <1>3
    <2>2. c + i < N /\ s[(c + i) + 1].kind = "result"
      BY <1>5, <2>1 DEF Whole
    <2>3. i + 1 \in 1..N - c /\ c + (i + 1) = (c + i) + 1 /\ i < N - c
      BY <1>0, <2>1, <2>2
    <2> QED BY <1>2, <1>3, <2>2, <2>3
  <1>6. Whole(r)
    BY <1>4, <1>5 DEF Whole
  <1> QED BY <1>6 DEF r

\* What is no checkpoint of one.
LEMMA WholeLeaves ==
  ASSUME NEW s \in Seq(Messages), Whole(s), NEW r \in Seq(Messages), Leaves(r, s, Len(s))
  PROVE  Whole(r)
  <1> DEFINE N == Len(s)
             L == Len(r)
  <1>0. N \in Nat /\ L \in Nat
    BY MessageIs
  <1>1. PICK f : /\ Places(r, s, f) /\ \A a \in 1..L : r[a].kind # "summary"
                 /\ \A j \in 1..N : s[j].kind # "summary" => \E a \in 1..L : f[a] = j
    BY DEF Leaves
  <1>2. \A a \in 1..L : f[a] \in 1..N /\ r[a] = s[f[a]]
    BY <1>1 DEF Places
  <1>3. \A a, b \in 1..L : a < b => f[a] < f[b]
    BY <1>1 DEF Places
  <1>4. \A a, b \in 1..L : f[a] = f[b] + 1 => a = b + 1
    <2> SUFFICES ASSUME NEW a \in 1..L, NEW b \in 1..L, f[a] = f[b] + 1 PROVE a = b + 1
      OBVIOUS
    <2>1. f[a] \in Nat /\ f[b] \in Nat
      BY <1>2
    <2>2. ~(a < b) /\ a # b
      BY <1>3, <2>1
    <2>3. ~(b + 1 < a)
      <3> SUFFICES ASSUME b + 1 < a PROVE FALSE
        OBVIOUS
      <3>1. b + 1 \in 1..L /\ b < b + 1
        BY <1>0
      <3>2. f[b + 1] \in Nat /\ f[b] < f[b + 1] /\ f[b + 1] < f[a]
        BY <1>2, <1>3, <3>1
      <3> QED BY <2>1, <3>2
    <2> QED BY <1>0, <2>2, <2>3
  <1>5. ASSUME NEW i \in 1..L, r[i].kind = "result" PROVE i > 1 /\ r[i - 1].kind \in {"call", "result"}
    <2>1. f[i] > 1 /\ s[f[i] - 1].kind \in {"call", "result"} /\ f[i] \in 1..N
      BY <1>2, <1>5 DEF Whole
    <2>2. f[i] - 1 \in 1..N
      BY <1>0, <2>1
    <2>3. PICK b \in 1..L : f[b] = f[i] - 1
      BY <1>1, <2>1, <2>2
    <2>4. f[i] = f[b] + 1
      BY <2>1, <2>3
    <2>5. i = b + 1
      BY <1>4, <2>4
    <2>6. i > 1 /\ i - 1 = b
      BY <2>5
    <2>7. r[b] = s[f[i] - 1]
      BY <1>2, <2>3
    <2> QED BY <2>1, <2>6, <2>7
  <1>6. ASSUME NEW i \in 1..L, r[i].kind = "call" PROVE i < L /\ r[i + 1].kind = "result"
    <2>1. f[i] < N /\ s[f[i] + 1].kind = "result" /\ f[i] \in 1..N
      BY <1>2, <1>6 DEF Whole
    <2>2. f[i] + 1 \in 1..N
      BY <1>0, <2>1
    <2>3. PICK b \in 1..L : f[b] = f[i] + 1
      BY <1>1, <2>1, <2>2
    <2>5. b = i + 1
      BY <1>4, <2>3
    <2>6. i < L
      BY <1>0, <2>5
    <2>7. r[b] = s[f[i] + 1]
      BY <1>2, <2>3
    <2> QED BY <2>1, <2>5, <2>6, <2>7
  <1> QED BY <1>5, <1>6 DEF Whole

-----------------------------------------------------------------------------
(* What a pass makes of a conversation.                                    *)

\* The members of a sequence.
Members(s) == {s[i] : i \in 1..Len(s)}

\* The members of a part.
LEMMA PartMembers ==
  ASSUME NEW s \in Seq(Messages), NEW a \in 1..Len(s) + 1, NEW b \in 0..Len(s), a <= b + 1
  PROVE  Members(SubSeq(s, a, b)) = {s[i] : i \in a..b}
  <1> DEFINE r == SubSeq(s, a, b)
  <1>0. a \in Int /\ b \in Int
    BY MessageIs
  <1>1. Len(r) = b - a + 1 /\ \A i \in 1..b - a + 1 : r[i] = s[a + i - 1] /\ a + i - 1 \in a..b
    BY PartIs
  <1> HIDE DEF r
  <1>2. \A i \in 1..Len(r) : r[i] \in {s[k] : k \in a..b}
    BY Zenon, <1>1
  <1>3. ASSUME NEW k \in a..b PROVE s[k] \in Members(r)
    <2>1. k - a + 1 \in 1..b - a + 1 /\ a + (k - a + 1) - 1 = k
      BY <1>0
    <2>2. r[k - a + 1] = s[k]
      BY <1>1, <2>1
    <2> QED BY Zenon, <1>1, <2>1, <2>2 DEF Members
  <1>4. Members(r) = {s[i] : i \in a..b}
    BY Zenon, <1>2, <1>3 DEF Members
  <1> QED BY <1>4 DEF r

\* The members of two sequences.
LEMMA JoinMembers ==
  ASSUME NEW a \in Seq(Messages), NEW b \in Seq(Messages)
  PROVE  Members(a \o b) = Members(a) \cup Members(b)
  <1> DEFINE c == a \o b
             m == Len(a)
             n == Len(b)
  <1>1. m \in Nat /\ n \in Nat
    BY MessageIs
  <1>2. Len(c) = m + n /\ \A i \in 1..m + n : c[i] = IF i <= m THEN a[i] ELSE b[i - m]
    BY ConcatProperties
  <1> HIDE DEF c
  <1>3. ASSUME NEW i \in 1..m PROVE a[i] \in Members(c)
    <2>1. i \in 1..m + n /\ c[i] = a[i]
      BY <1>1, <1>2
    <2> QED BY <1>2, <2>1 DEF Members
  <1>4. ASSUME NEW i \in 1..n PROVE b[i] \in Members(c)
    <2>1. m + i \in 1..m + n /\ ~(m + i <= m) /\ (m + i) - m = i
      BY <1>1
    <2>2. c[m + i] = b[i]
      BY <1>2, <2>1
    <2> QED BY Zenon, <1>2, <2>1, <2>2 DEF Members
  <1>5. ASSUME NEW i \in 1..m + n PROVE c[i] \in Members(a) \cup Members(b)
    <2>1. CASE i <= m
      <3>1. i \in 1..m /\ c[i] = a[i]
        BY <1>1, <1>2, <2>1
      <3> QED BY <3>1 DEF Members
    <2>2. CASE ~(i <= m)
      <3>1. i - m \in 1..n /\ c[i] = b[i - m]
        BY <1>1, <1>2, <2>2
      <3> QED BY <3>1 DEF Members
    <2> QED BY <2>1, <2>2
  <1>6. Members(c) = Members(a) \cup Members(b)
    BY ZenonT(60), <1>2, <1>3, <1>4, <1>5 DEF Members
  <1> QED BY <1>6 DEF c

\* What without_summaries leaves of the members.
LEMMA WithoutMembers ==
  ASSUME NEW s \in Seq(Messages)
  PROVE  Context!Ids(Context!without_summaries(s)) = {m.id : m \in {x \in Members(s) : x.kind # "summary"}}
  <1> DEFINE r == Context!without_summaries(s)
  <1>1. r \in Seq(Messages) /\ Leaves(r, s, Len(s))
    BY WithoutIs
  <1> HIDE DEF r
  <1>0. Len(r) \in Nat /\ DOMAIN r = 1..Len(r)
    BY <1>1, MessageIs
  <1>2. PICK f : /\ Places(r, s, f) /\ \A a \in 1..Len(r) : r[a].kind # "summary"
                 /\ \A j \in 1..Len(s) : s[j].kind # "summary" => \E a \in 1..Len(r) : f[a] = j
    BY <1>1 DEF Leaves
  <1>3. \A a \in 1..Len(r) : f[a] \in 1..Len(s) /\ r[a] = s[f[a]]
    BY <1>2 DEF Places
  <1>4. {r[i] : i \in 1..Len(r)} = {x \in Members(s) : x.kind # "summary"}
    <2>1. \A i \in 1..Len(r) : r[i] \in Members(s) /\ r[i].kind # "summary"
      BY <1>2, <1>3 DEF Members
    <2>2. ASSUME NEW x \in Members(s), x.kind # "summary" PROVE \E i \in 1..Len(r) : r[i] = x
      <3>1. PICK j \in 1..Len(s) : s[j] = x
        BY DEF Members
      <3>2. PICK a \in 1..Len(r) : f[a] = j
        BY <1>2, <2>2, <3>1
      <3> QED BY <1>3, <3>1, <3>2
    <2> QED BY <2>1, <2>2
  <1>5. Context!Ids(r) = {m.id : m \in {r[i] : i \in 1..Len(r)}}
    BY <1>0 DEF Context!Ids
  <1> QED BY <1>4, <1>5 DEF r

\* A selection of a whole conversation that is whole.
Kept(k, s) == Selection(k, s) /\ Whole(k)

\* What is kept from a clean cut on.
LEMMA TailKept ==
  ASSUME NEW s \in Seq(Messages), Whole(s), NEW c, Clean(s, c)
  PROVE  Kept(SubSeq(s, c + 1, Len(s)), s)
  <1>1. c + 1 \in 1..Len(s) + 1 /\ Len(s) \in 0..Len(s) /\ c + 1 <= Len(s) + 1
    BY MessageIs DEF Clean
  <1>2. Selection(SubSeq(s, c + 1, Len(s)), s)
    BY <1>1, PartIs
  <1> QED BY <1>2, WholeTail DEF Kept

\* What is kept of it with a request before it.
LEMMA RequestKept ==
  ASSUME NEW s \in Seq(Messages), Whole(s), NEW c, Clean(s, c), NEW u \in 1..c, s[u].kind = "user"
  PROVE  Kept(<<s[u]>> \o SubSeq(s, c + 1, Len(s)), s)
  <1> DEFINE N == Len(s)
             t == SubSeq(s, c + 1, N)
             h == <<s[u]>>
             r == h \o t
  <1>0. N \in Nat /\ c \in Nat /\ c <= N /\ u \in 1..N /\ u <= c
    BY MessageIs DEF Clean
  <1>1. /\ t \in Seq(Messages) /\ Len(t) = N - c
        /\ \A i \in 1..N - c : t[i] = s[c + i] /\ c + i \in 1..N
    <2>1. c + 1 \in 1..N + 1 /\ N \in 0..N /\ c + 1 <= N + 1
      BY <1>0
    <2>2. /\ t \in Seq(Messages) /\ Len(t) = N - (c + 1) + 1
          /\ \A i \in 1..N - (c + 1) + 1 : t[i] = s[(c + 1) + i - 1]
      BY <2>1, PartIs
    <2> HIDE DEF t
    <2>3. Len(t) = N - c
      BY <1>0, <2>2
    <2>4. ASSUME NEW i \in 1..N - c PROVE t[i] = s[c + i] /\ c + i \in 1..N
      <3>1. i \in 1..N - (c + 1) + 1 /\ (c + 1) + i - 1 = c + i /\ c + i \in 1..N
        BY <1>0
      <3> QED BY <2>2, <3>1
    <2> QED BY <2>2, <2>3, <2>4
  <1>2. Whole(t)
    BY WholeTail
  <1> HIDE DEF t
  <1>3. h \in Seq(Messages) /\ Len(h) = 1 /\ h[1] = s[u] /\ s[u] \in Messages
    BY <1>0, MessageIs
  <1>4. Whole(h)
    BY <1>3 DEF Whole
  <1> HIDE DEF h
  <1>5. Whole(r)
    BY <1>1, <1>2, <1>3, <1>4, WholeJoin
  <1>6. /\ r \in Seq(Messages) /\ Len(r) = 1 + (N - c)
        /\ \A i \in 1..1 + (N - c) : r[i] = IF i <= 1 THEN h[i] ELSE t[i - 1]
    <2>1. /\ r \in Seq(Messages) /\ Len(r) = Len(h) + Len(t)
          /\ \A i \in 1..Len(h) + Len(t) : r[i] = IF i <= Len(h) THEN h[i] ELSE t[i - Len(h)]
      BY Zenon, <1>1, <1>3, ConcatProperties
    <2> HIDE DEF r
    <2> QED BY <1>1, <1>3, <2>1
  <1> HIDE DEF r
  <1> DEFINE f == [i \in 1..Len(r) |-> IF i = 1 THEN u ELSE c + (i - 1)]
  <1>7. \A i \in 1..Len(r) : (i = 1 \/ i - 1 \in 1..N - c) /\ (i # 1 => ~(i <= 1))
    BY <1>0, <1>6
  <1>8. \A i \in 1..Len(r) : f[i] \in 1..N
    BY <1>0, <1>1, <1>7
  <1>9. \A i \in 1..Len(r) : r[i] = s[f[i]]
    <2> SUFFICES ASSUME NEW i \in 1..Len(r) PROVE r[i] = s[f[i]]
      OBVIOUS
    <2>1. CASE i = 1
      BY <1>3, <1>6, <2>1
    <2>2. CASE i # 1
      <3>1. i - 1 \in 1..N - c /\ ~(i <= 1)
        BY <1>7, <2>2
      <3>2. r[i] = t[i - 1] /\ t[i - 1] = s[c + (i - 1)]
        BY <1>1, <1>6, <3>1
      <3> QED BY <2>2, <3>2
    <2> QED BY <2>1, <2>2
  <1>10. \A i, j \in 1..Len(r) : i < j => f[i] < f[j]
    BY <1>0, <1>6
  <1>11. f \in [1..Len(r) -> 1..N]
    <2>1. f = [i \in 1..Len(r) |-> f[i]]
      OBVIOUS
    <2> HIDE DEF f
    <2> QED BY <1>8, <2>1
  <1> HIDE DEF f
  <1>12. Places(r, s, f)
    BY <1>9, <1>10, <1>11 DEF Places
  <1>13. Kept(r, s)
    BY <1>5, <1>6, <1>12 DEF Kept, Selection
  <1> QED BY <1>13 DEF r, h, t

\* What is left out of a conversation up to p is what goes, but its latest request.
Goes(c, s, p, u) == c \in Seq(Messages) /\ Members(c) = {s[i] : i \in {j \in 1..p : j # u}}

\* Where a pass cuts a conversation.
LEMMA CutIs ==
  ASSUME NEW s \in Seq(Messages), Whole(s), NEW recent \in Nat, NEW scope,
         NEW u, u = Context!latest_user_index(s)
  PROVE  /\ Context!prefix_count(scope, s, recent) \in 0..Len(s)
         /\ \E c, k : /\ Goes(c, s, Context!prefix_count(scope, s, recent), u) /\ Kept(k, s)
                      /\ Context!Parts(scope, s, recent).compacted = Context!without_summaries(c)
                      /\ Context!Parts(scope, s, recent).keep = Context!without_summaries(k)
  <1> DEFINE N == Len(s)
             st == Context!keep_start(s, recent)
             p == Context!prefix_count(scope, s, recent)
             cut == IF scope = "history" /\ u = 0 THEN [compacted |-> s, keep |-> <<>>]
                    ELSE Context!split(s, u, recent)
  <1>0. N \in Nat /\ Clean(s, st) /\ st \in 0..N /\ st \in Nat
    <2>1. Clean(s, st) /\ N \in Nat
      BY StartIs, MessageIs
    <2> HIDE DEF st
    <2> QED BY <2>1 DEF Clean
  <1>1. u \in 0..N /\ (u # 0 => u \in 1..N /\ s[u].kind = "user")
    BY LatestIs
  <1>2. p = IF scope = "history" /\ u = 0 THEN N ELSE st
    BY DEF Context!prefix_count
  <1>3. /\ Context!Parts(scope, s, recent).compacted = Context!without_summaries(cut.compacted)
        /\ Context!Parts(scope, s, recent).keep = Context!without_summaries(cut.keep)
    BY DEF Context!Parts
  <1>4. p \in 0..N
    <2> HIDE DEF p, st
    <2> QED BY <1>0, <1>2
  <1>5. SUFFICES ASSUME TRUE PROVE Goes(cut.compacted, s, p, u) /\ Kept(cut.keep, s)
    BY <1>3, <1>4
  <1>6. CASE scope = "history" /\ u = 0
    <2>1. cut.compacted = s /\ cut.keep = <<>> /\ p = N
      BY <1>2, <1>6
    <2>2. Goes(s, s, N, 0)
      <3>1. \A i \in 1..N : i # 0
        BY <1>0
      <3> QED BY <3>1 DEF Goes, Members
    <2>3. Kept(<<>>, s)
      <3> DEFINE f == [a \in 1..0 |-> 1]
      <3>1. <<>> \in Seq(Messages) /\ Len(<<>>) = 0 /\ 1..0 = {}
        OBVIOUS
      <3>2. Places(<<>>, s, f)
        BY <3>1 DEF Places
      <3>3. Whole(<<>>)
        BY <3>1 DEF Whole
      <3> HIDE DEF f
      <3> QED BY <3>1, <3>2, <3>3 DEF Kept, Selection
    <2> HIDE DEF cut, p
    <2> QED BY <1>6, <2>1, <2>2, <2>3
  <1>7. CASE ~(scope = "history" /\ u = 0)
    <2>1. cut = Context!split(s, u, recent) /\ p = st
      BY <1>2, <1>7
    <2>2. CASE st < u \/ u = 0
      <3>1. cut.compacted = SubSeq(s, 1, st) /\ cut.keep = SubSeq(s, st + 1, N)
        BY Zenon, <2>1, <2>2 DEF Context!split
      <3> HIDE DEF cut, st
      <3>2. 1 \in 1..N + 1 /\ 1 <= st + 1
        BY <1>0
      <3>3. SubSeq(s, 1, st) \in Seq(Messages) /\ Members(SubSeq(s, 1, st)) = {s[i] : i \in 1..st}
        BY Zenon, <1>0, <3>2, PartIs, PartMembers
      <3>4. {j \in 1..st : j # u} = 1..st
        BY <1>0, <1>1, <2>2
      <3>5. Goes(SubSeq(s, 1, st), s, st, u)
        BY <3>3, <3>4 DEF Goes
      <3>6. Kept(SubSeq(s, st + 1, N), s)
        BY <1>0, TailKept
      <3> HIDE DEF p
      <3> QED BY <2>1, <3>1, <3>5, <3>6
    <2>3. CASE ~(st < u \/ u = 0)
      <3>1. /\ cut.compacted = SubSeq(s, 1, u - 1) \o SubSeq(s, u + 1, st)
            /\ cut.keep = <<s[u]>> \o SubSeq(s, st + 1, N)
        BY Zenon, <2>1, <2>3 DEF Context!split
      <3> HIDE DEF cut, st
      <3>2. u \in 1..st /\ s[u].kind = "user"
        BY <1>0, <1>1, <2>3
      <3>3. /\ 1 \in 1..N + 1 /\ 1 <= (u - 1) + 1 /\ u - 1 \in 0..N
            /\ u + 1 \in 1..N + 1 /\ u + 1 <= st + 1
        BY <1>0, <3>2
      <3>4. /\ SubSeq(s, 1, u - 1) \in Seq(Messages)
            /\ Members(SubSeq(s, 1, u - 1)) = {s[i] : i \in 1..u - 1}
        BY <3>3, PartIs, PartMembers
      <3>5. /\ SubSeq(s, u + 1, st) \in Seq(Messages)
            /\ Members(SubSeq(s, u + 1, st)) = {s[i] : i \in u + 1..st}
        BY <1>0, <3>3, PartIs, PartMembers
      <3>6. {j \in 1..st : j # u} = (1..u - 1) \cup (u + 1..st)
        BY <1>0, <3>2
      <3> DEFINE c == SubSeq(s, 1, u - 1) \o SubSeq(s, u + 1, st)
      <3>7. c \in Seq(Messages) /\ Members(c) = Members(SubSeq(s, 1, u - 1)) \cup Members(SubSeq(s, u + 1, st))
        BY Zenon, <3>4, <3>5, JoinMembers, ConcatProperties
      <3> HIDE DEF c
      <3>8. Members(c) = {s[i] : i \in {j \in 1..st : j # u}}
        BY <3>4, <3>5, <3>6, <3>7
      <3>9. Goes(c, s, st, u)
        BY <3>7, <3>8 DEF Goes
      <3>10. Kept(<<s[u]>> \o SubSeq(s, st + 1, N), s)
        BY <1>0, <3>2, RequestKept
      <3> HIDE DEF p
      <3> QED BY <2>1, <3>1, <3>9, <3>10 DEF c
    <2> QED BY <2>2, <2>3
  <1> QED BY <1>6, <1>7

\* Sequence r is k with a checkpoint after its first p members.
Inserted(r, k, p) ==
    /\ p \in 0..Len(k) /\ r \in Seq(Messages) /\ Len(r) = Len(k) + 1 /\ r[p + 1] = Context!Checkpoint
    /\ \A i \in 1..Len(k) : r[IF i <= p THEN i ELSE i + 1] = k[i]

\* A checkpoint is a message.
LEMMA CheckpointIs ==
  /\ Context!Checkpoint \in Messages /\ Context!Checkpoint.kind = "summary" /\ Context!Checkpoint.id = 0
  BY DEF Context!Checkpoint, Messages, Context!Kinds

\* The members of k and where they are.
LEMMA InsertedIs ==
  ASSUME NEW k \in Seq(Messages), NEW r, NEW p, Inserted(r, k, p)
  PROVE  \A i \in 1..Len(r) : \/ i = p + 1 /\ r[i].kind = "summary" /\ r[i].id = 0
                              \/ i \in 1..p /\ i \in 1..Len(k) /\ r[i] = k[i]
                              \/ i > p + 1 /\ i - 1 \in 1..Len(k) /\ r[i] = k[i - 1]
  <1>0. Len(k) \in Nat /\ p \in Nat /\ p <= Len(k) /\ Len(r) = Len(k) + 1
    BY MessageIs DEF Inserted
  <1> SUFFICES ASSUME NEW i \in 1..Len(r)
               PROVE  \/ i = p + 1 /\ r[i].kind = "summary" /\ r[i].id = 0
                      \/ i \in 1..p /\ i \in 1..Len(k) /\ r[i] = k[i]
                      \/ i > p + 1 /\ i - 1 \in 1..Len(k) /\ r[i] = k[i - 1]
    OBVIOUS
  <1>1. CASE i = p + 1
    BY <1>1, CheckpointIs DEF Inserted
  <1>2. CASE i < p + 1
    <2>1. i \in 1..p /\ i \in 1..Len(k) /\ i <= p
      BY <1>0, <1>2
    <2> QED BY <2>1 DEF Inserted
  <1>3. CASE i > p + 1
    <2>1. i - 1 \in 1..Len(k) /\ ~(i - 1 <= p) /\ (i - 1) + 1 = i
      BY <1>0, <1>3
    <2>2. r[(i - 1) + 1] = k[i - 1]
      BY Zenon, <2>1 DEF Inserted
    <2> QED BY <1>3, <2>1, <2>2
  <1> QED BY <1>0, <1>1, <1>2, <1>3

\* A checkpoint takes nothing from what a sequence is.
LEMMA InsertKeeps ==
  ASSUME NEW k \in Seq(Messages), NEW r, NEW p, Inserted(r, k, p)
  PROVE  /\ Distinct(k) => Distinct(r)
         /\ \A n : Numbered(k, n) => Numbered(r, n)
         /\ \A t : Apart(k, t) => Apart(r, t)
         /\ \A t : Apart(t, k) => Apart(t, r)
  <1> DEFINE g == [i \in 1..Len(r) |-> IF i <= p THEN i ELSE i - 1]
  <1>0. Len(k) \in Nat /\ p \in Nat /\ p <= Len(k) /\ Len(r) = Len(k) + 1
    BY MessageIs DEF Inserted
  <1>1. \A i \in 1..Len(r) : IF r[i].kind = "summary" /\ i = p + 1 THEN r[i].id = 0
                             ELSE i # p + 1 /\ g[i] \in 1..Len(k) /\ r[i] = k[g[i]]
    <2> SUFFICES ASSUME NEW i \in 1..Len(r)
                 PROVE  IF r[i].kind = "summary" /\ i = p + 1 THEN r[i].id = 0
                        ELSE i # p + 1 /\ g[i] \in 1..Len(k) /\ r[i] = k[g[i]]
      OBVIOUS
    <2>1. CASE i = p + 1 /\ r[i].kind = "summary" /\ r[i].id = 0
      BY <2>1
    <2>2. CASE i \in 1..p /\ i \in 1..Len(k) /\ r[i] = k[i]
      <3>1. i # p + 1 /\ g[i] = i
        BY <1>0, <2>2
      <3> QED BY <2>2, <3>1
    <2>3. CASE i > p + 1 /\ i - 1 \in 1..Len(k) /\ r[i] = k[i - 1]
      <3>1. i # p + 1 /\ g[i] = i - 1
        BY <1>0, <2>3
      <3> QED BY <2>3, <3>1
    <2> QED BY <2>1, <2>2, <2>3, InsertedIs
  <1>2. \A i, j \in 1..Len(r) : i # p + 1 /\ j # p + 1 /\ g[i] = g[j] => i = j
    BY <1>0
  <1> HIDE DEF g
  <1>3. \A i \in 1..Len(r) : r[i].kind # "summary" => i # p + 1 /\ g[i] \in 1..Len(k) /\ r[i] = k[g[i]]
    BY <1>1
  <1>4. Distinct(k) => Distinct(r)
    BY ONLY <1>2, <1>3 DEF Distinct
  <1>5. ASSUME NEW n, Numbered(k, n) PROVE Numbered(r, n)
    BY ONLY <1>1, <1>5 DEF Numbered
  <1>6. ASSUME NEW t, Apart(k, t) PROVE Apart(r, t)
    BY ONLY <1>3, <1>6 DEF Apart
  <1>7. ASSUME NEW t, Apart(t, k) PROVE Apart(t, r)
    BY ONLY <1>3, <1>7 DEF Apart
  <1> QED BY <1>4, <1>5, <1>6, <1>7

\* Where no exchange is split, one put in leaves it whole.
LEMMA InsertWhole ==
  ASSUME NEW k \in Seq(Messages), Whole(k), NEW r, NEW p, Inserted(r, k, p), Clean(k, p)
  PROVE  Whole(r)
  <1>0. Len(k) \in Nat /\ p \in Nat /\ p <= Len(k) /\ Len(r) = Len(k) + 1
    BY MessageIs DEF Inserted
  <1>1. \A i \in 1..Len(k) : /\ i <= p => r[i] = k[i] /\ i \in 1..Len(r)
                             /\ i > p => r[i + 1] = k[i] /\ i + 1 \in 1..Len(r)
    <2> SUFFICES ASSUME NEW i \in 1..Len(k)
                 PROVE  /\ i <= p => r[i] = k[i] /\ i \in 1..Len(r)
                        /\ i > p => r[i + 1] = k[i] /\ i + 1 \in 1..Len(r)
      OBVIOUS
    <2>1. r[IF i <= p THEN i ELSE i + 1] = k[i]
      BY DEF Inserted
    <2> QED BY <1>0, <2>1
  <1>2. ASSUME NEW i \in 1..Len(r), r[i].kind = "result" PROVE i > 1 /\ r[i - 1].kind \in {"call", "result"}
    <2>1. CASE i \in 1..p /\ i \in 1..Len(k) /\ r[i] = k[i]
      <3>1. i > 1 /\ k[i - 1].kind \in {"call", "result"}
        BY <1>2, <2>1 DEF Whole
      <3>2. i - 1 \in 1..Len(k) /\ i - 1 <= p
        BY <1>0, <2>1, <3>1
      <3> QED BY <1>1, <3>1, <3>2
    <2>2. CASE i > p + 1 /\ i - 1 \in 1..Len(k) /\ r[i] = k[i - 1]
      <3>1. i - 1 > 1 /\ k[(i - 1) - 1].kind \in {"call", "result"}
        BY <1>2, <2>2 DEF Whole
      <3>2. i # p + 2
        <4> SUFFICES ASSUME i = p + 2 PROVE FALSE
          OBVIOUS
        <4>1. p < Len(k) /\ i - 1 = p + 1
          BY <1>0, <2>2
        <4>2. k[p + 1].kind # "result"
          BY <4>1 DEF Clean
        <4> QED BY <1>2, <2>2, <4>1, <4>2
      <3>3. (i - 1) - 1 \in 1..Len(k) /\ (i - 1) - 1 > p /\ ((i - 1) - 1) + 1 = i - 1 /\ i > 1
        BY <1>0, <2>2, <3>1, <3>2
      <3>4. r[((i - 1) - 1) + 1] = k[(i - 1) - 1]
        BY <1>1, <3>3
      <3> QED BY <3>1, <3>3, <3>4
    <2> QED BY <1>2, <2>1, <2>2, InsertedIs
  <1>3. ASSUME NEW i \in 1..Len(r), r[i].kind = "call" PROVE i < Len(r) /\ r[i + 1].kind = "result"
    <2>1. CASE i \in 1..p /\ i \in 1..Len(k) /\ r[i] = k[i]
      <3>1. i < Len(k) /\ k[i + 1].kind = "result"
        BY <1>3, <2>1 DEF Whole
      <3>2. i # p
        <4> SUFFICES ASSUME i = p PROVE FALSE
          OBVIOUS
        <4>1. k[p + 1].kind # "result"
          BY <3>1 DEF Clean
        <4> QED BY <3>1, <4>1
      <3>3. i + 1 \in 1..Len(k) /\ i + 1 <= p /\ i < Len(r)
        BY <1>0, <2>1, <3>1, <3>2
      <3> QED BY <1>1, <3>1, <3>3
    <2>2. CASE i > p + 1 /\ i - 1 \in 1..Len(k) /\ r[i] = k[i - 1]
      <3>1. i - 1 < Len(k) /\ k[(i - 1) + 1].kind = "result"
        BY <1>3, <2>2 DEF Whole
      <3>2. (i - 1) + 1 = i /\ i \in 1..Len(k) /\ i > p /\ i < Len(r)
        BY <1>0, <2>2, <3>1
      <3>3. r[i + 1] = k[i]
        BY <1>1, <3>2
      <3> QED BY <3>1, <3>2, <3>3
    <2> QED BY <1>3, <2>1, <2>2, InsertedIs
  <1> QED BY <1>2, <1>3 DEF Whole

\* Where a pass puts its checkpoint.
LEMMA RebuiltIs ==
  ASSUME NEW k \in Seq(Messages), Whole(k), NEW scope
  PROVE  \E p : Inserted(Context!Rebuilt(scope, k), k, p) /\ Clean(k, p)
  <1> DEFINE N == Len(k)
             u == Context!latest_user_index(k)
             C == Context!Checkpoint
             ix == IF u = 0 THEN N ELSE u
             r == Context!Rebuilt(scope, k)
             one == <<C>>
  <1>0. N \in Nat
    BY MessageIs
  <1>1. u \in 0..N /\ (u # 0 => u \in 1..N /\ k[u].kind = "user")
    BY LatestIs
  <1>2. r = IF scope = "history" THEN one \o k ELSE SubSeq(k, 1, ix) \o one \o SubSeq(k, ix + 1, N)
    BY DEF Context!Rebuilt
  <1>3. one \in Seq(Messages) /\ Len(one) = 1 /\ one[1] = C
    BY CheckpointIs
  <1> HIDE DEF one, C, r, u
  <1>4. CASE scope = "history"
    <2>1. /\ one \o k \in Seq(Messages) /\ Len(one \o k) = 1 + N
          /\ \A i \in 1..1 + N : (one \o k)[i] = IF i <= 1 THEN one[i] ELSE k[i - 1]
      <3>1. /\ one \o k \in Seq(Messages) /\ Len(one \o k) = Len(one) + N
            /\ \A i \in 1..Len(one) + N : (one \o k)[i] = IF i <= Len(one) THEN one[i] ELSE k[i - Len(one)]
        BY Zenon, <1>3, ConcatProperties
      <3> QED BY <1>3, <3>1
    <2>2. r = one \o k
      BY <1>2, <1>4
    <2>3. r \in Seq(Messages) /\ Len(r) = N + 1 /\ r[1] = C
      BY <1>0, <1>3, <2>1, <2>2
    <2>4. ASSUME NEW i \in 1..N PROVE r[i + 1] = k[i] /\ ~(i <= 0)
      <3>1. i + 1 \in 1..1 + N /\ ~(i + 1 <= 1) /\ (i + 1) - 1 = i
        BY <1>0
      <3>2. r[i + 1] = k[(i + 1) - 1]
        BY <2>1, <2>2, <3>1
      <3> QED BY <3>1, <3>2
    <2>5. 0 \in 0..N /\ 0 + 1 = 1
      BY <1>0
    <2>6. Inserted(r, k, 0)
      BY <2>3, <2>4, <2>5 DEF Inserted, C
    <2>7. Clean(k, 0)
      <3>1. 0 < N => 1 \in 1..N /\ ~(1 > 1)
        BY <1>0
      <3>2. 0 < N => k[1].kind # "result"
        BY <3>1 DEF Whole
      <3> QED BY <2>5, <3>2 DEF Clean
    <2> QED BY <2>6, <2>7 DEF r
  <1>5. CASE scope # "history"
    <2> DEFINE a == SubSeq(k, 1, ix)
               b == SubSeq(k, ix + 1, N)
    <2>0. ix \in 0..N /\ ix \in Nat /\ ix <= N /\ ix + 1 \in 1..N + 1
      BY <1>0, <1>1
    <2>1. a \in Seq(Messages) /\ Len(a) = ix /\ \A i \in 1..ix : a[i] = k[i]
      <3>1. 1 \in 1..N + 1 /\ 1 <= ix + 1 /\ ix - 1 + 1 = ix /\ \A i \in 1..ix : 1 + i - 1 = i
        BY <1>0, <2>0
      <3> HIDE DEF ix
      <3>2. /\ a \in Seq(Messages) /\ Len(a) = ix - 1 + 1
            /\ \A i \in 1..ix - 1 + 1 : a[i] = k[1 + i - 1]
        BY <2>0, <3>1, PartIs
      <3> HIDE DEF a
      <3> QED BY <3>1, <3>2
    <2>2. b \in Seq(Messages) /\ Len(b) = N - ix /\ \A i \in 1..N - ix : b[i] = k[ix + i]
      <3> HIDE DEF ix
      <3>1. /\ N \in 0..N /\ ix + 1 <= N + 1 /\ N - (ix + 1) + 1 = N - ix
            /\ \A i \in 1..N - ix : (ix + 1) + i - 1 = ix + i
        BY <1>0, <2>0
      <3>2. /\ b \in Seq(Messages) /\ Len(b) = N - (ix + 1) + 1
            /\ \A i \in 1..N - (ix + 1) + 1 : b[i] = k[(ix + 1) + i - 1]
        BY Zenon, <2>0, <3>1, PartIs
      <3> HIDE DEF b
      <3> QED BY SMTT(40), <3>1, <3>2
    <2>3. r = (a \o one) \o b
      BY Zenon, <1>2, <1>5
    <2> HIDE DEF a, b, ix
    <2> DEFINE q == a \o one
    <2>4. q \in Seq(Messages) /\ Len(q) = ix + 1 /\ \A i \in 1..ix + 1 : q[i] = IF i <= ix THEN a[i] ELSE one[i - ix]
      <3>1. /\ q \in Seq(Messages) /\ Len(q) = Len(a) + Len(one)
            /\ \A i \in 1..Len(a) + Len(one) : q[i] = IF i <= Len(a) THEN a[i] ELSE one[i - Len(a)]
        BY Zenon, <1>3, <2>1, ConcatProperties
      <3> HIDE DEF q
      <3> QED BY <1>3, <2>1, <3>1
    <2> HIDE DEF q
    <2>5. /\ r \in Seq(Messages) /\ Len(r) = (ix + 1) + (N - ix)
          /\ \A i \in 1..(ix + 1) + (N - ix) : r[i] = IF i <= ix + 1 THEN q[i] ELSE b[i - (ix + 1)]
      <3>1. /\ q \o b \in Seq(Messages) /\ Len(q \o b) = Len(q) + Len(b)
            /\ \A i \in 1..Len(q) + Len(b) : (q \o b)[i] = IF i <= Len(q) THEN q[i] ELSE b[i - Len(q)]
        BY Zenon, <2>2, <2>4, ConcatProperties
      <3>2. r = q \o b
        BY <2>3 DEF q
      <3> QED BY <2>2, <2>4, <3>1, <3>2
    <2>6. Len(r) = N + 1
      BY <1>0, <2>0, <2>5
    <2>7. r[ix + 1] = C
      <3>1. ix + 1 \in 1..(ix + 1) + (N - ix) /\ ix + 1 \in 1..ix + 1 /\ ~(ix + 1 <= ix) /\ (ix + 1) - ix = 1
        BY <1>0, <2>0
      <3>2. r[ix + 1] = q[ix + 1] /\ q[ix + 1] = one[1]
        BY <2>0, <2>4, <2>5, <3>1
      <3> QED BY <1>3, <3>2
    <2>8. ASSUME NEW i \in 1..N PROVE r[IF i <= ix THEN i ELSE i + 1] = k[i]
      <3>1. CASE i <= ix
        <4>1. i \in 1..(ix + 1) + (N - ix) /\ i \in 1..ix + 1 /\ i <= ix + 1 /\ i \in 1..ix
          BY <1>0, <2>0, <3>1
        <4>2. r[i] = q[i] /\ q[i] = a[i] /\ a[i] = k[i]
          BY <2>1, <2>4, <2>5, <3>1, <4>1
        <4> QED BY <3>1, <4>2
      <3>2. CASE ~(i <= ix)
        <4>1. /\ i + 1 \in 1..(ix + 1) + (N - ix) /\ ~(i + 1 <= ix + 1) /\ (i + 1) - (ix + 1) = i - ix
              /\ i - ix \in 1..N - ix /\ ix + (i - ix) = i
          BY <1>0, <2>0, <3>2
        <4>2. r[i + 1] = b[(i + 1) - (ix + 1)]
          BY <2>5, <4>1
        <4>3. b[i - ix] = k[ix + (i - ix)]
          BY <2>2, <4>1
        <4> QED BY <3>2, <4>1, <4>2, <4>3
      <3> QED BY <3>1, <3>2
    <2>9. Inserted(r, k, ix)
      BY <2>0, <2>5, <2>6, <2>7, <2>8 DEF Inserted, C
    <2>10. Clean(k, ix)
      <3>1. CASE u = 0
        <4>1. ix = N
          BY <3>1 DEF ix
        <4> QED BY <1>0, <2>0, <4>1 DEF Clean
      <3>2. CASE u # 0
        <4>1. ix = u /\ u \in 1..N /\ k[u].kind = "user"
          BY <1>1, <3>2 DEF ix
        <4>2. ASSUME u < N, k[u + 1].kind = "result" PROVE FALSE
          <5>1. u + 1 \in 1..N /\ (u + 1) - 1 = u
            BY <1>0, <4>1, <4>2
          <5>2. k[(u + 1) - 1].kind \in {"call", "result"}
            BY <4>2, <5>1 DEF Whole
          <5> QED BY <4>1, <5>1, <5>2
        <4> QED BY <2>0, <4>1, <4>2 DEF Clean
      <3> QED BY <3>1, <3>2
    <2> QED BY <2>9, <2>10 DEF r
  <1> QED BY <1>4, <1>5

\* What r, made of s by a pass, has of it.
Rewritten(r, s) ==
    /\ r \in Seq(Messages) /\ Whole(r)
    /\ Distinct(s) => Distinct(r)
    /\ \A n : Numbered(s, n) => Numbered(r, n)
    /\ \A t : (Apart(s, t) => Apart(r, t)) /\ (Apart(t, s) => Apart(t, r))

\* A pass rewrites a conversation into one.
LEMMA PassRewrites ==
  ASSUME NEW s \in Seq(Messages), Whole(s), NEW recent \in Nat, NEW scope
  PROVE  Rewritten(Context!Rebuilt(scope, Context!Parts(scope, s, recent).keep), s)
  <1> DEFINE keep == Context!Parts(scope, s, recent).keep
             r == Context!Rebuilt(scope, keep)
  <1>1. PICK k : Kept(k, s) /\ keep = Context!without_summaries(k)
    BY CutIs
  <1>2. k \in Seq(Messages) /\ Whole(k) /\ Selection(k, s)
    BY <1>1 DEF Kept, Selection
  <1> HIDE DEF keep
  <1>3. keep \in Seq(Messages) /\ Leaves(keep, k, Len(k))
    BY <1>1, <1>2, WithoutIs
  <1>4. Whole(keep)
    BY <1>2, <1>3, WholeLeaves
  <1>5. Selection(keep, k)
    BY <1>3 DEF Leaves, Selection
  <1>6. Selection(keep, s)
    BY <1>2, <1>5, SelectionOfSelection
  <1> HIDE DEF r
  <1>7. PICK p : Inserted(r, keep, p) /\ Clean(keep, p)
    BY Zenon, <1>3, <1>4, RebuiltIs DEF r
  <1>8. r \in Seq(Messages) /\ Whole(r)
    BY Zenon, <1>3, <1>4, <1>7, InsertWhole DEF Inserted
  <1>9. /\ Distinct(s) => Distinct(keep)
        /\ \A n : Numbered(s, n) => Numbered(keep, n)
        /\ \A t : Apart(s, t) => Apart(keep, t)
        /\ \A t : Apart(t, s) => Apart(t, keep)
    BY <1>6, SelectionKeeps
  <1>10. /\ Distinct(keep) => Distinct(r)
         /\ \A n : Numbered(keep, n) => Numbered(r, n)
         /\ \A t : Apart(keep, t) => Apart(r, t)
         /\ \A t : Apart(t, keep) => Apart(t, r)
    BY <1>3, <1>7, InsertKeeps
  <1>11. Rewritten(r, s)
    BY <1>8, <1>9, <1>10 DEF Rewritten
  <1> QED BY <1>11 DEF r, keep

\* What was evicted of s, and shown: all that goes was shown, and beyond that checkpoints and the latest request.
Evicts(e, seen, s) ==
    LET u == Context!latest_user_index(s) IN
    /\ e \subseteq Nat /\ e \subseteq seen
    /\ u # 0 => s[u].id \notin e
    /\ seen \ e \subseteq {0} \cup (IF u = 0 THEN {} ELSE {s[u].id})

\* A pass evicts what the summarizer was shown, and not the latest request.
LEMMA PassEvicts ==
  ASSUME NEW s \in Seq(Messages), Whole(s), Distinct(s), NEW n, Numbered(s, n), NEW recent \in Nat, NEW scope
  PROVE  Evicts(Context!Ids(Context!Parts(scope, s, recent).compacted),
                Context!Ids(Context!Inline(scope, s, recent)), s)
  <1> DEFINE N == Len(s)
             u == Context!latest_user_index(s)
             p == Context!prefix_count(scope, s, recent)
             e == Context!Ids(Context!Parts(scope, s, recent).compacted)
             seen == Context!Ids(Context!Inline(scope, s, recent))
  <1>0. N \in Nat /\ \A i \in 1..N : s[i].id \in Nat
    BY MessageIs
  <1>1. u \in 0..N /\ (u # 0 => u \in 1..N /\ s[u].kind = "user")
    BY LatestIs
  <1>2. p \in 0..N
    BY CutIs
  <1>3. PICK c : Goes(c, s, p, u) /\ Context!Parts(scope, s, recent).compacted = Context!without_summaries(c)
    BY CutIs
  <1>4. e = {m.id : m \in {x \in Members(c) : x.kind # "summary"}}
    <2>1. c \in Seq(Messages)
      BY <1>3 DEF Goes
    <2>2. Context!Ids(Context!without_summaries(c)) = {m.id : m \in {x \in Members(c) : x.kind # "summary"}}
      BY <2>1, WithoutMembers
    <2> QED BY <1>3, <2>2
  <1>5. seen = {s[i].id : i \in 1..p}
    <2> DEFINE q == SubSeq(s, 1, p)
    <2>1. 1 \in 1..N + 1 /\ 1 <= p + 1 /\ p \in Nat
      BY <1>0, <1>2
    <2> HIDE DEF p
    <2>2. /\ q \in Seq(Messages) /\ Len(q) = p - 1 + 1
          /\ \A i \in 1..p - 1 + 1 : q[i] = s[1 + i - 1]
      BY <1>2, <2>1, PartIs
    <2> HIDE DEF q
    <2>3. DOMAIN q = 1..p /\ \A i \in 1..p : q[i] = s[i]
      <3>1. p - 1 + 1 = p /\ \A i \in 1..p : 1 + i - 1 = i
        BY <2>1
      <3>2. DOMAIN q = 1..Len(q)
        BY <2>2, MessageIs
      <3> QED BY <2>2, <3>1, <3>2
    <2>4. Context!Ids(q) = {s[i].id : i \in 1..p}
      BY <2>3 DEF Context!Ids
    <2>5. Context!Inline(scope, s, recent) = q
      BY DEF Context!Inline, q, p
    <2> QED BY <2>4, <2>5
  <1> HIDE DEF p, e, seen, u
  <1>6. \A i \in 1..p : i \in 1..N
    BY <1>0, <1>2
  <1>7. ASSUME NEW x \in e PROVE \E i \in 1..p : i # u /\ s[i].kind # "summary" /\ s[i].id = x
    BY <1>3, <1>4 DEF Goes
  <1>8. ASSUME NEW i \in 1..p, i # u, s[i].kind # "summary" PROVE s[i].id \in e
    BY <1>3, <1>4, <1>8 DEF Goes
  <1>9. e \subseteq Nat /\ e \subseteq seen
    BY <1>0, <1>5, <1>6, <1>7
  <1>10. ASSUME u # 0, s[u].id \in e PROVE FALSE
    <2>1. PICK i \in 1..p : i # u /\ s[i].kind # "summary" /\ s[i].id = s[u].id
      BY <1>7, <1>10
    <2>2. i \in 1..N /\ u \in 1..N /\ s[u].kind # "summary"
      BY <1>1, <1>6, <1>10
    <2> QED BY <2>1, <2>2 DEF Distinct
  <1>11. ASSUME NEW x \in seen \ e PROVE x \in {0} \cup (IF u = 0 THEN {} ELSE {s[u].id})
    <2>1. PICK i \in 1..p : x = s[i].id
      BY <1>5
    <2>2. CASE s[i].kind = "summary"
      <3>1. x = 0
        BY <1>6, <2>1, <2>2 DEF Numbered
      <3> QED BY <3>1
    <2>3. CASE s[i].kind # "summary"
      <3>1. i = u
        BY <1>8, <1>11, <2>1, <2>3
      <3>2. u # 0
        BY <1>0, <1>6, <3>1
      <3> QED BY <2>1, <3>1, <3>2
    <2> QED BY <2>2, <2>3
  <1>12. Evicts(e, seen, s)
    BY <1>9, <1>10, <1>11 DEF Evicts, u
  <1> QED BY <1>12 DEF e, seen

-----------------------------------------------------------------------------
(* The history files.                                                      *)

\* The next key is above all of them.
LEMMA NextKeyIs ==
  ASSUME NEW sg, Rising(sg), NEW key, key = Context!next_segment_key(sg)
  PROVE  key \in Nat \ {0} /\ \A i \in 1..Len(sg) : sg[i].key < key
  <1> DEFINE N == Len(sg)
             m == IF N = 0 THEN 0 ELSE sg[N].key
             T == {segment.key : segment \in Context!ToSet(sg)} \cup {0}
  <1>0. N \in Nat /\ DOMAIN sg = 1..N /\ \A i \in 1..N : sg[i] \in Segment /\ sg[i].key \in Nat \ {0}
    <2>1. \A x \in Segment : x.key \in Nat \ {0}
      BY DEF Segment
    <2>2. sg \in Seq(Segment)
      BY DEF Rising
    <2>3. \A i \in 1..N : sg[i] \in Segment
      BY <2>2, ElementOfSeq
    <2> QED BY <2>1, <2>2, <2>3, LenProperties
  <1>1. m \in Nat /\ \A i \in 1..N : sg[i].key <= m
    <2>1. CASE N = 0
      BY <2>1
    <2>2. CASE N # 0
      <3>1. N \in 1..N /\ m = sg[N].key
        BY <1>0, <2>2
      <3>2. \A i \in 1..N : i = N \/ i < N
        BY <1>0
      <3>3. \A i \in 1..N : i < N => sg[i].key < sg[N].key
        BY <3>1 DEF Rising
      <3> HIDE DEF m
      <3>4. m \in Nat
        BY <1>0, <3>1
      <3>5. ASSUME NEW i \in 1..N PROVE sg[i].key <= m
        <4>1. sg[i].key \in Nat
          BY <1>0
        <4>2. CASE i = N
          BY <3>1, <3>4, <4>2
        <4>3. CASE i < N
          <5>1. sg[i].key < m
            BY <3>1, <3>3, <4>3
          <5> QED BY <3>4, <4>1, <5>1
        <4> QED BY <3>2, <4>2, <4>3
      <3> QED BY <3>4, <3>5
    <2> QED BY <2>1, <2>2
  <1>2. T = {sg[i].key : i \in 1..N} \cup {0}
    <2>1. Context!ToSet(sg) = {sg[i] : i \in 1..N}
      BY <1>0 DEF Context!ToSet
    <2> QED BY <2>1
  <1>3. key = Context!Max(T) + 1
    BY DEF Context!next_segment_key
  <1> HIDE DEF T, m
  <1>4. T \in SUBSET (0..m) /\ T # {}
    BY <1>0, <1>1, <1>2
  <1>5. Context!Max(T) \in T /\ \A y \in T : y <= Context!Max(T)
    BY Zenon, <1>1, <1>4, MaxIs
  <1>6. Context!Max(T) \in Nat
    <2>1. \A y \in T : y \in Nat
      BY <1>1, <1>4
    <2> QED BY <1>5, <2>1
  <1>7. \A i \in 1..N : sg[i].key \in T
    BY <1>2
  <1> QED BY <1>0, <1>3, <1>5, <1>6, <1>7

\* What is retained of the segments with the new one.
LEMMA RetainedIs ==
  ASSUME NEW sg, Rising(sg), NEW key, key = Context!next_segment_key(sg), NEW span \in SUBSET Nat,
         NEW all, all = Append(sg, [key |-> key, span |-> span]),
         NEW retained, retained = SubSeq(all, Context!Max({0, Len(all) - MaxSegments}) + 1, Len(all))
  PROVE  /\ Rising(retained) /\ Len(retained) <= MaxSegments
         /\ MaxSegments # 0 => Len(retained) > 0 /\ retained[Len(retained)].key = key
         /\ \A i \in 1..Len(retained) : retained[i].key <= key
  <1> DEFINE N == Len(sg)
             x == [key |-> key, span |-> span]
             d == Context!Max({0, Len(all) - MaxSegments})
  <1>0. MaxSegments \in Nat /\ sg \in Seq(Segment) /\ N \in Nat
    BY ContextConstants, EmptySeq DEF Rising
  <1>1. key \in Nat \ {0} /\ \A i \in 1..N : sg[i].key < key
    BY NextKeyIs
  <1>2. x \in Segment /\ x.key = key
    BY <1>1 DEF Segment
  <1> HIDE DEF x
  <1>3. all = Append(sg, x)
    BY DEF x
  <1>4. /\ all \in Seq(Segment) /\ Len(all) = N + 1 /\ all[N + 1] = x
        /\ \A i \in 1..N : all[i] = sg[i]
    BY <1>0, <1>2, <1>3, AppendProperties
  <1>5. Rising(all)
    <2>1. ASSUME NEW i \in 1..N + 1, NEW j \in 1..N + 1, i < j PROVE all[i].key < all[j].key
      <3>1. i \in 1..N
        BY <1>0, <2>1
      <3>2. CASE j = N + 1
        BY <1>1, <1>2, <1>4, <3>1, <3>2
      <3>3. CASE j # N + 1
        <4>1. j \in 1..N
          BY <1>0, <3>3
        <4>2. sg[i].key < sg[j].key
          BY <2>1, <3>1, <4>1 DEF Rising
        <4> QED BY <1>4, <3>1, <4>1, <4>2
      <3> QED BY <3>2, <3>3
    <2> QED BY <1>4, <2>1 DEF Rising
  <1>6. d \in 0..N + 1 /\ (N + 1) - d <= MaxSegments /\ (MaxSegments # 0 => d < N + 1)
    <2> DEFINE y == (N + 1) - MaxSegments
               D == {0, y}
    <2>1. d = Context!Max(D)
      BY <1>4
    <2>2. CASE y > 0
      <3>1. D \in SUBSET (0..N + 1) /\ D # {} /\ y \in D
        BY <1>0, <2>2
      <3>2. \A z \in D : z = 0 \/ z = y
        OBVIOUS
      <3> HIDE DEF D, d
      <3>3. Context!Max(D) \in D /\ \A z \in D : z <= Context!Max(D)
        <4>1. N + 1 \in Nat
          BY <1>0
        <4> HIDE DEF y
        <4> QED BY Zenon, <3>1, <4>1, MaxIs
      <3>4. d \in D /\ y <= d
        BY Zenon, <2>1, <3>1, <3>3
      <3>5. d = y
        BY <1>0, <2>2, <3>2, <3>4
      <3> QED BY <1>0, <2>2, <3>5
    <2>3. CASE ~(y > 0)
      <3>1. \A z \in D : 0 >= z
        BY <1>0, <2>3
      <3> DEFINE M == CHOOSE k \in D : \A z \in D : k >= z
      <3>2. \A k \in D : (\A z \in D : k >= z) => k = 0
        BY <1>0, <2>3
      <3>3. 0 \in D
        OBVIOUS
      <3>4. Context!Max(D) = M
        BY DEF Context!Max
      <3> HIDE DEF D
      <3>5. M = 0
        BY <3>1, <3>2, <3>3
      <3> HIDE DEF M, d
      <3>6. d = 0
        BY <2>1, <3>4, <3>5
      <3> QED BY <1>0, <2>3, <3>6
    <2> QED BY <2>2, <2>3
  <1> HIDE DEF d
  <1>7. retained = SubSeq(all, d + 1, N + 1)
    BY Zenon, <1>4 DEF d
  <1> DEFINE L == (N + 1) - d
  <1>8. /\ retained \in Seq(Segment) /\ Len(retained) = L
        /\ \A i \in 1..L : retained[i] = all[d + i] /\ d + i \in 1..N + 1
    <2>0. d + 1 \in Int /\ N + 1 \in Int /\ \A i \in d + 1..N + 1 : i \in 1..Len(all)
      BY <1>0, <1>4, <1>6
    <2>1. \A i \in d + 1..N + 1 : all[i] \in Segment
      BY <1>4, <2>0, ElementOfSeq
    <2> DEFINE r == SubSeq(all, d + 1, N + 1)
    <2>2. /\ r \in Seq(Segment)
          /\ Len(r) = IF d + 1 <= N + 1 THEN (N + 1) - (d + 1) + 1 ELSE 0
          /\ \A i \in 1..(N + 1) - (d + 1) + 1 : r[i] = all[(d + 1) + i - 1]
      BY ONLY <2>0, <2>1, SubSeqProperties
    <2> HIDE DEF r
    <2>3. Len(r) = L
      BY <1>0, <1>6, <2>2
    <2>4. ASSUME NEW i \in 1..L PROVE r[i] = all[d + i] /\ d + i \in 1..N + 1
      <3>1. i \in 1..(N + 1) - (d + 1) + 1 /\ (d + 1) + i - 1 = d + i /\ d + i \in 1..N + 1
        BY <1>0, <1>6
      <3> QED BY <2>2, <3>1
    <2>5. retained = r
      BY Zenon, <1>7 DEF r
    <2> QED BY Zenon, <2>2, <2>3, <2>4, <2>5
  <1>9. \A i, j \in 1..L : i < j => d + i < d + j
    BY <1>0, <1>6
  <1>10. L \in Nat /\ L <= MaxSegments /\ (MaxSegments # 0 => L > 0 /\ L \in 1..L /\ d + L = N + 1)
    BY <1>0, <1>6
  <1> HIDE DEF L
  <1>11. Rising(retained)
    <2>1. ASSUME NEW i \in 1..L, NEW j \in 1..L, i < j PROVE retained[i].key < retained[j].key
      <3>1. d + i \in 1..N + 1 /\ d + j \in 1..N + 1 /\ d + i < d + j
        BY <1>8, <1>9, <2>1
      <3>2. all[d + i].key < all[d + j].key
        BY <1>4, <1>5, <3>1 DEF Rising
      <3> QED BY Zenon, <1>8, <3>2
    <2>2. retained \in Seq(Segment) /\ Len(retained) = L
      BY Zenon, <1>8
    <2> QED BY ONLY <2>1, <2>2 DEF Rising
  <1>12. MaxSegments # 0 => retained[L].key = key
    BY <1>2, <1>4, <1>8, <1>10
  <1>13. \A i \in 1..L : retained[i].key <= key
    <2>1. \A j \in 1..N + 1 : j = N + 1 \/ j \in 1..N
      BY <1>0
    <2>2. \A j \in 1..N : all[j].key \in Nat \ {0} /\ all[j].key < key
      <3>1. \A j \in 1..N : sg[j].key \in Nat \ {0}
        <4>1. \A s \in Segment : s.key \in Nat \ {0}
          BY DEF Segment
        <4>2. \A j \in 1..N : sg[j] \in Segment
          BY <1>0, ElementOfSeq
        <4> QED BY <4>1, <4>2
      <3> QED BY <1>1, <1>4, <3>1
    <2>3. ASSUME NEW j \in 1..N + 1 PROVE all[j].key <= key
      <3>1. CASE j = N + 1
        BY <1>1, <1>2, <1>4, <3>1
      <3>2. CASE j \in 1..N
        <4>1. all[j].key \in Nat /\ all[j].key < key /\ key \in Nat
          BY <1>1, <2>2, <3>2
        <4> QED BY <4>1
      <3> QED BY <2>1, <3>1, <3>2
    <2>4. \A i \in 1..L : retained[i] = all[d + i] /\ d + i \in 1..N + 1
      BY Zenon, <1>8
    <2> QED BY ONLY <2>3, <2>4
  <1> QED BY Zenon, <1>8, <1>10, <1>11, <1>12, <1>13

\* Segments of an export whose keys rise are told apart by them.
LEMMA KeysDiffer ==
  ASSUME NEW sg, Rising(sg), NEW a \in Context!ToSet(sg), NEW b \in Context!ToSet(sg), a.key = b.key
  PROVE  a = b
  <1>1. sg \in Seq(Segment)
    BY DEF Rising
  <1>2. Len(sg) \in Nat /\ DOMAIN sg = 1..Len(sg) /\ \A i \in 1..Len(sg) : sg[i] \in Segment
    BY <1>1, LenProperties, ElementOfSeq
  <1>3. PICK i \in 1..Len(sg) : a = sg[i]
    BY <1>2 DEF Context!ToSet
  <1>4. PICK j \in 1..Len(sg) : b = sg[j]
    BY <1>2 DEF Context!ToSet
  <1>5. a.key \in Nat
    BY <1>2, <1>3 DEF Segment
  <1>6. i = j
    <2>1. ~(i < j) /\ ~(j < i)
      BY <1>3, <1>4, <1>5 DEF Rising
    <2> QED BY <1>2, <2>1
  <1> QED BY <1>3, <1>4, <1>6

\* The history files name one span for good.
LEMMA ExportKeeps ==
  ASSUME ArchiveFits, NEW span \in SUBSET Nat, Context!Export(span)
  PROVE  ArchiveFits'
  <1> DEFINE key == Context!next_segment_key(segments)
             all == Append(segments, [key |-> key, span |-> span])
             retained == SubSeq(all, Context!Max({0, Len(all) - MaxSegments}) + 1, Len(all))
             missing == {segment \in Context!ToSet(retained) : segment.key = key \/ segment.key \notin DOMAIN files}
  <1>0. MaxSegments \in Nat
    BY ContextConstants
  <1>1. Rising(segments) /\ Len(segments) <= MaxSegments
    BY DEF ArchiveFits
  <1>a. FilesFit /\ Context!FilesNameOneSpan
    BY DEF ArchiveFits
  <1>2. key \in Nat \ {0} /\ \A i \in 1..Len(segments) : segments[i].key < key
    BY <1>1, NextKeyIs
  <1>3. /\ Rising(retained) /\ Len(retained) <= MaxSegments
        /\ MaxSegments # 0 => Len(retained) > 0 /\ retained[Len(retained)].key = key
        /\ \A i \in 1..Len(retained) : retained[i].key <= key
    BY Zenon, <1>1, RetainedIs
  <1>4. /\ segments' = retained
        /\ \E landed \in {missing, {}} :
             /\ files' = [k \in DOMAIN files \cup {s.key : s \in landed} |->
                            IF \E s \in landed : s.key = k THEN (CHOOSE s \in landed : s.key = k).span ELSE files[k]]
             /\ index' = index \cup {<<s.key, s.span>> : s \in landed}
    BY Zenon DEF Context!Export
  <1> HIDE DEF retained, all
  <1>5. PICK landed \in {missing, {}} :
          /\ files' = [k \in DOMAIN files \cup {s.key : s \in landed} |->
                         IF \E s \in landed : s.key = k THEN (CHOOSE s \in landed : s.key = k).span ELSE files[k]]
          /\ index' = index \cup {<<s.key, s.span>> : s \in landed}
    BY <1>4
  <1>6. landed \subseteq Context!ToSet(retained) /\ \A s \in landed : s.key = key \/ s.key \notin DOMAIN files
    BY <1>5
  <1> HIDE DEF missing
  <1>7. /\ Len(retained) \in Nat
        /\ \A s \in Context!ToSet(retained) : \E i \in 1..Len(retained) : s = retained[i] /\ s.key \in Nat
    <2>1. retained \in Seq(Segment)
      BY <1>3 DEF Rising
    <2>2. DOMAIN retained = 1..Len(retained) /\ Len(retained) \in Nat /\ \A i \in 1..Len(retained) : retained[i] \in Segment
      BY <2>1, LenProperties, ElementOfSeq
    <2>3. \A x \in Segment : x.key \in Nat
      BY DEF Segment
    <2> QED BY <2>2, <2>3 DEF Context!ToSet
  <1>8. DOMAIN files \subseteq Nat /\ \A k \in DOMAIN files : k < key
    <2>1. ASSUME NEW k \in DOMAIN files PROVE k < key
      <3>1. k \in Nat /\ Len(segments) > 0 /\ k <= segments[Len(segments)].key
        BY <1>a DEF FilesFit
      <3>2. Len(segments) \in 1..Len(segments)
        <4>1. Len(segments) \in Nat
          BY <1>1, LenProperties DEF Rising
        <4> QED BY <3>1, <4>1
      <3>3. segments[Len(segments)] \in Segment
        BY <1>1, <3>2, ElementOfSeq DEF Rising
      <3>4. segments[Len(segments)].key \in Nat
        BY <3>3 DEF Segment
      <3>5. segments[Len(segments)].key < key
        BY <1>2, <3>2
      <3> QED BY <1>2, <3>1, <3>4, <3>5
    <2> QED BY <1>a, <2>1 DEF FilesFit
  <1>9. \A s \in landed : s.key \notin DOMAIN files /\ s.key \in Nat /\ s.key <= key
    <2> SUFFICES ASSUME NEW s \in landed PROVE s.key \notin DOMAIN files /\ s.key \in Nat /\ s.key <= key
      OBVIOUS
    <2>1. s \in Context!ToSet(retained) /\ (s.key = key \/ s.key \notin DOMAIN files)
      BY <1>6
    <2>2. s.key \in Nat /\ s.key <= key
      BY <1>3, <1>7, <2>1
    <2>3. key \notin DOMAIN files
      BY <1>2, <1>8
    <2> QED BY <2>1, <2>2, <2>3
  <1>10. \A a, b \in landed : a.key = b.key => a = b
    BY <1>3, <1>6, KeysDiffer
  <1>11. Rising(segments)' /\ (Len(segments) <= MaxSegments)'
    BY <1>3, <1>4 DEF Rising
  <1>12. DOMAIN files' = DOMAIN files \cup {s.key : s \in landed}
    BY <1>5
  <1>13. FilesFit'
    <2>1. ASSUME NEW k \in DOMAIN files' PROVE k \in Nat /\ Len(segments') > 0 /\ k <= segments'[Len(segments')].key
      <3>1. k \in Nat /\ k <= key
        BY <1>2, <1>8, <1>9, <1>12
      <3>2. MaxSegments # 0
        <4>1. CASE k \in DOMAIN files
          <5>1. Len(segments) > 0 /\ Len(segments) <= MaxSegments /\ Len(segments) \in Nat
            BY <1>1, <1>a, <4>1, LenProperties DEF FilesFit, Rising
          <5> QED BY <1>0, <5>1
        <4>2. CASE k \notin DOMAIN files
          <5>1. PICK s \in landed : TRUE
            BY <1>12, <4>2
          <5>2. PICK i \in 1..Len(retained) : TRUE
            BY <1>6, <1>7, <5>1
          <5> QED BY <1>0, <1>3, <1>7, <5>2
        <4> QED BY <4>1, <4>2
      <3> QED BY <1>3, <1>4, <3>1, <3>2
    <2> QED BY <2>1 DEF FilesFit
  <1>14. Context!FilesNameOneSpan'
    <2> SUFFICES ASSUME NEW a \in index' PROVE a[1] \in DOMAIN files' /\ files'[a[1]] = a[2]
      BY DEF Context!FilesNameOneSpan
    <2>1. CASE a \in index
      <3>1. a[1] \in DOMAIN files /\ files[a[1]] = a[2]
        BY <1>a, <2>1 DEF Context!FilesNameOneSpan
      <3>2. ~\E s \in landed : s.key = a[1]
        BY <1>9, <3>1
      <3>3. a[1] \in DOMAIN files'
        BY <1>12, <3>1
      <3>4. files'[a[1]] = files[a[1]]
        BY <1>5, <3>1, <3>2
      <3> QED BY <3>1, <3>3, <3>4
    <2>2. CASE a \notin index
      <3>1. PICK s \in landed : a = <<s.key, s.span>>
        BY <1>5, <2>2
      <3>2. a[1] = s.key /\ a[2] = s.span
        BY <3>1
      <3>3. s.key \in DOMAIN files'
        BY <1>12
      <3> DEFINE c == CHOOSE t \in landed : t.key = s.key
      <3>4. c \in landed /\ c.key = s.key
        OBVIOUS
      <3>5. files'[s.key] = c.span
        BY Zenon, <1>5, <3>3
      <3> HIDE DEF c
      <3>6. c = s
        BY <1>10, <3>4
      <3> QED BY <3>2, <3>3, <3>5, <3>6
    <2> QED BY <2>1, <2>2
  <1> QED BY <1>11, <1>13, <1>14 DEF ArchiveFits

-----------------------------------------------------------------------------
(* Messages that are added.                                                *)

\* Two conversations with nothing in common make one.
LEMMA ConversationsJoin ==
  ASSUME NEW n, NEW a, NEW b, Conversation(a, n), Conversation(b, n), Apart(a, b)
  PROVE  /\ Conversation(a \o b, n)
         /\ \A t : Apart(t, a) /\ Apart(t, b) => Apart(t, a \o b)
  <1> DEFINE c == a \o b
             l == Len(a)
             m == Len(b)
  <1>0. a \in Seq(Messages) /\ b \in Seq(Messages)
    BY DEF Conversation
  <1>1. l \in Nat /\ m \in Nat
    BY <1>0, MessageIs
  <1>2. c \in Seq(Messages) /\ Len(c) = l + m /\ \A i \in 1..l + m : c[i] = IF i <= l THEN a[i] ELSE b[i - l]
    BY <1>0, ConcatProperties
  <1>3. Whole(c)
    BY <1>0, WholeJoin DEF Conversation
  <1> HIDE DEF c
  <1>4. \A i \in 1..Len(c) : \/ i \in 1..l /\ c[i] = a[i]
                             \/ i - l \in 1..m /\ c[i] = b[i - l]
    <2> SUFFICES ASSUME NEW i \in 1..l + m
                 PROVE  (i \in 1..l /\ c[i] = a[i]) \/ (i - l \in 1..m /\ c[i] = b[i - l])
      BY <1>2
    <2>1. CASE i <= l
      <3>1. i \in 1..l
        BY <1>1, <2>1
      <3> QED BY <1>2, <2>1, <3>1
    <2>2. CASE ~(i <= l)
      <3>1. i - l \in 1..m
        BY <1>1, <2>2
      <3> QED BY <1>2, <2>2, <3>1
    <2> QED BY <2>1, <2>2
  <1>5. Distinct(c)
    <2> SUFFICES ASSUME NEW i \in 1..Len(c), NEW j \in 1..Len(c), c[i].kind # "summary", c[j].kind # "summary",
                        c[i].id = c[j].id
                 PROVE  i = j
      BY DEF Distinct
    <2>1. CASE i \in 1..l /\ c[i] = a[i] /\ j \in 1..l /\ c[j] = a[j]
      BY <2>1 DEF Conversation, Distinct
    <2>2. CASE i - l \in 1..m /\ c[i] = b[i - l] /\ j - l \in 1..m /\ c[j] = b[j - l]
      <3>1. i - l = j - l
        BY SMTT(40), <2>2 DEF Conversation, Distinct
      <3> QED BY <1>1, <1>2, <3>1
    <2>3. CASE i \in 1..l /\ c[i] = a[i] /\ j - l \in 1..m /\ c[j] = b[j - l]
      BY <2>3 DEF Apart
    <2>4. CASE i - l \in 1..m /\ c[i] = b[i - l] /\ j \in 1..l /\ c[j] = a[j]
      BY <2>4 DEF Apart
    <2> QED BY <1>4, <2>1, <2>2, <2>3, <2>4
  <1>6. Numbered(c, n)
    <2>1. Numbered(a, n) /\ Numbered(b, n)
      BY DEF Conversation
    <2> QED BY ONLY <1>4, <2>1 DEF Numbered
  <1>7. ASSUME NEW t, Apart(t, a), Apart(t, b) PROVE Apart(t, c)
    BY ONLY ZenonT(60), <1>4, <1>7 DEF Apart
  <1>8. Conversation(c, n)
    BY <1>2, <1>3, <1>5, <1>6 DEF Conversation
  <1> QED BY <1>7, <1>8 DEF c

\* Nothing is a conversation apart from any other.
LEMMA NoConversation == /\ \A n : Conversation(<<>>, n)
                        /\ \A t : Apart(t, <<>>) /\ Apart(<<>>, t)
  <1>1. <<>> \in Seq(Messages) /\ 1..Len(<<>>) = {}
    OBVIOUS
  <1> QED BY <1>1 DEF Conversation, Whole, Distinct, Numbered, Apart

\* A conversation stays one when messages are given elsewhere.
LEMMA ConversationStays ==
  ASSUME NEW m \in Nat, NEW n \in Nat, m <= n, NEW a, Conversation(a, m)
  PROVE  Conversation(a, n)
  <1>1. \A i \in 1..m : i \in 1..n
    OBVIOUS
  <1>2. Numbered(a, n)
    BY <1>1 DEF Conversation, Numbered
  <1> QED BY <1>2 DEF Conversation

\* The messages b are the ones after the first m, up to the n-th at most.
Added(b, m, n) == Conversation(b, n) /\ \A i \in 1..Len(b) : b[i].kind # "summary" /\ b[i].id > m

\* New messages extend a conversation that is apart from another.
LEMMA AddedJoin ==
  ASSUME NEW m \in Nat, NEW n \in Nat, m <= n, NEW a, Conversation(a, m), NEW b, Added(b, m, n)
  PROVE  /\ Conversation(a \o b, n) /\ Conversation(a, n) /\ Apart(a, b)
         /\ \A h : Conversation(h, m) /\ Apart(h, a) => Conversation(h, n) /\ Apart(h, b) /\ Apart(h, a \o b)
  <1>1. ASSUME NEW h, Conversation(h, m) PROVE Conversation(h, n) /\ Apart(h, b)
    <2>1. Conversation(h, n)
      BY <1>1, ConversationStays
    <2>2. ASSUME NEW i \in 1..Len(h), NEW j \in 1..Len(b), h[i].kind # "summary" PROVE h[i].id # b[j].id
      <3>1. h[i].id \in 1..m
        BY <1>1, <2>2 DEF Conversation, Numbered
      <3>2. b[j].id > m
        BY DEF Added
      <3> QED BY <3>1, <3>2
    <2>3. Apart(h, b)
      BY <2>2 DEF Apart
    <2> QED BY <2>1, <2>3
  <1>2. Conversation(a, n) /\ Apart(a, b) /\ Conversation(b, n)
    BY <1>1 DEF Added
  <1>3. Conversation(a \o b, n) /\ \A t : Apart(t, a) /\ Apart(t, b) => Apart(t, a \o b)
    BY <1>2, ConversationsJoin
  <1> QED BY <1>1, <1>2, <1>3

\* One message that is no part of an exchange.
LEMMA AddedOne ==
  ASSUME NEW m \in Nat, NEW x \in Messages, x.kind \in {"user", "event", "text"}, x.id = m + 1
  PROVE  Added(<<x>>, m, m + 1)
  <1> DEFINE b == <<x>>
  <1>1. b \in Seq(Messages) /\ Len(b) = 1 /\ b[1] = x /\ 1..1 = {1}
    OBVIOUS
  <1> HIDE DEF b
  <1>2. x.kind # "summary" /\ x.kind # "call" /\ x.kind # "result" /\ x.id \in 1..m + 1 /\ x.id > m
    OBVIOUS
  <1>3. Whole(b) /\ Distinct(b) /\ Numbered(b, m + 1)
    BY <1>1, <1>2 DEF Whole, Distinct, Numbered
  <1>4. Added(b, m, m + 1)
    BY <1>1, <1>2, <1>3 DEF Added, Conversation
  <1> QED BY <1>4 DEF b

\* A call and its results.
LEMMA AddedExchange ==
  ASSUME NEW m \in Nat, NEW k \in 1..2, NEW b \in Seq(Messages), Len(b) = k + 1,
         \A i \in 1..k + 1 : b[i].id = m + i /\ b[i].kind = IF i = 1 THEN "call" ELSE "result"
  PROVE  Added(b, m, m + 1 + k)
  <1>1. \A i \in 1..Len(b) : b[i].id \in 1..m + 1 + k /\ b[i].id > m
    OBVIOUS
  <1>2. \A i \in 1..Len(b) : b[i].kind # "summary" /\ b[i].kind = IF i = 1 THEN "call" ELSE "result"
    OBVIOUS
  <1>3. \A i, j \in 1..Len(b) : b[i].id = b[j].id => i = j
    OBVIOUS
  <1>4. Whole(b)
    <2>1. ASSUME NEW i \in 1..Len(b), b[i].kind = "result" PROVE i > 1 /\ b[i - 1].kind \in {"call", "result"}
      <3>1. i # 1
        BY <1>2, <2>1
      <3>2. i > 1 /\ i - 1 \in 1..Len(b)
        BY <3>1
      <3> QED BY <1>2, <3>2
    <2>2. ASSUME NEW i \in 1..Len(b), b[i].kind = "call" PROVE i < Len(b) /\ b[i + 1].kind = "result"
      <3>1. i = 1
        BY <1>2, <2>2
      <3>2. 2 \in 1..Len(b) /\ 1 < Len(b) /\ 2 # 1 /\ 1 + 1 = 2
        OBVIOUS
      <3> QED BY <1>2, <3>1, <3>2
    <2> QED BY <2>1, <2>2 DEF Whole
  <1>5. Distinct(b) /\ Numbered(b, m + 1 + k)
    BY <1>1, <1>2, <1>3 DEF Distinct, Numbered
  <1> QED BY <1>1, <1>2, <1>4, <1>5 DEF Added, Conversation

-----------------------------------------------------------------------------
(* The steps of compaction.                                                *)

\* What only the archive, or only the last pass, decides.
LEMMA ArchiveStays == ArchiveFits /\ UNCHANGED <<segments, files, index>> => ArchiveFits'
  BY DEF ArchiveFits, FilesFit, Context!FilesNameOneSpan
LEMMA PassStays == PassFits /\ UNCHANGED last => PassFits'
  BY DEF PassFits, Context!LatestRequestSurvives, Context!SummaryCoversTheSpan

\* A conversation is one from the start.
LEMMA ContextStarts == Context!Init => ContextInv
  <1> SUFFICES ASSUME Context!Init PROVE ContextInv
    OBVIOUS
  <1>0. /\ history = <<>> /\ contextTurn = <<>> /\ contextRequest = <<>> /\ ~pending /\ count = 0
        /\ segments = <<>> /\ files = <<>> /\ index = {} /\ last = Context!NoPass
    BY DEF Context!Init
  <1>1. TurnsFit(history, contextTurn, contextRequest, count)
    BY <1>0, NoConversation DEF TurnsFit
  <1>2. ClaimFits(history, contextTurn, count, pending, pc)
    BY <1>0 DEF ClaimFits
  <1>3. DOMAIN files = {} /\ Len(segments) = 0 /\ segments \in Seq(Segment) /\ 1..0 = {}
    BY <1>0
  <1>4. ArchiveFits
    BY <1>0, <1>3, ContextConstants DEF ArchiveFits, Rising, FilesFit, Context!FilesNameOneSpan
  <1>5. last.evicted = {} /\ last.outcome = "none"
    BY <1>0 DEF Context!NoPass
  <1>6. PassFits
    BY <1>5 DEF PassFits, Context!LatestRequestSurvives, Context!SummaryCoversTheSpan
  <1> QED BY <1>0, <1>1, <1>2, <1>4, <1>6 DEF ContextInv

\* What a pass leaves of the history, the turn or its request.
LEMMA RewriteKeeps ==
  ASSUME NEW n \in Nat, NEW s, NEW r, Rewritten(r, s), Conversation(s, n)
  PROVE  /\ Conversation(r, n) /\ (Numbered(s, n - 1) => Numbered(r, n - 1))
         /\ \A t : (Apart(s, t) => Apart(r, t)) /\ (Apart(t, s) => Apart(t, r))
  BY DEF Rewritten, Conversation

\* What one pass says of itself.
LEMMA PassSays ==
  ASSUME NEW s, NEW e, NEW seen, Evicts(e, seen, s), NEW outcome,
         last' = [evicted |-> e, seen |-> seen, scope |-> s, outcome |-> outcome]
  PROVE  PassFits'
  <1>1. last'.evicted = e /\ last'.seen = seen /\ last'.scope = s
    OBVIOUS
  <1>2. Context!LatestRequestSurvives'
    BY <1>1 DEF Evicts, Context!LatestRequestSurvives
  <1>3. Context!SummaryCoversTheSpan'
    BY <1>1 DEF Evicts, Context!SummaryCoversTheSpan
  <1> QED BY <1>2, <1>3 DEF PassFits

\* The list a pass is made of.
Scope(scope, s) == (scope = "history" /\ s = history) \/ (scope = "turn" /\ s = contextRequest)

\* A pass that trims keeps the conversation.
LEMMA ApplyKeeps ==
  ASSUME ContextInv, NEW scope, NEW s, Scope(scope, s), NEW recent \in Nat, NEW outcome,
         Context!Apply(scope, s, recent, outcome), UNCHANGED <<pending, count>>, pc' = "idle" => pc = "idle"
  PROVE  ContextInv'
  <1> DEFINE parts == Context!Parts(scope, s, recent)
             r == Context!Rebuilt(scope, parts.keep)
             e == Context!Ids(parts.compacted)
             seen == Context!Ids(Context!Inline(scope, s, recent))
  <1>0. /\ count \in Nat /\ TurnsFit(history, contextTurn, contextRequest, count)
        /\ ClaimFits(history, contextTurn, count, pending, pc) /\ ArchiveFits
    BY DEF ContextInv
  <1>1. Conversation(s, count)
    BY <1>0 DEF Scope, TurnsFit
  <1>2. s \in Seq(Messages) /\ Whole(s) /\ Distinct(s) /\ Numbered(s, count)
    BY <1>1 DEF Conversation
  <1>3. Rewritten(r, s)
    BY <1>2, PassRewrites
  <1>4. Evicts(e, seen, s)
    BY <1>2, PassEvicts
  <1>5. /\ Context!Export(e)
        /\ last' = [evicted |-> e, seen |-> seen, scope |-> s, outcome |-> outcome]
        /\ IF scope = "history" THEN history' = r /\ UNCHANGED <<contextTurn, contextRequest>>
           ELSE /\ contextRequest' = r /\ contextTurn' = (IF pending THEN contextTurn ELSE r) /\ UNCHANGED history
    BY DEF Context!Apply
  <1> HIDE DEF r, e, seen
  <1>6. PassFits'
    BY <1>4, <1>5, PassSays
  <1>7. ArchiveFits'
    <2>1. e \in SUBSET Nat
      BY <1>4 DEF Evicts
    <2> QED BY <1>0, <1>5, <2>1, ExportKeeps
  <1>8. /\ Conversation(r, count) /\ (Numbered(s, count - 1) => Numbered(r, count - 1))
        /\ \A t : (Apart(s, t) => Apart(r, t)) /\ (Apart(t, s) => Apart(t, r))
    BY <1>0, <1>1, <1>3, RewriteKeeps
  <1>9. CASE scope = "history"
    <2>1. s = history /\ history' = r /\ UNCHANGED <<contextTurn, contextRequest>>
      BY <1>5, <1>9 DEF Scope
    <2>2. TurnsFit(r, contextTurn, contextRequest, count)
      BY <1>0, <1>8, <2>1 DEF TurnsFit
    <2>3. ClaimFits(r, contextTurn, count, pending, pc')
      BY <1>0, <1>8, <2>1 DEF ClaimFits
    <2>4. TurnsFit(history, contextTurn, contextRequest, count)' /\ ClaimFits(history, contextTurn, count, pending, pc)'
      BY <2>1, <2>2, <2>3 DEF TurnsFit, ClaimFits
    <2> QED BY <1>0, <1>6, <1>7, <2>4 DEF ContextInv
  <1>10. CASE scope # "history"
    <2>1. /\ s = contextRequest /\ contextRequest' = r /\ UNCHANGED history
          /\ contextTurn' = IF pending THEN contextTurn ELSE r
      BY <1>5, <1>10 DEF Scope
    <2>2. TurnsFit(history, contextTurn', r, count)
      BY <1>0, <1>8, <2>1 DEF TurnsFit
    <2>3. ClaimFits(history, contextTurn', count, pending, pc')
      BY <1>0, <2>1 DEF ClaimFits
    <2>4. TurnsFit(history, contextTurn, contextRequest, count)' /\ ClaimFits(history, contextTurn, count, pending, pc)'
      BY <2>1, <2>2, <2>3 DEF TurnsFit, ClaimFits
    <2> QED BY <1>0, <1>6, <1>7, <2>4 DEF ContextInv
  <1> QED BY <1>9, <1>10

\* So does one that moves nothing but where the agent is.
LEMMA MoveKeeps ==
  ASSUME ContextInv, UNCHANGED <<history, contextTurn, contextRequest, pending, segments, files, index, count, last>>,
         pc' = "idle" => pc = "idle"
  PROVE  ContextInv'
  <1>1. ArchiveFits' /\ PassFits'
    BY ArchiveStays, PassStays DEF ContextInv
  <1>2. TurnsFit(history, contextTurn, contextRequest, count)' /\ ClaimFits(history, contextTurn, count, pending, pc)'
    BY DEF ContextInv, TurnsFit, ClaimFits
  <1> QED BY <1>1, <1>2 DEF ContextInv

\* However a pass ends, the conversation is kept.
LEMMA PassKeeps ==
  ASSUME ContextInv, NEW scope, NEW s, Scope(scope, s), NEW next_pc, next_pc # "idle",
         Context!Pass(scope, s, next_pc), UNCHANGED <<pending, count>>
  PROVE  ContextInv'
  <1> DEFINE recent == Context!Window(scope, s)
  <1>1. recent \in Nat
    BY ContextConstants DEF Context!Window
  <1>2. \/ /\ pc' = next_pc
           /\ UNCHANGED <<history, contextTurn, contextRequest, segments, files, index, last>>
        \/ \E outcome \in Context!Summarized : Context!Apply(scope, s, recent, outcome) /\ pc' = next_pc
        \/ Context!Apply(scope, s, recent, "cancelled") /\ pc' = "settle"
        \/ /\ last' = [Context!NoPass EXCEPT !.scope = s, !.outcome = "stopped"] /\ pc' = "settle"
           /\ UNCHANGED <<history, contextTurn, contextRequest, segments, files, index>>
    BY DEF Context!Pass, Context!EndTurn, Context!archive
  <1> HIDE DEF recent
  <1>3. CASE pc' = next_pc /\ UNCHANGED <<history, contextTurn, contextRequest, segments, files, index, last>>
    BY <1>3, MoveKeeps
  <1>4. CASE \E outcome \in Context!Summarized : Context!Apply(scope, s, recent, outcome) /\ pc' = next_pc
    BY <1>1, <1>4, ApplyKeeps
  <1>5. CASE Context!Apply(scope, s, recent, "cancelled") /\ pc' = "settle"
    <2>1. PICK outcome : outcome = "cancelled" /\ Context!Apply(scope, s, recent, outcome)
      BY <1>5
    <2>2. pc' # "idle"
      BY <1>5
    <2> QED BY <1>1, <2>1, <2>2, ApplyKeeps
  <1>6. CASE /\ last' = [Context!NoPass EXCEPT !.scope = s, !.outcome = "stopped"] /\ pc' = "settle"
             /\ UNCHANGED <<history, contextTurn, contextRequest, segments, files, index>>
    <2>1. last'.evicted = {} /\ last'.outcome = "stopped"
      BY <1>6 DEF Context!NoPass
    <2>2. PassFits'
      BY <2>1 DEF PassFits, Context!LatestRequestSurvives, Context!SummaryCoversTheSpan
    <2>3. ArchiveFits'
      BY <1>6, ArchiveStays DEF ContextInv
    <2>4. TurnsFit(history, contextTurn, contextRequest, count)' /\ ClaimFits(history, contextTurn, count, pending, pc)'
      BY <1>6 DEF ContextInv, TurnsFit, ClaimFits
    <2> QED BY <2>2, <2>3, <2>4 DEF ContextInv
  <1> QED BY <1>2, <1>3, <1>4, <1>5, <1>6

\* A step that leaves the archive and the last pass alone keeps what the conversation has to be.
LEMMA TurnsKeep ==
  ASSUME ContextInv, UNCHANGED <<segments, files, index, last>>, count' \in Nat,
         TurnsFit(history', contextTurn', contextRequest', count'),
         ClaimFits(history', contextTurn', count', pending', pc')
  PROVE  ContextInv'
  <1>1. ArchiveFits' /\ PassFits'
    BY ArchiveStays, PassStays DEF ContextInv
  <1>2. TurnsFit(history, contextTurn, contextRequest, count)' /\ ClaimFits(history, contextTurn, count, pending, pc)'
    BY DEF TurnsFit, ClaimFits
  <1> QED BY <1>1, <1>2 DEF ContextInv

\* A message that is made.
LEMMA NewIs ==
  ASSUME count \in Nat, NEW kind \in Context!Kinds, NEW size \in Sizes \cup {1}
  PROVE  /\ Context!New(kind, size) \in Messages /\ Context!New(kind, size).id = count + 1
         /\ Context!New(kind, size).kind = kind
  BY DEF Context!New, Messages

\* A turn begins with its request.
LEMMA StartKeeps == ContextInv /\ Context!Start => ContextInv'
  <1> SUFFICES ASSUME ContextInv, Context!Start PROVE ContextInv'
    OBVIOUS
  <1>0. /\ count \in Nat /\ TurnsFit(history, contextTurn, contextRequest, count) /\ count + 1 \in Nat
        /\ ClaimFits(history, contextTurn, count, pending, pc)
    BY DEF ContextInv
  <1>1. PICK size \in Sizes : contextTurn' = <<Context!New("user", size)>>
    BY DEF Context!Start
  <1>2. /\ pc = "idle" /\ count' = count + 1
        /\ UNCHANGED <<history, contextRequest, pending, segments, files, index, last>>
    BY DEF Context!Start, Context!archive
  <1>3. Conversation(history, count) /\ Conversation(contextRequest, count) /\ Apart(history, contextRequest)
    BY <1>0 DEF TurnsFit
  <1>4. Added(contextTurn', count, count + 1)
    <2>1. PICK k \in Context!Kinds : k = "user"
      BY DEF Context!Kinds
    <2>2. Context!New(k, size) \in Messages /\ Context!New(k, size).id = count + 1 /\ Context!New(k, size).kind = k
      BY <1>0, NewIs
    <2>3. contextTurn' = <<Context!New(k, size)>>
      BY <1>1, <2>1
    <2> QED BY <1>0, <2>1, <2>2, <2>3, AddedOne
  <1>5. Conversation(history, count + 1) /\ Apart(history, contextTurn')
    BY <1>0, <1>3, <1>4, AddedJoin
  <1>6. Conversation(contextRequest, count + 1)
    BY <1>0, <1>3, ConversationStays
  <1>7. TurnsFit(history', contextTurn', contextRequest', count')
    BY <1>2, <1>3, <1>4, <1>5, <1>6 DEF TurnsFit, Added
  <1>8. ClaimFits(history', contextTurn', count', pending', pc')
    BY <1>0, <1>2 DEF ClaimFits
  <1> QED BY <1>0, <1>2, <1>7, <1>8, TurnsKeep

\* The request carries the turn, and a follow-up the user typed, once it has a number.
LEMMA PrepareKeeps == ContextInv /\ Context!Prepare => ContextInv'
  <1> SUFFICES ASSUME ContextInv, Context!Prepare PROVE ContextInv'
    OBVIOUS
  <1>0. /\ count \in Nat /\ TurnsFit(history, contextTurn, contextRequest, count) /\ count + 1 \in Nat
        /\ ClaimFits(history, contextTurn, count, pending, pc)
    BY DEF ContextInv
  <1>1. PICK claim \in IF pending THEN {TRUE} ELSE IF FollowUps /\ count < MaxMessages THEN BOOLEAN ELSE {FALSE} :
          /\ pending' = claim
          /\ count' = IF claim /\ ~pending THEN count + 1 ELSE count
          /\ contextRequest' = IF claim THEN Append(contextTurn, [id |-> count', kind |-> "user", size |-> 1])
                               ELSE contextTurn
    BY Zenon DEF Context!Prepare
  <1>2. pc' # "idle" /\ UNCHANGED <<history, contextTurn, segments, files, index, last>>
    BY DEF Context!Prepare, Context!archive
  <1>3. /\ Conversation(history, count) /\ Conversation(contextTurn, count) /\ Apart(history, contextTurn)
        /\ contextTurn \in Seq(Messages)
    BY <1>0 DEF TurnsFit, Conversation
  <1>4. CASE ~claim
    <2>1. ~pending /\ ~pending' /\ count' = count /\ contextRequest' = contextTurn
      BY Zenon, <1>1, <1>4
    <2>2. TurnsFit(history', contextTurn', contextRequest', count')
      BY <1>2, <1>3, <2>1 DEF TurnsFit
    <2>3. ClaimFits(history', contextTurn', count', pending', pc')
      BY <2>1 DEF ClaimFits
    <2> QED BY <1>0, <1>2, <2>1, <2>2, <2>3, TurnsKeep
  <1>5. CASE claim
    <2> DEFINE m == IF pending THEN count - 1 ELSE count
               x == [id |-> count', kind |-> "user", size |-> 1]
    <2>1. claim = TRUE
      BY <1>1, <1>5
    <2>2. /\ m \in Nat /\ count' = m + 1 /\ m + 1 \in Nat /\ m <= m + 1 /\ count <= m + 1
          /\ Numbered(history, m) /\ Numbered(contextTurn, m)
      BY <1>0, <1>1, <1>3, <2>1 DEF ClaimFits, Conversation
    <2> HIDE DEF m
    <2>3. Conversation(history, m) /\ Conversation(contextTurn, m)
      BY <1>3, <2>2 DEF Conversation
    <2>4. x \in Messages /\ x.kind \in {"user", "event", "text"} /\ x.id = m + 1
      BY <2>2 DEF Messages, Context!Kinds
    <2>5. contextRequest' = Append(contextTurn, x)
      BY <1>1, <2>1
    <2> HIDE DEF x
    <2>6. contextRequest' = contextTurn \o <<x>>
      BY <1>3, <2>4, <2>5, AppendIsConcat
    <2>7. Added(<<x>>, m, m + 1)
      BY <2>2, <2>4, AddedOne
    <2> DEFINE b == <<x>>
    <2> HIDE DEF b
    <2>8. /\ Conversation(contextTurn \o b, m + 1) /\ Conversation(contextTurn, m + 1)
          /\ Conversation(history, m + 1) /\ Apart(history, contextTurn \o b)
      BY <1>3, <2>2, <2>3, <2>7, AddedJoin DEF b
    <2>9. TurnsFit(history', contextTurn', contextRequest', count')
      BY <1>2, <1>3, <2>2, <2>6, <2>8 DEF TurnsFit, b
    <2>10. ClaimFits(history', contextTurn', count', pending', pc')
      <3>1. count' > 0 /\ count' - 1 = m
        BY <2>2
      <3> QED BY <1>2, <2>2, <3>1 DEF ClaimFits
    <2> QED BY <1>2, <2>2, <2>9, <2>10, TurnsKeep
  <1> QED BY <1>4, <1>5

\* What the model did becomes part of the turn.
LEMMA TurnGrows ==
  ASSUME ContextInv, NEW n \in Nat, count <= n, NEW b, Added(b, count, n),
         contextTurn' = contextRequest \o b, count' = n, pending' = FALSE,
         UNCHANGED <<history, contextRequest, segments, files, index, last>>
  PROVE  ContextInv'
  <1>0. count \in Nat /\ TurnsFit(history, contextTurn, contextRequest, count)
    BY DEF ContextInv
  <1>1. Conversation(history, count) /\ Conversation(contextRequest, count) /\ Apart(history, contextRequest)
    BY <1>0 DEF TurnsFit
  <1>2. /\ Conversation(contextRequest \o b, n) /\ Conversation(contextRequest, n)
        /\ Conversation(history, n) /\ Apart(history, contextRequest \o b)
    BY <1>0, <1>1, AddedJoin
  <1>3. TurnsFit(history', contextTurn', contextRequest', count')
    BY <1>1, <1>2 DEF TurnsFit
  <1>4. ClaimFits(history', contextTurn', count', pending', pc')
    BY DEF ClaimFits
  <1> QED BY <1>3, <1>4, TurnsKeep

\* Calls and their results.
LEMMA CallsKeeps == ContextInv /\ Context!Calls => ContextInv'
  <1> SUFFICES ASSUME ContextInv, Context!Calls PROVE ContextInv'
    OBVIOUS
  <1>0. count \in Nat /\ contextRequest \in Seq(Messages)
    BY DEF ContextInv, TurnsFit, Conversation
  <1>1. PICK size \in Sizes, results \in 1..2 :
          /\ contextTurn' = contextRequest \o <<Context!New("call", 1)>>
                            \o [i \in 1..results |-> [id |-> count + 1 + i, kind |-> "result", size |-> size]]
          /\ count' = count + 1 + results
    BY Zenon DEF Context!Calls
  <1>2. /\ pending' = FALSE
        /\ UNCHANGED <<history, contextRequest, segments, files, index, last>>
    BY DEF Context!Calls, Context!archive
  <1> DEFINE x == Context!New("call", 1)
             a == <<x>>
             c == [i \in 1..results |-> [id |-> count + 1 + i, kind |-> "result", size |-> size]]
             b == a \o c
  <1>3. x \in Messages /\ x.id = count + 1 /\ x.kind = "call"
    BY <1>0 DEF Context!New, Messages, Context!Kinds
  <1> HIDE DEF x
  <1>4. a \in Seq(Messages) /\ Len(a) = 1 /\ a[1] = x
    BY <1>3
  <1>5. \A i \in 1..results : [id |-> count + 1 + i, kind |-> "result", size |-> size] \in Messages
    BY <1>0 DEF Messages, Context!Kinds
  <1>6. c \in [1..results -> Messages] /\ \A i \in 1..results : c[i].id = count + 1 + i /\ c[i].kind = "result"
    BY <1>5
  <1> HIDE DEF c, a
  <1>7. c \in Seq(Messages) /\ Len(c) = results
    BY <1>6
  <1>8. /\ b \in Seq(Messages) /\ Len(b) = 1 + results
        /\ \A i \in 1..1 + results : b[i] = IF i <= 1 THEN a[i] ELSE c[i - 1]
    <2>1. /\ b \in Seq(Messages) /\ Len(b) = Len(a) + Len(c)
          /\ \A i \in 1..Len(a) + Len(c) : b[i] = IF i <= Len(a) THEN a[i] ELSE c[i - Len(a)]
      BY Zenon, <1>4, <1>7, ConcatProperties
    <2> HIDE DEF b
    <2> QED BY <1>4, <1>7, <2>1
  <1>9. contextTurn' = contextRequest \o b
    <2>1. (contextRequest \o a) \o c = contextRequest \o (a \o c)
      BY SMTT(40), <1>0, <1>4, <1>7, ConcatAssociative
    <2> QED BY Zenon, <1>1, <2>1 DEF a, c, x
  <1> HIDE DEF b
  <1>10. \A i \in 1..results + 1 : b[i].id = count + i /\ b[i].kind = IF i = 1 THEN "call" ELSE "result"
    <2> SUFFICES ASSUME NEW i \in 1..results + 1
                 PROVE  b[i].id = count + i /\ b[i].kind = IF i = 1 THEN "call" ELSE "result"
      OBVIOUS
    <2>1. CASE i = 1
      BY <1>3, <1>4, <1>8, <2>1
    <2>2. CASE i # 1
      <3>1. i - 1 \in 1..results /\ ~(i <= 1) /\ count + 1 + (i - 1) = count + i /\ i \in 1..1 + results
        BY <1>0, <2>2
      <3>2. b[i] = c[i - 1] /\ c[i - 1].id = count + 1 + (i - 1) /\ c[i - 1].kind = "result"
        BY <1>6, <1>8, <3>1
      <3> QED BY <2>2, <3>1, <3>2
    <2> QED BY <2>1, <2>2
  <1>11. Added(b, count, count + 1 + results)
    <2>1. Len(b) = results + 1
      BY <1>8
    <2> QED BY Zenon, <1>0, <1>8, <1>10, <2>1, AddedExchange
  <1>12. count + 1 + results \in Nat /\ count <= count + 1 + results
    BY <1>0
  <1> QED BY Zenon, <1>1, <1>2, <1>9, <1>11, <1>12, TurnGrows

\* An answer that is not accepted, and what corrects it.
LEMMA CorrectedKeeps == ContextInv /\ Context!Corrected => ContextInv'
  <1> SUFFICES ASSUME ContextInv, Context!Corrected PROVE ContextInv'
    OBVIOUS
  <1>0. count \in Nat
    BY DEF ContextInv
  <1> DEFINE x == Context!New("text", 1)
             y == [id |-> count + 2, kind |-> "event", size |-> 1]
             b == <<x, y>>
  <1>1. /\ contextTurn' = contextRequest \o b /\ count' = count + 2 /\ pending' = FALSE
        /\ UNCHANGED <<history, contextRequest, segments, files, index, last>>
    BY DEF Context!Corrected, Context!archive
  <1>2. /\ x \in Messages /\ x.id = count + 1 /\ x.kind = "text"
        /\ y \in Messages /\ y.id = count + 2 /\ y.kind = "event"
    BY <1>0 DEF Context!New, Messages, Context!Kinds
  <1> HIDE DEF x, y
  <1>3. b \in Seq(Messages) /\ Len(b) = 2 /\ b[1] = x /\ b[2] = y /\ \A i \in 1..2 : i = 1 \/ i = 2
    BY <1>2
  <1> HIDE DEF b
  <1>4. /\ Whole(b) /\ Distinct(b) /\ Numbered(b, count + 2)
        /\ \A i \in 1..Len(b) : b[i].kind # "summary" /\ b[i].id > count
    <2>1. \A i \in 1..Len(b) : b[i].kind \in {"text", "event"} /\ b[i].id = count + i
      BY <1>0, <1>2, <1>3
    <2>2. Whole(b)
      BY <2>1 DEF Whole
    <2>3. \A i \in 1..Len(b) : b[i].kind # "summary" /\ b[i].id > count /\ b[i].id \in 1..count + 2
      BY <1>0, <1>3, <2>1
    <2>4. Distinct(b)
      BY <1>0, <1>3, <2>1 DEF Distinct
    <2> QED BY <2>2, <2>3, <2>4 DEF Numbered
  <1>5. Added(b, count, count + 2)
    BY <1>3, <1>4 DEF Added, Conversation
  <1>6. count + 2 \in Nat /\ count <= count + 2
    BY <1>0
  <1> QED BY Zenon, <1>1, <1>5, <1>6, TurnGrows

\* A turn that ends becomes part of the history.
LEMMA TurnEndKeeps ==
  ASSUME ContextInv, NEW messages, NEW k \in Nat, Context!Finish(messages, k),
         Conversation(messages, count + k), Apart(history, messages),
         UNCHANGED <<segments, files, index, last>>
  PROVE  ContextInv'
  <1>0. count \in Nat /\ count + k \in Nat /\ count <= count + k /\ Conversation(history, count)
    BY DEF ContextInv, TurnsFit
  <1>1. /\ history' = history \o messages /\ contextTurn' = <<>> /\ contextRequest' = <<>>
        /\ pending' = FALSE /\ count' = count + k
    BY DEF Context!Finish
  <1>2. Conversation(history, count + k)
    BY <1>0, ConversationStays
  <1> DEFINE n == count + k
  <1>3. n \in Nat /\ Conversation(history, n) /\ Conversation(messages, n) /\ count' = n
    BY <1>0, <1>1, <1>2
  <1> HIDE DEF n
  <1>4. Conversation(history \o messages, n)
    BY <1>3, ConversationsJoin
  <1>5. TurnsFit(history', contextTurn', contextRequest', count')
    BY <1>1, <1>3, <1>4, NoConversation DEF TurnsFit
  <1>6. ClaimFits(history', contextTurn', count', pending', pc')
    BY <1>1 DEF ClaimFits
  <1> QED BY <1>3, <1>5, <1>6, TurnsKeep

\* With one message more.
LEMMA FinishMore ==
  ASSUME ContextInv, NEW t, Conversation(t, count), Apart(history, t),
         NEW x \in Messages, x.kind \in {"user", "event", "text"}, x.id = count + 1,
         Context!Finish(Append(t, x), 1), UNCHANGED <<segments, files, index, last>>
  PROVE  ContextInv'
  <1>0. count \in Nat /\ count + 1 \in Nat /\ count <= count + 1 /\ Conversation(history, count) /\ t \in Seq(Messages)
    BY DEF ContextInv, TurnsFit, Conversation
  <1> DEFINE b == <<x>>
  <1>1. Added(b, count, count + 1)
    BY <1>0, AddedOne
  <1>2. Append(t, x) = t \o b
    BY <1>0, AppendIsConcat
  <1> HIDE DEF b
  <1>3. Conversation(t \o b, count + 1) /\ Apart(history, t \o b)
    BY <1>0, <1>1, AddedJoin
  <1>4. PICK k \in Nat : k = 1
    OBVIOUS
  <1>5. Context!Finish(t \o b, k) /\ Conversation(t \o b, count + k)
    BY <1>2, <1>3, <1>4
  <1> QED BY <1>3, <1>5, TurnEndKeeps

\* An answer that is accepted, or a request that failed for good.
LEMMA AnswerKeeps == ContextInv /\ (Context!Answer \/ Context!Fails) => ContextInv'
  <1> SUFFICES ASSUME ContextInv, Context!Answer \/ Context!Fails PROVE ContextInv'
    OBVIOUS
  <1>0. /\ count \in Nat /\ Conversation(contextRequest, count) /\ Apart(history, contextRequest)
    BY DEF ContextInv, TurnsFit
  <1>1. CASE Context!Answer
    <2> DEFINE x == Context!New("text", 1)
    <2>1. Context!Finish(Append(contextRequest, x), 1) /\ UNCHANGED <<segments, files, index, last>>
      BY <1>1 DEF Context!Answer, Context!archive
    <2>2. x \in Messages /\ x.id = count + 1 /\ x.kind = "text"
      BY <1>0 DEF Context!New, Messages, Context!Kinds
    <2> HIDE DEF x
    <2> QED BY <1>0, <2>1, <2>2, FinishMore
  <1>2. CASE Context!Fails
    <2>1. PICK k \in Nat : k = 0
      OBVIOUS
    <2>2. Context!Finish(contextRequest, k) /\ UNCHANGED <<segments, files, index, last>>
      BY <1>2, <2>1 DEF Context!Fails, Context!archive
    <2>3. Conversation(contextRequest, count + k)
      BY <1>0, <2>1
    <2> QED BY <1>0, <2>2, <2>3, TurnEndKeeps
  <1> QED BY <1>1, <1>2

\* A turn that was interrupted is settled.
LEMMA SettledKeeps == ContextInv /\ Context!Settle => ContextInv'
  <1> SUFFICES ASSUME ContextInv, Context!Settle PROVE ContextInv'
    OBVIOUS
  <1>0. /\ count \in Nat /\ Conversation(contextTurn, count) /\ Apart(history, contextTurn)
    BY DEF ContextInv, TurnsFit
  <1>1. PICK k \in Nat : k = 0
    OBVIOUS
  <1> DEFINE x == Context!New("user", 1)
  <1>2. UNCHANGED <<segments, files, index, last>>
    BY DEF Context!Settle, Context!archive
  <1>3. \/ Context!Finish(contextTurn, k) \/ Context!Finish(<<>>, k) \/ Context!Finish(Append(contextTurn, x), 1)
    BY <1>1 DEF Context!Settle
  <1>4. x \in Messages /\ x.id = count + 1 /\ x.kind = "user"
    BY <1>0 DEF Context!New, Messages, Context!Kinds
  <1> HIDE DEF x
  <1>5. CASE Context!Finish(contextTurn, k)
    <2>1. Conversation(contextTurn, count + k)
      BY <1>0, <1>1
    <2> QED BY <1>0, <1>2, <1>5, <2>1, TurnEndKeeps
  <1>6. CASE Context!Finish(<<>>, k)
    <2>1. PICK t : t = <<>> /\ Context!Finish(t, k)
      BY <1>6
    <2>2. Conversation(t, count + k) /\ Apart(history, t)
      BY <2>1, NoConversation
    <2> QED BY <1>2, <2>1, <2>2, TurnEndKeeps
  <1>7. CASE Context!Finish(Append(contextTurn, x), 1)
    BY <1>0, <1>2, <1>4, <1>7, FinishMore
  <1> QED BY <1>3, <1>5, <1>6, <1>7

\* A pass the user asks for between two turns.
LEMMA CompactKeeps == ContextInv /\ Context!Compact => ContextInv'
  <1> SUFFICES ASSUME ContextInv, Context!Compact PROVE ContextInv'
    OBVIOUS
  <1>1. PICK outcome \in Context!Summarized : Context!Apply("history", history, Recent, outcome)
    BY DEF Context!Compact
  <1>2. UNCHANGED <<pc, pending, count>>
    BY DEF Context!Compact
  <1>3. PICK scope : scope = "history"
    OBVIOUS
  <1>4. Context!Apply(scope, history, Recent, outcome) /\ Scope(scope, history) /\ Recent \in Nat
    BY <1>1, <1>3, ContextConstants DEF Scope
  <1> QED BY <1>2, <1>4, ApplyKeeps

\* The passes a turn makes.
LEMMA PassesKeep == ContextInv /\ (Context!HistoryPass \/ Context!TurnPass) => ContextInv'
  <1> SUFFICES ASSUME ContextInv, Context!HistoryPass \/ Context!TurnPass PROVE ContextInv'
    OBVIOUS
  <1>1. UNCHANGED <<pending, count>>
    BY DEF Context!HistoryPass, Context!TurnPass
  <1>2. \E scope, s, next_pc : Scope(scope, s) /\ next_pc # "idle" /\ Context!Pass(scope, s, next_pc)
    BY DEF Context!HistoryPass, Context!TurnPass, Scope
  <1> QED BY <1>1, <1>2, PassKeeps

\* Each step of compaction keeps the invariant.
LEMMA ContextStep == ContextInv /\ Context!Next => ContextInv'
  <1> SUFFICES ASSUME ContextInv, Context!Next PROVE ContextInv'
    OBVIOUS
  <1>1. CASE Context!SkipTurnPass \/ Context!Resend
    <2>1. /\ UNCHANGED <<history, contextTurn, contextRequest, pending, segments, files, index, count, last>>
          /\ pc' # "idle"
      BY <1>1 DEF Context!SkipTurnPass, Context!Resend, Context!archive
    <2> QED BY <2>1, MoveKeeps
  <1> QED BY <1>1, StartKeeps, PrepareKeeps, PassesKeep, CallsKeeps, CorrectedKeeps, AnswerKeeps, SettledKeeps,
             CompactKeeps DEF Context!Next

\* So does each step of the services.
LEMMA ContextStays == ContextInv /\ UNCHANGED contextVars => ContextInv'
  <1> SUFFICES ASSUME ContextInv, UNCHANGED contextVars PROVE ContextInv'
    OBVIOUS
  <1>1. UNCHANGED <<history, contextTurn, contextRequest, pending, segments, files, index, count, last, pc>>
    BY DEF contextVars
  <1> QED BY <1>1, MoveKeeps
LEMMA ContextInvariant == Spec => []ContextInv
  <1>1. Init => ContextInv
    BY ContextStarts DEF Init
  <1>2. ContextInv /\ [Next]_vars => ContextInv'
    BY ContextStep, ContextStays DEF Next, vars
  <1> QED BY <1>1, <1>2, PTL DEF Spec

\* Compaction may be done at any moment, in the history or the running turn,
\* between turns or within one, and end in a summary, without one, cancelled
\* or stopped: no exchange of a call and its results is split, the request a
\* turn is executing stays, the summarizer is shown all that goes, and a
\* history file names one span for good, for any window, budget, number of
\* messages, passes and retained segments (compaction.py:446, 485, 523,
\* context.py:512, history.py:145).
THEOREM EvictionStaysWhole == Spec => []EvictionIsWhole
  <1>1. ContextInv => EvictionIsWhole
    <2> SUFFICES ASSUME ContextInv PROVE EvictionIsWhole
      OBVIOUS
    <2>1. /\ Context!LatestRequestSurvives /\ Context!SummaryCoversTheSpan /\ Context!FilesNameOneSpan
      BY DEF ContextInv, PassFits, ArchiveFits
    <2> DEFINE s == history \o contextRequest
    <2>2. s \in Seq(Messages) /\ Whole(s)
      <3>1. history \in Seq(Messages) /\ contextRequest \in Seq(Messages) /\ Whole(history) /\ Whole(contextRequest)
        BY DEF ContextInv, TurnsFit, Conversation
      <3> QED BY <3>1, WholeJoin, ConcatProperties
    <2>3. Context!Projection = s
      BY DEF Context!Projection
    <2> HIDE DEF s
    <2>4. Context!ExchangesAreWhole
      BY <2>2, <2>3, MessageIs DEF Context!ExchangesAreWhole, Whole
    <2> QED BY <2>1, <2>4 DEF EvictionIsWhole
  <1> QED BY <1>1, ContextInvariant, PTL
=============================================================================
