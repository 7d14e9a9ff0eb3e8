------------------------------- MODULE Images -------------------------------
(***************************************************************************)
(* Local images of one session (image.py, session/images.py, the image     *)
(* paths of agent/engine.py, session/store.py and ui/cli/runtime.py).      *)
(*                                                                         *)
(* An attached file is copied into the session's assets under the digest   *)
(* of its bytes; from then on only the digest travels: in a draft, a       *)
(* queue entry, a message.  Every save collects the assets that neither    *)
(* the captured messages, nor the queue, nor `retained_refs` name.  A      *)
(* provider that answers 400 to an image teaches the session that the      *)
(* route is text-only; the [vision] entry, which is paid, then describes   *)
(* the image.                                                              *)
(*                                                                         *)
(* An image is [id, img, src]: the occurrence, the digest, and whether it  *)
(* still names the user's file instead of an asset; in a message `raw`     *)
(* says that it goes to the provider as pixels.  The loop's tasks are the  *)
(* submissions consumer and the engine; a save's worker runs between the   *)
(* plan and the write.  Plugins, hooks and mentions are the time they      *)
(* take, wire shapes and token estimates are left out.                     *)
(***************************************************************************)
EXTENDS Naturals, Sequences, FiniteSets, SequencesExt

CONSTANTS Contents,      \* what the user's file can hold; also the digests
          Routes,        \* identities a model route can have (ImageRoute.identity)
          HasVision,     \* whether [vision] names an entry
          Overlaps,      \* whether two overlaps may happen: a save while an image is between its pin and
                         \* its stage, and the same bytes attached twice at once (the pins are a set)
          MaxImages, MaxEdits, MaxRetries, MaxSwitches, MaxCrashes

VARIABLES file,      \* the bytes of the user's file, or "gone"
          draft,     \* what the editor holds: at most one image
          consumer,  \* the submissions consumer: [pc, item, seen]
          opening,   \* inputs admitted with no turn running (TuiRuntime.pending)
          queue,     \* pending_user_inputs: images with `inflight`
          engine,    \* the turn: [pc, item, seen, then]
          turn, staged, history,  \* the live turn, its copy in the session, the committed messages
          current,   \* ids of _current_image_messages
          request,   \* [messages, pending, fallback]: what prepare_request or an image fallback built
          pinned,    \* retained_refs
          gate,      \* who holds _save_gate
          plan,      \* the save being written: [names, refs, record]
          assets, durable, \* the assets directory; the messages and queue of the last written record
          route, learned,  \* the active route; the routes known to be text-only
          rawSent, failed, paid, \* ids the last request carried as pixels; ids of failed turns; observations of an id
          count      \* how often each bounded event happened

iVars == <<file, draft, consumer, opening, queue, engine, turn, staged, history, current, request,
           pinned, gate, plan, assets, durable, route, learned, rawSent, failed, paid, count>>

Nothing == <<>>
Ids == 1..MaxImages
NoRequest == [messages |-> <<>>, pending |-> {}, fallback |-> FALSE]
Resting == [pc |-> "idle", item |-> Nothing, seen |-> "gone", then |-> "idle"]

Digests(messages) == {messages[i].img : i \in 1..Len(messages)}
IdsOf(messages) == {messages[i].id : i \in 1..Len(messages)}
Message(o) == [id |-> o.id, img |-> o.img, raw |-> TRUE]
RawIds(messages) == {m.id : m \in {messages[i] : i \in {j \in 1..Len(messages) : messages[j].raw}}}

\* is_text_only, learned part; the static part is a route learned from the start.
TextOnly == route \in learned
\* delivery: a text-only route is served by [vision] only where there is one.
Bridged == TextOnly /\ HasVision

----------------------------------------------------------------------------
(* Saves and what they collect *)

\* Mutant: pins are not roots.
AssetRefs_mut == Digests(history) \cup Digests(staged) \cup Digests(queue)

\* _asset_refs: the messages a save captures, the queue and the pins.
AssetRefs == Digests(history) \cup Digests(staged) \cup Digests(queue) \cup pinned

\* Stored images somebody in memory still means to use.
Carried == {item.img : item \in {i \in {opening[k] : k \in 1..Len(opening)} : ~i.src}}
             \cup Digests(queue) \cup Digests(turn) \cup Digests(history) \cup Digests(staged)
             \cup (IF engine.pc \in {"admit", "hold", "viewed"} /\ engine.item # Nothing
                     THEN {engine.item.img} ELSE {})
             \cup (IF draft # Nothing /\ ~draft.src THEN {draft.img} ELSE {})
             \cup (IF consumer.item # Nothing /\ ~consumer.item.src THEN {consumer.item.img} ELSE {})

\* Between the message's construction, which drops the pin, and the turn's staging (and between
\* accept_pending_inputs and the next checkpoint) an image is in nothing a save looks at.
Unstaged == \/ engine.pc \in {"admit", "hold"} /\ engine.item # Nothing
            \/ ~(IdsOf(turn) \subseteq IdsOf(staged) \cup IdsOf(history))

\* _save_gate: one save or one publication of an asset at a time.
GateIsFree(who) == gate = "none"

\* save_snapshot up to the write: the plan is frozen while the gate is held.
Plan(who) == /\ GateIsFree(who) /\ plan = Nothing
             /\ Overlaps \/ ~Unstaged
             /\ gate' = who
             /\ plan' = [names |-> assets, refs |-> AssetRefs,
                         record |-> [messages |-> history \o staged,
                                     queue |-> [i \in 1..Len(queue) |-> [queue[i] EXCEPT !.inflight = FALSE]]]]

\* _collect_assets: only what was there when the plan was made and what it does not name.
Collected(p) == p.names \ p.refs

\* The worker writes the record, collects, and the gate is released.
Written == /\ plan # Nothing
           /\ assets' = assets \ Collected(plan)
           /\ durable' = plan.record
           /\ plan' = Nothing /\ gate' = "none"

ConsumerPlans == /\ consumer.pc = "save" /\ Plan("consumer")
                 /\ consumer' = [consumer EXCEPT !.pc = "write"]
                 /\ UNCHANGED <<file, draft, opening, queue, engine, turn, staged, history, current, request,
                                pinned, assets, durable, route, learned, rawSent, failed, paid, count>>
ConsumerWrites == /\ consumer.pc = "write" /\ Written
                  /\ consumer' = Resting
                  /\ UNCHANGED <<file, draft, opening, queue, engine, turn, staged, history, current, request,
                                 pinned, route, learned, rawSent, failed, paid, count>>
\* Every save of the engine continues at `then`.
EnginePlans == /\ engine.pc = "save" /\ Plan("engine")
               /\ engine' = [engine EXCEPT !.pc = "write"]
               /\ UNCHANGED <<file, draft, consumer, opening, queue, turn, staged, history, current, request,
                              pinned, assets, durable, route, learned, rawSent, failed, paid, count>>
EngineWrites == /\ engine.pc = "write" /\ Written
                /\ engine' = [Resting EXCEPT !.pc = engine.then]
                /\ UNCHANGED <<file, draft, consumer, opening, queue, turn, staged, history, current, request,
                               pinned, route, learned, rawSent, failed, paid, count>>

Saves == ConsumerPlans \/ ConsumerWrites \/ EnginePlans \/ EngineWrites

----------------------------------------------------------------------------
(* Recognition and admission *)

EditFile(c) == /\ count.edits < MaxEdits /\ c # file
               /\ file' = c /\ count' = [count EXCEPT !.edits = @ + 1]
               /\ UNCHANGED <<draft, consumer, opening, queue, engine, turn, staged, history, current, request,
                              pinned, gate, plan, assets, durable, route, learned, rawSent, failed, paid>>

\* recognize: the path in the editor's text becomes a marker with what the file holds now.
\* The editor holds one image, the one under admission included.
Recognize == /\ draft = Nothing /\ consumer.item = Nothing /\ file # "gone" /\ count.images < MaxImages
             /\ draft' = [id |-> count.images + 1, img |-> file, src |-> TRUE]
             /\ count' = [count EXCEPT !.images = @ + 1]
             /\ UNCHANGED <<file, consumer, opening, queue, engine, turn, staged, history, current, request,
                            pinned, gate, plan, assets, durable, route, learned, rawSent, failed, paid>>

\* submit_accepted: the draft joins the consumer's FIFO (here: when it is next).
Submit == /\ draft # Nothing /\ consumer.pc = "idle"
          /\ consumer' = [Resting EXCEPT !.pc = "admit", !.item = draft] /\ draft' = Nothing
          /\ UNCHANGED <<file, opening, queue, engine, turn, staged, history, current, request,
                         pinned, gate, plan, assets, durable, route, learned, rawSent, failed, paid, count>>

\* Second half: the copy's digest must be what was inspected, an image without a file must be there.
Storable(task) == IF task.item.src THEN task.seen # "gone" /\ file = task.seen ELSE task.item.img \in assets
Stored(task) == [task.item EXCEPT !.img = IF task.item.src THEN task.seen ELSE @, !.src = FALSE]

\* Mutant: an admitted image is not pinned.
Retained_mut(o) == pinned

Retained(o) == pinned \cup {o.img}

\* message(): the reference now belongs to a message, the pin is dropped.
Unpinned(o) == pinned \ {o.img}

\* _store, first half, under the gate: an image of a file is inspected again.
ConsumerInspects == /\ consumer.pc = "admit" /\ GateIsFree("consumer")
                    /\ Overlaps \/ ~consumer.item.src \/ file \notin Carried
                    /\ gate' = "consumer"
                    /\ consumer' = [consumer EXCEPT !.pc = "copy", !.seen = file]
                    /\ UNCHANGED <<file, draft, opening, queue, engine, turn, staged, history, current, request,
                                   pinned, plan, assets, durable, route, learned, rawSent, failed, paid, count>>

\* admit: published and pinned before the gate is released; a refused draft goes back to the editor.
ConsumerCopies == /\ consumer.pc = "copy" /\ gate' = "none"
                  /\ IF Storable(consumer)
                       THEN /\ assets' = assets \cup {Stored(consumer).img}
                            /\ pinned' = Retained(Stored(consumer))
                            /\ consumer' = [consumer EXCEPT !.pc = "admitted", !.item = Stored(consumer)]
                            /\ UNCHANGED draft
                       ELSE /\ draft' = consumer.item
                            /\ consumer' = Resting
                            /\ UNCHANGED <<assets, pinned>>
                  /\ UNCHANGED <<file, opening, queue, engine, turn, staged, history, current, request, plan,
                                 durable, route, learned, rawSent, failed, paid, count>>

\* No turn runs: the input waits for the loop.  A turn runs: enqueue_user_input, then the save.
Admitted == /\ consumer.pc = "admitted"
            /\ \/ /\ engine.pc = "idle"
                  /\ opening' = Append(opening, consumer.item) /\ consumer' = Resting
                  /\ UNCHANGED <<queue, pinned>>
               \/ /\ engine.pc # "idle"
                  /\ queue' = Append(queue, [id |-> consumer.item.id, img |-> consumer.item.img, raw |-> TRUE,
                                             inflight |-> FALSE])
                  /\ pinned' = Unpinned(consumer.item)
                  /\ consumer' = [Resting EXCEPT !.pc = "save"]
                  /\ UNCHANGED opening
            /\ UNCHANGED <<file, draft, engine, turn, staged, history, current, request, gate, plan, assets,
                           durable, route, learned, rawSent, failed, paid, count>>

\* Mutant: a recalled image has no owner until it is submitted again.
RecallPins_mut(o) == pinned

RecallPins(o) == pinned \cup {o.img}

\* recall_pending_input: the newest entry goes back to the editor; one already in a request asks
\* the client to drop the attempt and prepare it again (an image fallback is resent as it is, the
\* recalled input included; handed in again, that one would be another occurrence: left out), and the
\* change is saved.
Recall == /\ queue # <<>> /\ draft = Nothing /\ consumer.pc = "idle"
          /\ Last(queue).inflight => count.retries < MaxRetries
          /\ draft' = IF Last(queue).inflight /\ request.fallback THEN Nothing
                      ELSE [id |-> Last(queue).id, img |-> Last(queue).img, src |-> FALSE]
          /\ queue' = [i \in 1..(Len(queue) - 1) |->
                         [queue[i] EXCEPT !.inflight = @ /\ ~Last(queue).inflight]]
          /\ pinned' = RecallPins(Last(queue))
          /\ LET again == Last(queue).inflight /\ engine.pc = "sent" /\ ~request.fallback IN
               /\ engine' = IF again THEN [engine EXCEPT !.pc = "prepare"] ELSE engine
               /\ request' = IF again THEN NoRequest ELSE request
          /\ count' = [count EXCEPT !.retries = @ + (IF Last(queue).inflight THEN 1 ELSE 0)]
          /\ consumer' = [Resting EXCEPT !.pc = "save"]
          /\ UNCHANGED <<file, opening, turn, staged, history, current, gate, plan, assets, durable, route,
                         learned, rawSent, failed, paid>>

Admission == \/ \E c \in Contents \cup {"gone"} : EditFile(c)
             \/ Recognize \/ Submit \/ ConsumerInspects \/ ConsumerCopies \/ Admitted \/ Recall

----------------------------------------------------------------------------
(* The turn *)

\* The loop starts a turn with the oldest input, or with what the last turn left in the queue
\* (take_pending_inputs), or with plain text.
StartTurn == /\ engine.pc = "idle" /\ consumer.pc \notin {"copy"}
             /\ \/ /\ opening # <<>>
                   /\ engine' = [Resting EXCEPT !.pc = "admit", !.item = Head(opening)]
                   /\ opening' = Tail(opening) /\ UNCHANGED queue
                \/ /\ opening = <<>> /\ queue # <<>>
                   /\ engine' = [Resting EXCEPT !.pc = "admit",
                                 !.item = [id |-> Head(queue).id, img |-> Head(queue).img, src |-> FALSE]]
                   /\ queue' = Tail(queue) /\ UNCHANGED opening
                \/ /\ opening = <<>> /\ queue = <<>> /\ count.images < MaxImages
                   /\ engine' = [Resting EXCEPT !.pc = "hold"] /\ UNCHANGED <<opening, queue>>
             /\ rawSent' = {}
             /\ UNCHANGED <<file, draft, consumer, turn, staged, history, current, request, pinned, gate, plan,
                            assets, durable, route, learned, failed, paid, count>>

\* _run_turn: admit once more (a check: the asset is there), then message() drops the pin.  A missing
\* asset refuses the turn before there is one.
Admits == /\ engine.pc = "admit" /\ GateIsFree("engine")
          /\ IF Storable(engine)
               THEN engine' = [engine EXCEPT !.pc = "hold"] /\ pinned' = Unpinned(engine.item)
               ELSE engine' = Resting /\ UNCHANGED pinned
          /\ UNCHANGED <<file, draft, consumer, opening, queue, turn, staged, history, current, request, plan,
                         gate, assets, durable, route, learned, rawSent, failed, paid, count>>

\* The prompt was admitted (plugins, hooks and mentions took their time): the turn is staged and saved.
Opens == /\ engine.pc = "hold"
         /\ turn' = (IF engine.item = Nothing THEN <<>> ELSE <<Message(engine.item)>>)
         /\ staged' = turn' /\ current' = IdsOf(turn')
         /\ engine' = [Resting EXCEPT !.pc = "save", !.then = "prepare"]
         /\ UNCHANGED <<file, draft, consumer, opening, queue, history, request, pinned, gate, plan, assets,
                        durable, route, learned, rawSent, failed, paid, count>>

\* observe_current: each current occurrence that is still raw is described and becomes text.
Described(messages, ids) == [i \in 1..Len(messages) |->
                               [messages[i] EXCEPT !.raw = @ /\ messages[i].id \notin ids]]
Observed(messages, ids) == RawIds(messages) \cap ids
Paid(ids) == [i \in Ids |-> paid[i] + (IF i \in ids THEN 1 ELSE 0)]

\* Mutant: the failed occurrences stay as they are.
SettledFailed_mut(messages) == messages

\* settle_failed_messages: no image of a failed turn goes out as pixels again.
SettledFailed(messages) == [i \in 1..Len(messages) |-> [messages[i] EXCEPT !.raw = FALSE]]

Released(q) == [i \in 1..Len(q) |-> [q[i] EXCEPT !.inflight = FALSE]]

\* The error path of _run_turn: images settled, claims released, the turn committed and saved.
FailTurn(messages, left) ==
    /\ failed' = failed \cup IdsOf(messages) /\ rawSent' = {}
    /\ history' = history \o SettledFailed(messages)
    /\ queue' = Released(left)
    /\ turn' = <<>> /\ staged' = <<>> /\ current' = {} /\ request' = NoRequest
    /\ engine' = [Resting EXCEPT !.pc = "save"]

\* prepare_request: claim the queue; on a bridged route describe the current occurrences first.
Prepare == /\ engine.pc = "prepare"
           /\ LET claimed == [i \in 1..Len(queue) |-> [id |-> queue[i].id, img |-> queue[i].img, raw |-> TRUE]]
                  built   == turn \o claimed
                  now     == Observed(built, current \cup IdsOf(claimed))
              IN \/ \* described, or nothing to describe
                    /\ request' = [messages |-> IF Bridged THEN Described(built, now) ELSE built,
                                   pending |-> IdsOf(claimed), fallback |-> FALSE]
                    /\ Bridged => \A i \in now : paid[i] < 2
                    /\ paid' = IF Bridged THEN Paid(now) ELSE paid
                    /\ turn' = IF Bridged /\ queue = <<>> /\ now # {} THEN Described(turn, now) ELSE turn
                    /\ queue' = [i \in 1..Len(queue) |-> [queue[i] EXCEPT !.inflight = TRUE]]
                    /\ engine' = [engine EXCEPT !.pc = "sent"]
                    /\ rawSent' = IF TextOnly THEN {} ELSE RawIds(history \o request'.messages)
                    /\ current' = current \cup IdsOf(claimed)
                    /\ UNCHANGED <<staged, history, failed>>
                 \/ \* the vision entry failed, maybe after some descriptions were paid
                    /\ Bridged /\ now # {}
                    /\ \E done \in {s \in SUBSET now : s # now} :
                          /\ \A i \in done : paid[i] < 2
                          /\ paid' = Paid(done)
                    /\ FailTurn(turn, queue)
           /\ UNCHANGED <<file, draft, consumer, opening, pinned, gate, plan, assets, durable, route, learned, count>>

\* accept_pending_inputs: the turn is what was sent, its follow-ups leave the queue.
Unclaimed(q, ids) == SelectSeq(q, LAMBDA e : e.id \notin ids)

\* _eligible_image_fallback: a 400 to a request with current pixels on a route not known to be text-only.
Eligible == ~TextOnly /\ RawIds(request.messages) \cap current # {}

\* load_payloads verifies every raw asset before the request leaves; a missing one fails the turn,
\* and so does a provider's error, or a vision entry that fails after the 400.  Follow-ups of a
\* failed request stay with it.
SendFails == /\ engine.pc = "sent"
             /\ learned' \in {learned} \cup (IF Eligible THEN {learned \cup {route}} ELSE {})
             /\ FailTurn(request.messages, Unclaimed(queue, request.pending))
             /\ UNCHANGED <<file, draft, consumer, opening, pinned, gate, plan, assets, durable, route, paid, count>>

\* A 400 the fallback takes: learned, described, and sent once more as text.
Rejected == /\ engine.pc = "sent" /\ Eligible
            /\ learned' = learned \cup {route}
            /\ IF HasVision
                 THEN /\ \A i \in Observed(request.messages, current) : paid[i] < 2
                      /\ paid' = Paid(Observed(request.messages, current))
                      /\ request' = [request EXCEPT !.messages = Described(@, current), !.fallback = TRUE]
                      /\ rawSent' = {}
                      /\ UNCHANGED <<engine, queue, turn, staged, history, current, failed>>
                 ELSE /\ FailTurn(request.messages, Unclaimed(queue, request.pending))
                      /\ UNCHANGED paid
            /\ UNCHANGED <<file, draft, consumer, opening, pinned, gate, plan, assets, durable, route, count>>

\* An answer: the turn adopts the messages that were sent.  It ends, goes on, or calls ViewImage.
Accepted == /\ engine.pc = "sent"
            /\ \A m \in Range(history \o request.messages) : m.id \in rawSent => m.img \in assets
            /\ turn' = request.messages /\ queue' = Unclaimed(queue, request.pending)
            /\ current' = {} /\ request' = NoRequest
            /\ \/ engine' = [Resting EXCEPT !.pc = "tools"] /\ UNCHANGED <<staged, history>>
               \/ /\ history' = history \o turn' /\ staged' = <<>>
                  /\ engine' = [Resting EXCEPT !.pc = "finished"]
            /\ UNCHANGED <<file, draft, consumer, opening, pinned, gate, plan, assets, durable, route, learned,
                           rawSent, failed, paid, count>>

\* A tool batch without an image, or one whose plugins save around an operation; then the checkpoint.
Batch == /\ engine.pc = "tools"
         /\ \/ /\ staged' = turn /\ engine' = [Resting EXCEPT !.pc = "save", !.then = "prepare"]
            \/ /\ staged' = staged
               /\ engine' = [Resting EXCEPT !.pc = "save", !.then = "checkpoint"]
         /\ UNCHANGED <<file, draft, consumer, opening, queue, turn, history, current, request, pinned, gate, plan,
                        assets, durable, route, learned, rawSent, failed, paid, count>>
Checkpoint == /\ engine.pc = "checkpoint"
              /\ staged' = turn /\ engine' = [Resting EXCEPT !.pc = "save", !.then = "prepare"]
              /\ UNCHANGED <<file, draft, consumer, opening, queue, turn, history, current, request, pinned, gate,
                             plan, assets, durable, route, learned, rawSent, failed, paid, count>>

\* ViewImage: load under the gate, pinned ...
View == /\ engine.pc = "tools" /\ file # "gone" /\ count.images < MaxImages
        /\ GateIsFree("engine") /\ (Overlaps \/ file \notin Carried)
        /\ assets' = assets \cup {file} /\ pinned' = pinned \cup {file}
        /\ engine' = [Resting EXCEPT !.pc = "viewed",
                      !.item = [id |-> count.images + 1, img |-> file, src |-> FALSE]]
        /\ count' = [count EXCEPT !.images = @ + 1]
        /\ UNCHANGED <<file, draft, consumer, opening, queue, turn, staged, history, current, request, gate, plan,
                       durable, route, learned, rawSent, failed, paid>>
\* ... then described at once on a bridged route, or left raw; the observation joins the turn.
Viewed == /\ engine.pc = "viewed"
          /\ LET o == Message(engine.item) IN
               /\ turn' = Append(turn, [o EXCEPT !.raw = ~Bridged])
               /\ paid' = IF Bridged THEN Paid({o.id}) ELSE paid
               /\ current' = IF Bridged THEN current ELSE current \cup {o.id}
          /\ pinned' = Unpinned(engine.item)
          /\ engine' = [Resting EXCEPT !.pc = "checkpoint"]
          /\ UNCHANGED <<file, draft, consumer, opening, queue, staged, history, request, gate, plan, assets,
                         durable, route, learned, rawSent, failed, count>>

\* The runtime's turn boundary: save, then the queue is taken for the next turn.
Boundary == /\ engine.pc = "finished"
            /\ turn' = <<>> /\ engine' = [Resting EXCEPT !.pc = "save"]
            /\ UNCHANGED <<file, draft, consumer, opening, queue, staged, history, current, request, pinned, gate,
                           plan, assets, durable, route, learned, rawSent, failed, paid, count>>

\* Ctrl-C: a turn that said nothing is retracted, a later one stands (settle_interrupted_turn) with
\* what a fallback paid for.
Interrupt == /\ engine.pc \in {"prepare", "sent", "tools"}
             /\ \/ history' = history
                \/ history' = history \o (IF request.fallback
                                             THEN Described(turn, IdsOf(request.messages) \ RawIds(request.messages))
                                             ELSE turn)
             /\ turn' = <<>> /\ staged' = <<>> /\ current' = {} /\ request' = NoRequest /\ rawSent' = {}
             /\ queue' = Released(queue)
             /\ engine' = [Resting EXCEPT !.pc = "save"]
             /\ UNCHANGED <<file, draft, consumer, opening, pinned, gate, plan, assets, durable, route, learned,
                            failed, paid, count>>

\* /model between turns: another identity, of which nothing is known.
SwitchModel(r) == /\ engine.pc = "idle" /\ r # route /\ count.switches < MaxSwitches
                  /\ route' = r /\ count' = [count EXCEPT !.switches = @ + 1]
                  /\ UNCHANGED <<file, draft, consumer, opening, queue, engine, turn, staged, history, current,
                                 request, pinned, gate, plan, assets, durable, learned, rawSent, failed, paid>>

\* The process dies and resumes from the last record: pins and what was learned are gone.
Crash == /\ count.crashes < MaxCrashes
         /\ count' = [count EXCEPT !.crashes = @ + 1]
         /\ draft' = Nothing /\ consumer' = Resting /\ opening' = <<>> /\ engine' = Resting
         /\ turn' = <<>> /\ staged' = <<>> /\ current' = {} /\ request' = NoRequest
         /\ history' = durable.messages /\ queue' = durable.queue
         /\ pinned' = {} /\ gate' = "none" /\ plan' = Nothing /\ learned' = {} /\ rawSent' = {}
         /\ failed' = failed \cap {durable.messages[i].id : i \in {j \in 1..Len(durable.messages) :
                                                                     ~durable.messages[j].raw}}
         /\ UNCHANGED <<file, assets, durable, route, paid>>

Turn == \/ StartTurn \/ Admits \/ Opens \/ Prepare \/ SendFails \/ Rejected \/ Accepted
        \/ Batch \/ Checkpoint \/ View \/ Viewed \/ Boundary \/ Interrupt \/ Crash
        \/ \E r \in Routes : SwitchModel(r)

Init == /\ file \in Contents
        /\ draft = Nothing /\ consumer = Resting /\ opening = <<>> /\ queue = <<>> /\ engine = Resting
        /\ turn = <<>> /\ staged = <<>> /\ history = <<>> /\ current = {} /\ request = NoRequest
        /\ pinned = {} /\ gate = "none" /\ plan = Nothing
        /\ assets = {} /\ durable = [messages |-> <<>>, queue |-> <<>>]
        /\ route \in Routes /\ learned = {}
        /\ rawSent = {} /\ failed = {} /\ paid = [i \in Ids |-> 0]
        /\ count = [images |-> 0, edits |-> 0, retries |-> 0, switches |-> 0, crashes |-> 0]

Next == Saves \/ Admission \/ Turn
Spec == Init /\ [][Next]_iVars

----------------------------------------------------------------------------
(* Properties *)

\* Whatever in memory or on disk still names a stored image finds its asset: no save collects it
\* between its admission, the queue, the turn, a recall and the next resume (_save_gate, session/
\* __init__.py:703-704, "neither an older GC plan nor a newly captured snapshot can collect an
\* asset before its owner is published").
ImagesAreKept == /\ Carried \subseteq assets
                 /\ Digests(durable.messages) \cup Digests(durable.queue) \subseteq assets

\* Pixels that were in a failed turn are in no later request, on whatever route and after a resume
\* (settle_failed_messages, image.py:432-433: "safe to replay as text").
FailedIsNotResent == rawSent \cap failed = {}

\* An occurrence is described, and paid for, once (observe_current, image.py:409-410).
\* Not kept: a request that is prepared again describes its queued images again
\* (engine.py:750).
ObservedOnce == \A i \in Ids : paid[i] <= 1
=============================================================================
