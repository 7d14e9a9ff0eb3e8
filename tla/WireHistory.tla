---------------------------- MODULE WireHistory ----------------------------
(***************************************************************************)
(* What a request carries of the conversation: the normalized history and  *)
(* its projection on the three wires (model/chat.py, model/responses.py,   *)
(* model/anthropic.py), while the user switches between endpoints.         *)
(*                                                                         *)
(* An assistant message keeps the opaque output of the endpoint that wrote *)
(* it.  Texts, results and schemas are not told apart; reasoning is one    *)
(* opaque item; a call's arguments are whole or were cut off.              *)
(***************************************************************************)
EXTENDS Naturals, Sequences, SequencesExt

CONSTANTS Endpoints, \* records [api, origin, keeps]: wire, issuer, reasoning_history
          MaxLength, \* bound on the messages of the history
          MaxCalls   \* bound on the calls of one answer

VARIABLES
    history,  \* the normalized messages, without the system prompt
    endpoint  \* the provider in use

vars == <<history, endpoint>>

Apis == {"chat", "responses", "anthropic"}
User(real) == [role |-> "user", real |-> real]
ResultOf(call) == [role |-> "tool", call |-> call]
NewCalls(n, whole) == [k \in 1..n |-> [id |-> <<Len(history) + 1, k>>, whole |-> whole \/ k < n]]

\* The items an answer consists of, in the order all three wires give them.
Items(m) ==
    (IF m.thought THEN <<[type |-> "thought", issuer |-> m.origin]>> ELSE <<>>)
    \o (IF m.text THEN <<[type |-> "text"]>> ELSE <<>>)
    \o [k \in 1..Len(m.calls) |-> [type |-> "call", id |-> m.calls[k].id, whole |-> m.calls[k].whole]]

-----------------------------------------------------------------------------
(* Which reasoning is sent again.                                          *)

\* Mutant: what a tool showed the model ends the turn as the user's words do.
Boundary_mut(m) == m.role = "user"
\* latest_user_position: a tool's image observation is not the user speaking.
Boundary(m) == m.role = "user" /\ m.real

LatestUser(h) == LET at == {i \in 1..Len(h) : Boundary(h[i])} IN IF at = {} THEN 0 ELSE CHOOSE i \in at : \A j \in at : j <= i

\* keeps_reasoning: by the history policy of the endpoint that is asked.
Keeps(policy, h, i) ==
    \/ policy = "all"
    \/ h[i].calls # <<>> /\ (policy = "tool_calls" \/ (policy = "current_turn" /\ i > LatestUser(h)))

\* Mutant: an echo is replayed on the wire it came from, whoever issued it.
Replayable_mut(m, e) == m.api = e.api
\* replayable_echo: only the endpoint that issued an echo can verify it.
Replayable(m, e) == m.api = e.api /\ m.origin = e.origin

WithoutThought(items) == SelectSeq(items, LAMBDA x : x.type # "thought")

-----------------------------------------------------------------------------
(* The wires.                                                              *)

\* A call rebuilt from history sends arguments that are an object, if need be {}.
Rebuilt(m) == [k \in 1..Len(WithoutThought(Items(m))) |->
                  LET x == WithoutThought(Items(m))[k] IN IF x.type = "call" THEN [x EXCEPT !.whole = TRUE] ELSE x]

\* responses_input: saved output goes back as it came, less what the policy drops.
ResponsesItems(h, i, e) ==
    LET m == h[i]
    IN  CASE m.role = "user" -> <<[type |-> "user"]>>
          [] m.role = "tool" -> <<[type |-> "result", id |-> m.call]>>
          [] OTHER -> IF ~Replayable(m, e) THEN Rebuilt(m)
                      ELSE IF Keeps(e.keeps, h, i) THEN Items(m) ELSE WithoutThought(Items(m))

\* anthropic_assistant_blocks: saved blocks hold parsed arguments, an object always.
AnthropicBlocks(h, i, e) ==
    LET m == h[i]
        thought == SelectSeq(Items(m), LAMBDA x : x.type = "thought")
    IN  CASE m.role = "user" -> <<[type |-> "user"]>>
          [] m.role = "tool" -> <<[type |-> "result", id |-> m.call]>>
          [] OTHER -> IF Replayable(m, e) /\ Keeps(e.keeps, h, i) THEN thought \o Rebuilt(m) ELSE Rebuilt(m)

\* chat_messages: provider echoes are scrubbed, the reasoning keys are not among them.
ChatItems(h, i, e) ==
    LET m == h[i]
        thought == SelectSeq(Items(m), LAMBDA x : x.type = "thought" /\ m.api = "chat")
    IN  CASE m.role = "user" -> <<[type |-> "user"]>>
          [] m.role = "tool" -> <<[type |-> "result", id |-> m.call]>>
          [] OTHER -> IF Keeps(e.keeps, h, i) THEN thought \o Rebuilt(m) ELSE Rebuilt(m)

WireRole(m) == IF m.role = "assistant" THEN "assistant" ELSE "user"

\* Mutant: a message becomes a turn of its own.
Joins_mut(turn, role) == FALSE
\* append_anthropic_message: the roles of a Messages request alternate.
Joins(turn, role) == turn.role = role

Append1(turns, role, blocks) ==
    IF blocks = <<>> THEN turns
    ELSE IF turns # <<>> /\ Joins(Last(turns), role)
         THEN [turns EXCEPT ![Len(turns)].blocks = @ \o blocks]
         ELSE turns \o <<[role |-> role, blocks |-> blocks]>>

\* anthropic_messages: turns of blocks.
AnthropicTurns(h, e) ==
    LET build[i \in 0..Len(h)] ==
            IF i = 0 THEN <<>> ELSE Append1(build[i - 1], WireRole(h[i]), AnthropicBlocks(h, i, e))
    IN  build[Len(h)]

\* What the endpoint receives, one turn per message unless the wire joins them.
Turns(h, e) ==
    CASE e.api = "anthropic" -> AnthropicTurns(h, e)
      [] e.api = "responses" -> [i \in 1..Len(h) |-> [role |-> WireRole(h[i]), blocks |-> ResponsesItems(h, i, e)]]
      [] OTHER -> [i \in 1..Len(h) |-> [role |-> WireRole(h[i]), blocks |-> ChatItems(h, i, e)]]

Sent(h, e) == FlattenSeq([i \in 1..Len(Turns(h, e)) |-> Turns(h, e)[i].blocks])

-----------------------------------------------------------------------------
(* The conversation.                                                       *)

Unanswered == {i \in 1..Len(history) : /\ history[i].role = "assistant"
                                       /\ \E k \in 1..Len(history[i].calls) :
                                             \A j \in 1..Len(history) : history[j] # ResultOf(history[i].calls[k].id)}
Room(n) == Len(history) + n <= MaxLength

\* The user speaks, after an answer or after a turn that ended without one; or
\* the images a tool has shown are brought in.
Say ==
    /\ Unanswered = {} /\ Room(1)
    /\ \E real \in BOOLEAN :
          /\ real \/ (history # <<>> /\ Last(history).role = "tool")
          /\ history' = Append(history, User(real))
    /\ UNCHANGED endpoint

Answer(api, text, n, whole, thought) ==
    /\ endpoint.api = api /\ Unanswered = {} /\ Room(1)
    /\ history # <<>> /\ Last(history).role # "assistant"
    /\ text \/ n > 0
    /\ history' = Append(history, [role |-> "assistant", text |-> text, calls |-> NewCalls(n, whole),
                                   thought |-> thought, api |-> api, origin |-> endpoint.origin])
    /\ UNCHANGED endpoint

\* assistant_message and tool_calls; a stream cut off mid-call leaves broken arguments.
ChatAnswer == \E text, whole, thought \in BOOLEAN, n \in 0..MaxCalls : Answer("chat", text, n, whole, thought)
\* responses_result, with the output items saved.
ResponsesAnswer == \E text, whole, thought \in BOOLEAN, n \in 0..MaxCalls : Answer("responses", text, n, whole, thought)
\* anthropic_result, with the content blocks saved.
AnthropicAnswer == \E text, thought \in BOOLEAN, n \in 0..MaxCalls : Answer("anthropic", text, n, TRUE, thought)

\* Every call of the last answer gets its result before anything else is appended.
Results ==
    /\ Unanswered # {}
    /\ LET calls == history[CHOOSE i \in Unanswered : TRUE].calls
       IN  /\ Room(Len(calls))
           /\ history' = history \o [k \in 1..Len(calls) |-> ResultOf(calls[k].id)]
    /\ UNCHANGED endpoint

\* /provider or /model.
Switch ==
    /\ endpoint' \in Endpoints \ {endpoint}
    /\ UNCHANGED history

Init == history = <<>> /\ endpoint \in Endpoints
Next == Say \/ ChatAnswer \/ ResponsesAnswer \/ AnthropicAnswer \/ Results \/ Switch
Spec == Init /\ [][Next]_vars

-----------------------------------------------------------------------------
(* What is promised of every request.                                      *)

\* The request that could be sent now, once the calls of the last answer have
\* their results.
Ready == Unanswered = {}
TurnOf(turns, x) == CHOOSE i \in 1..Len(turns) : x \in {turns[i].blocks[j] : j \in 1..Len(turns[i].blocks)}

\* Whatever endpoints wrote the history, each call a request carries has exactly
\* one result, each result its call, and on the Messages wire all the results
\* are in the turn after the calls (anthropic.py:181-182).
CallsHaveResults ==
    LET turns == Turns(history, endpoint)
        sent == {turns[i].blocks : i \in 1..Len(turns)}
        blocks == UNION {{b[j] : j \in 1..Len(b)} : b \in sent}
    IN  Ready =>
          /\ {x.id : x \in {y \in blocks : y.type = "call"}} = {x.id : x \in {y \in blocks : y.type = "result"}}
          /\ endpoint.api = "anthropic" =>
               \A x, y \in blocks : (x.type = "call" /\ y.type = "result" /\ x.id = y.id) => TurnOf(turns, y) = TurnOf(turns, x) + 1

\* Sealed reasoning goes to nobody but the endpoint that issued it
\* (client.py:244-246).
EchoesStayHome ==
    Ready => \A k \in 1..Len(Sent(history, endpoint)) :
                LET x == Sent(history, endpoint)[k] IN x.type = "thought" => x.issuer = endpoint.origin

\* In the middle of a turn the reasoning of its tool calls is sent again to the
\* endpoint that reasoned, under every policy that keeps any (protocol.py:83-88).
ContinuationSurvives ==
    LET asked == {i \in 1..Len(history) : history[i].role = "user" /\ history[i].real}
        running == {i \in 1..Len(history) : /\ history[i].role = "assistant" /\ \A j \in asked : j < i
                                           /\ history[i].thought /\ history[i].calls # <<>>
                                           /\ history[i].api = endpoint.api /\ history[i].origin = endpoint.origin}
    IN  Ready /\ endpoint.keeps # "none" =>
          Cardinality(running) <= Len(SelectSeq(Sent(history, endpoint), LAMBDA x : x.type = "thought"))

\* A call's arguments go out as a JSON object; history that was cut off in the
\* middle of one does not stick the session (protocol.py:16-22).
\* Not kept: a stream cut off inside the arguments leaves them as they are.
ArgumentsAreObjects ==
    Ready => \A k \in 1..Len(Sent(history, endpoint)) :
                LET x == Sent(history, endpoint)[k] IN x.type = "call" => x.whole
=============================================================================
