------------------------------ MODULE MCServices ------------------------------
(* What a turn talks to: the model behind its client, the wire formats and the *)
(* stream of a chat endpoint, the compaction that keeps the conversation in    *)
(* its budget, and the connection to a plugin worker.  Each part keeps state no *)
(* other part touches, so a behaviour moves one of them and the others rest.    *)
EXTENDS Naturals

CONSTANTS MaxRetries, MaxRequests, MaxTurns, Recent, MinimumRecent, Budget, Line, Sizes,
          MaxSegments, FollowUps, MaxMessages, MaxPasses, Endpoints, MaxLength, MaxCalls,
          Streams, Fragments, Requests, Operations, Services, OwnTools, MAX_CONCURRENT

\* What the channel's theorem takes of the constants.
ASSUME ChannelConstants == 0 \notin Requests
\* What the theorem about compaction takes of the constants.
ASSUME ContextConstants == Recent \in Nat /\ MinimumRecent \in Nat /\ MaxSegments \in Nat

VARIABLES part, wire, turn, request, link, attempt, serial, task, control, cancels, stream, core,
          disk, closed, replaced, history, contextTurn, contextRequest, pc, pending, manual,
          overdue, marks, records, segments, files, index, count, passes, last, wireHistory,
          endpoint, chatStream, given, calls, named, places, next_index, refused, req,
          channelTask, used, frames, service, next, error, process, reader, lock, stage,
          channelClosed, retiring

\* One request at a time, its attempts, receipts and cancellations.
Client == INSTANCE ModelClient
\* What is evicted, summarized and written to the history files.
Context == INSTANCE Compaction WITH turn <- contextTurn, request <- contextRequest
\* A stored history as each wire sends it.
Wire == INSTANCE WireHistory WITH history <- wireHistory
\* The fragments of tool calls in one chat stream.
Stream == INSTANCE ChatStream WITH stream <- chatStream
\* Requests to a plugin worker and what it asks of the host meanwhile.
Channel == INSTANCE PluginChannel WITH task <- channelTask, closed <- channelClosed

Endpoint(a, o, k) == [api |-> a, origin |-> o, keeps |-> k]
FiveEndpoints == {Endpoint("responses", "x", "current_turn"), Endpoint("responses", "y", "all"),
                  Endpoint("anthropic", "x", "tool_calls"), Endpoint("anthropic", "z", "current_turn"),
                  Endpoint("chat", "c", "current_turn")}
ThreeStreams == {[habit |-> "indexed", calls |-> 3], [habit |-> "named", calls |-> 3],
                 [habit |-> "opened", calls |-> 2]}

clientVars == <<wire, turn, request, link, attempt, serial, task, control, cancels, stream,
                core, disk, closed, replaced>>
contextVars == <<history, contextTurn, contextRequest, pc, pending, manual, overdue, marks,
                 records, segments, files, index, count, passes, last>>
wireVars == <<wireHistory, endpoint>>
chatVars == <<chatStream, given, calls, named, places, next_index, refused>>
channelVars == <<req, channelTask, used, frames, service, next, error, process, reader, lock,
                 stage, channelClosed, retiring>>
vars == <<part, clientVars, contextVars, wireVars, chatVars, channelVars>>

\* The part that moves; the others stay in their initial states, of which a part
\* that rests has one.
Init ==
    /\ part \in {"client", "context", "wire", "chat", "channel"}
    /\ Client!Init /\ (part = "client" \/ wire = "unstreamed")
    /\ Context!Init
    /\ Wire!Init /\ (part = "wire" \/ endpoint.origin = "c")
    /\ Stream!Init /\ (part = "chat" \/ chatStream.calls = 2)
    /\ Channel!Init
Next ==
    \/ /\ part = "client" /\ Client!Next
       /\ UNCHANGED <<part, contextVars, wireVars, chatVars, channelVars>>
    \/ /\ part = "context" /\ Context!Next
       /\ UNCHANGED <<part, clientVars, wireVars, chatVars, channelVars>>
    \/ /\ part = "wire" /\ Wire!Next
       /\ UNCHANGED <<part, clientVars, contextVars, chatVars, channelVars>>
    \/ /\ part = "chat" /\ Stream!Next
       /\ UNCHANGED <<part, clientVars, contextVars, wireVars, channelVars>>
    \/ /\ part = "channel" /\ Channel!Next
       /\ UNCHANGED <<part, clientVars, contextVars, wireVars, chatVars>>
Spec == Init /\ [][Next]_vars

\* No attempt outlives the request that sent it, a crash at any moment finds no
\* receipt that denies a request the provider may have got, and a request
\* replaces another only where the user had that one sent again (client.py:353,
\* 461-466, interception.py:178).
RequestsEndClean ==
    part = "client" =>
        /\ Client!NothingOutlivesItsRequest /\ Client!ReceiptsCoverSending
        /\ Client!RetriesAreLinked
\* A request ends one way whatever raced, and the text of a streamed answer is
\* handed to the transcript exactly once (client.py:474-487, responses.py:196,
\* anthropic.py:286, chat.py:258).
OneDisposition == Client!DispositionsAreKeptApart /\ Client!TextIsHandedOffOnce
\* Whatever is evicted, by whichever pass, no exchange of a call and its
\* results is split, the request a turn is executing stays, the summarizer saw
\* all that goes, and a history file names one span for good
\* (compaction.py:446, 485, 523, context.py:512, history.py:145).
EvictionIsWhole ==
    part = "context" =>
        /\ Context!ExchangesAreWhole /\ Context!LatestRequestSurvives
        /\ Context!SummaryCoversTheSpan /\ Context!FilesNameOneSpan
\* Whatever endpoints wrote the history, each call a request carries has
\* exactly one result where its wire wants it, sealed reasoning goes to its
\* issuer alone and is kept in the middle of a turn; and a call assembled from
\* a chat stream holds the fragments of one call (anthropic.py:181-182,
\* client.py:244-246, protocol.py:83-88, chat.py:134-139).
HistoryIsSendable ==
    /\ part = "wire" => Wire!CallsHaveResults /\ Wire!EchoesStayHome /\ Wire!ContinuationSurvives
    /\ part = "chat" => Stream!CallsAreNotMixed
\* What a worker makes the host do ends before the request it was done for
\* returns, and after a teardown nobody waits and nothing of the process is left
\* (hostcalls.py:1-6, process.py:228-231).
NothingIsLeftBehind == part = "channel" => Channel!HostWorkBelongsToACall /\ Channel!ClosedIsQuiet
==============================================================================
