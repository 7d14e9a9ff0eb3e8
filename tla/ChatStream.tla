------------------------------ MODULE ChatStream ------------------------------
(***************************************************************************)
(* The calls of a streamed chat completion put together again              *)
(* (model/chat.py reassemble_stream): each chunk brings fragments of some  *)
(* calls, and providers differ in what they say of which call a fragment   *)
(* belongs to.  Texts and reasoning are left out: they have one place to   *)
(* go.  A fragment is the number of the call the provider meant.           *)
(***************************************************************************)
EXTENDS Naturals, Sequences, SequencesExt

CONSTANTS Streams,   \* records [habit, calls]: how a provider names fragments, how many calls
          Fragments  \* fragments per call

VARIABLES
    stream,     \* the provider's habit
    given,      \* fragments of each call already streamed
    calls,      \* tool_calls: by index, the id and the fragments joined
    named,      \* tool_call_ids: the index an id was seen at
    places,     \* tool_call_positions: the index last seen at a place of a chunk
    next_index,
    refused     \* the stream was given up: a fragment could not be associated

vars == <<stream, given, calls, named, places, next_index, refused>>

Absent == 0

Begun(c) == c <= stream.calls /\ given[c] > 0
Over(c) == given[c] = Fragments

\* The delta that carries the next fragment of call c.
Delta(c) ==
    [call  |-> c,
     index |-> CASE stream.habit = "indexed" -> c [] stream.habit = "restarted" -> 1 [] OTHER -> Absent,
     id    |-> IF stream.habit \in {"named", "restarted"} \/ ~Begun(c) THEN c ELSE Absent]

\* The calls a chunk may bring fragments of: calls are begun in order, and where
\* only the first fragment is named, a call is begun when the ones before it are
\* over or go on in the same chunk.
Chunks ==
    {S \in SUBSET {c \in 1..stream.calls : ~Over(c)} :
        /\ S # {}
        /\ \A c \in S, b \in 1..stream.calls :
              (b < c /\ ~Begun(c)) => (IF stream.habit = "opened" THEN Over(b) \/ b \in S ELSE Begun(b) \/ b \in S)}

-----------------------------------------------------------------------------
(* resolve_tool_call_index                                                 *)

Free(a) == CHOOSE i \in a.next_index..(a.next_index + Cardinality(DOMAIN a.calls)) :
              i \notin DOMAIN a.calls /\ \A j \in a.next_index..(i - 1) : j \in DOMAIN a.calls

\* Mutant: the place in the chunk is trusted whatever else the chunk holds.
SamePlaces_mut(a, position, size) == position \in DOMAIN a.places
\* A place means the same call as before only in a chunk of the same calls.
SamePlaces(a, position, size) == position \in DOMAIN a.places /\ size = Cardinality(DOMAIN a.places)

\* What the fragment belongs to; Absent when nothing tells.
Resolve(a, d, position, size) ==
    IF d.index # Absent THEN d.index
    ELSE IF d.id # Absent THEN (IF d.id \in DOMAIN a.named THEN a.named[d.id] ELSE Free(a))
    ELSE IF size = 1 /\ Cardinality(DOMAIN a.calls) = 1 THEN CHOOSE i \in DOMAIN a.calls : TRUE
    ELSE IF SamePlaces(a, position, size) THEN a.places[position]
    ELSE IF position \notin DOMAIN a.places THEN Free(a)
    ELSE Absent

With(f, x, v) == [y \in DOMAIN f \union {x} |-> IF y = x THEN v ELSE f[y]]

Join(a, d, i) ==
    LET old == IF i \in DOMAIN a.calls THEN a.calls[i] ELSE [id |-> Absent, parts |-> <<>>]
    IN  With(a.calls, i, [id |-> IF d.id # Absent THEN d.id ELSE old.id, parts |-> Append(old.parts, d.call)])

\* One delta of a chunk.
Take(a, d, position, size) ==
    LET i == Resolve(a, d, position, size)
    IN  IF a.refused \/ i = Absent THEN [a EXCEPT !.refused = TRUE]
        ELSE [calls |-> Join(a, d, i), places |-> With(a.places, position, i),
              named |-> IF d.id # Absent THEN With(a.named, d.id, i) ELSE a.named,
              next_index |-> IF i + 1 > a.next_index THEN i + 1 ELSE a.next_index,
              refused |-> FALSE]

-----------------------------------------------------------------------------
\* A chunk of the stream: its deltas in order.
Chunk ==
    /\ ~refused
    /\ \E S \in Chunks :
          LET deltas == [k \in 1..Cardinality(S) |-> Delta(SetToSortSeq(S, <)[k])]
              before == [calls |-> calls, named |-> named, places |-> places, next_index |-> next_index, refused |-> FALSE]
              after == FoldLeftDomain(LAMBDA a, k : Take(a, deltas[k], k, Len(deltas)), before, deltas)
          IN  /\ given' = [c \in DOMAIN given |-> given[c] + (IF c \in S THEN 1 ELSE 0)]
              /\ calls' = after.calls /\ named' = after.named /\ places' = after.places
              /\ next_index' = after.next_index /\ refused' = after.refused
    /\ UNCHANGED stream

Init ==
    /\ stream \in Streams
    /\ given = [c \in 1..stream.calls |-> 0]
    /\ calls = <<>> /\ named = <<>> /\ places = <<>> /\ next_index = 1 /\ refused = FALSE
Next == Chunk
Spec == Init /\ [][Next]_vars

-----------------------------------------------------------------------------
\* An assembled call holds the fragments of one call of the provider, in order
\* and under its id; and a stream that names every fragment is not given up
\* (chat.py:134-139).
CallsAreNotMixed ==
    /\ ~refused =>
         \A i \in DOMAIN calls : /\ \A k \in 1..Len(calls[i].parts) : calls[i].parts[k] = calls[i].id
                                 /\ Len(calls[i].parts) = given[calls[i].id]
    /\ stream.habit # "opened" => ~refused
=============================================================================
