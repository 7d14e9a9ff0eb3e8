---------------------------- MODULE TerminalReplies ----------------------------
(***************************************************************************)
(* Taking the terminal's answers out of the input (ui/startup.py           *)
(* _BackgroundReply): while the session is assembled the terminal is asked *)
(* for its background and its attributes, and what it answers arrives      *)
(* between the user's keys and pastes, in chunks that may split it.        *)
(*                                                                         *)
(* A character is one of the few the filter and the key parser tell apart; *)
(* it carries who sent it, so that the properties can say where it went.   *)
(***************************************************************************)
EXTENDS Naturals, Sequences, SequencesExt

CONSTANTS Apart,    \* an answer comes in a chunk of its own, no Escape key right before it, no gap in its first bytes
          MaxSent   \* bound on the sequences sent

VARIABLES
    arriving,  \* the rest of what is being sent
    given,     \* everything that arrived
    pending,   \* what the filter holds
    forwarded, \* what the key parser got
    bypass,    \* the rest of this chunk is forwarded unread
    colors,    \* the backgrounds reported
    sent

vars == <<arriving, given, pending, forwarded, bypass, colors, sent>>

Color == <<"esc", "osc", "rgb", "bel">>      \* ESC ]11;rgb: digits BEL
Attributes == <<"esc", "csi", "ask", "c">>   \* ESC [ ?1;2 c
Begin == <<"esc", "csi", "200~">>
End == <<"esc", "csi", "201~">>
Replies == {Color, Attributes}

From(who, text) == [i \in 1..Len(text) |-> [ch |-> text[i], by |-> who]]
Chars(text) == [i \in 1..Len(text) |-> text[i].ch]

\* What a user sends: keys, and a paste, which may hold the look of an answer.
Typed == {From("user", s) : s \in {<<"key">>, <<"esc">>, <<"esc", "csi", "key">>} \cup {Begin \o p \o End : p \in {<<"key">>, Color}}}
Answers == {From("terminal", s) : s \in Replies}

\* The parser's flag: the paste that began last has not ended.
InPaste(text) ==
    LET marks == {i \in 1..Len(text) : text[i].ch \in {"200~", "201~"}}
    IN  marks # {} /\ text[CHOOSE i \in marks : \A j \in marks : j <= i].ch = "200~"

-----------------------------------------------------------------------------
\* Mutant: only a whole introduction is waited for, not what follows it.
Held_mut(text) == text \in {<<"esc">>, <<"esc", "csi">>, <<"esc", "osc">>}
\* The characters may still become an answer.
Held(text) == \E r \in Replies : IsStrictPrefix(text, r)

\* Mutant: an idle gap hands on whatever is held.
KeptIdle_mut(text) == FALSE
\* flush: a recognizable answer is not broken by a gap.
KeptIdle(text) == text \in {<<"esc", "osc">>, <<"esc", "osc", "rgb">>, <<"esc", "csi", "ask">>}

\* Mutant: the answer is looked for in a paste as well.
Pasting_mut == FALSE
\* A paste is forwarded with the rest of its chunk.
Pasting == InPaste(forwarded)

\* One character of feed.
Feed(c) ==
    LET text == pending \o <<c>>
    IN  IF bypass \/ Pasting
        THEN forwarded' = Append(forwarded, c) /\ bypass' = TRUE /\ UNCHANGED <<pending, colors>>
        ELSE /\ UNCHANGED bypass
             /\ IF Chars(text) \in Replies
                THEN pending' = <<>> /\ UNCHANGED forwarded /\ colors' = colors + (IF Chars(text) = Color THEN 1 ELSE 0)
                ELSE IF Held(Chars(text)) THEN pending' = text /\ UNCHANGED <<forwarded, colors>>
                ELSE pending' = <<>> /\ forwarded' = forwarded \o text /\ UNCHANGED colors

Arrive ==
    /\ arriving # <<>>
    /\ arriving' = Tail(arriving) /\ given' = Append(given, Head(arriving))
    /\ Feed(Head(arriving))
    /\ UNCHANGED sent

\* Something new is sent, in the same chunk or not.
Send(s) ==
    /\ arriving = <<>> /\ sent < MaxSent
    /\ Apart /\ s \in Answers => ~bypass /\ pending = <<>>
    /\ arriving' = s /\ sent' = sent + 1
    /\ UNCHANGED <<given, pending, forwarded, bypass, colors>>

\* The chunk ends; a gap follows, or the next one.
ChunkEnds ==
    /\ bypass /\ bypass' = FALSE
    /\ UNCHANGED <<arriving, given, pending, forwarded, colors, sent>>
Idle ==
    /\ pending # <<>> /\ ~KeptIdle(Chars(pending))
    /\ Apart /\ pending[1].by = "terminal" => Len(pending) > 2
    /\ forwarded' = forwarded \o pending /\ pending' = <<>> /\ bypass' = FALSE
    /\ UNCHANGED <<arriving, given, colors, sent>>

Init ==
    /\ arriving = <<>> /\ given = <<>> /\ pending = <<>> /\ forwarded = <<>> /\ bypass = FALSE
    /\ colors = 0 /\ sent = 0
Next == Arrive \/ ChunkEnds \/ Idle \/ \E s \in Typed \cup Answers : Send(s)
Spec == Init /\ [][Next]_vars

-----------------------------------------------------------------------------
By(who, text) == SelectSeq(text, LAMBDA c : c.by = who)

\* Every key and every pasted character reaches the parser, once and in order,
\* whatever the terminal answers in between (startup.py:26).
KeysAreKept == By("user", forwarded \o pending) = By("user", given)

\* No part of an answer is taken for a key (startup.py:26).
RepliesAreNotTyped == By("terminal", forwarded) = <<>>
=============================================================================
