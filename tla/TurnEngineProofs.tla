-------------------------- MODULE TurnEngineProofs --------------------------
(***************************************************************************)
(* What holds of an agent's turns for any inputs, children, limits and     *)
(* faults: calls, claims, inputs and results are accounted for, and what   *)
(* the provider has accepted stands.                                       *)
(***************************************************************************)
EXTENDS TurnEngine, SequenceTheorems, FiniteSetTheorems, WellFoundedInduction, TLAPS

-----------------------------------------------------------------------------
(* The inductive invariant.                                                *)

Final == {"idle", "opening", "closing", "down"}
InRequest == {"request", "admit", "prepare", "attempt", "backoff", "observe"}
InFlightAt == {"attempt", "backoff", "observe"}
Batch == {"tools", "hints"}

\* The messages of s that may be told once only: inputs and results of children.
Marks(s) == {m \in {s[k] : k \in DOMAIN s} : m.kind \in {"user", "event"}}

\* None of them is in s twice.
Single(s) ==
  \A j, k \in DOMAIN s : s[j] = s[k] /\ s[j].kind \in {"user", "event"} => j = k

\* Every event of M announces a result that r has a receipt for.
Announced(M, r) ==
  \A m \in M : m.kind = "event" =>
    \E c \in Children : \E n \in 1..r[c] : m = [kind |-> "event", of |-> <<c, n>>]

\* No input of the queue is told in M.
Untold(q, M) == \A k \in DOMAIN q : UserMessage(q[k].input) \notin M

Distinct(q) == \A j, k \in DOMAIN q : q[j].input = q[k].input => j = k
Waits(i, q) == \E k \in DOMAIN q : q[k].input = i
Carried(r) == {r.pending[k] : k \in DOMAIN r.pending}
Tellings(S) == {UserMessage(i) : i \in S}

\* t continues s.
Continues(t, s) == Len(s) <= Len(t) /\ \A k \in 1..Len(s) : t[k] = s[k]

Types ==
  /\ pc \in Locations
  /\ queue \in Seq(QueueItems)
  /\ editor \subseteq Inputs
  /\ opening \in Inputs \cup {None}
  /\ turn \in Seq(Messages) /\ staged \in Seq(Messages)
  /\ history \in Seq(Messages) /\ sent \in Seq(Messages)
  /\ seen \in [Children -> 0..MaxResults]
  /\ results \in [Children -> 0..MaxResults]
  /\ building \in Requests \cup {None} /\ request \in Requests \cup {None}
  /\ disk \in [queue : Seq(QueueItems), messages : Seq(Messages), seen : [Children -> 0..MaxResults]]

\* A conversation as a provider may be given it, its receipts, and the inputs
\* that wait beside it.
Conversation(s, q, r) ==
  /\ Replayable(s) /\ Single(s)
  /\ Announced(Marks(s), r)
  /\ Untold(q, Marks(s))

\* What a load would bring back is sound by itself.
DiskSound ==
  /\ Conversation(disk.messages, disk.queue, disk.seen)
  /\ Distinct(disk.queue)
  /\ \A k \in DOMAIN disk.queue : ~disk.queue[k].inflight
  /\ \A c \in Children : disk.seen[c] <= results[c]

\* History, the live turn and its staged copy; only the calls a batch works on
\* lack their results.
TurnSound ==
  /\ Replayable(history) /\ Single(history)
  /\ Replayable(IF pc \in Batch THEN Append(turn, Message("results")) ELSE turn)
  /\ Single(turn)
  /\ Marks(history) \cap Marks(turn) = {}
  /\ Replayable(staged) /\ Single(staged) /\ Marks(staged) \subseteq Marks(turn)
  /\ Announced(Marks(history) \cup Marks(turn), seen)
  /\ \A c \in Children : seen[c] <= results[c]

\* Inputs that wait have been told to nobody, and wait once.
QueueSound ==
  /\ Distinct(queue)
  /\ Untold(queue, Marks(history) \cup Marks(turn))

\* An input that nobody has submitted is nowhere.
EditorSound ==
  \A i \in editor :
    /\ UserMessage(i) \notin Marks(history) \cup Marks(turn) \cup Marks(disk.messages)
    /\ ~Waits(i, queue) /\ ~Waits(i, disk.queue)
    /\ pc = "opening" => i # opening
    /\ pc \in InRequest /\ request # None => i \notin Carried(request)
    /\ pc \in InRequest \ {"request"} /\ building # None => i \notin Carried(building)

\* A request whose turn may be adopted: the live turn or a beginning of it, and inputs
\* that have not been told yet.
Adoptable(r) ==
  /\ r \in Requests
  /\ Replayable(r.turn) /\ Single(r.turn)
  /\ Marks(r.turn) \subseteq Marks(turn) \cup Tellings(Carried(r))
  /\ Tellings(Carried(r)) \cap (Marks(history) \cup Marks(turn)) = {}
  /\ Continues(r.turn, sent)

RequestsSound ==
  /\ pc \in {"request", "admit", "prepare"} /\ request # None => Adoptable(request)
  /\ pc = "admit" =>
       /\ Adoptable(building)
       /\ building.turn = turn
       /\ \A j, k \in DOMAIN building.pending : building.pending[j] = building.pending[k] => j = k
  /\ pc = "prepare" => Adoptable(building) /\ Marks(turn) \subseteq Marks(building.turn)
  /\ pc \in InFlightAt /\ mode # "correction" =>
       /\ request = building
       /\ Adoptable(request) /\ Marks(turn) \subseteq Marks(request.turn)
  /\ pc = "observe" => mode # "correction"

ClaimsSound ==
  \A k \in DOMAIN queue : queue[k].inflight =>
    /\ ~queue[k].held
    /\ pc \in InRequest
    /\ mode # "correction" \/ pc \in {"admit", "prepare"}
    /\ building # None /\ queue[k].input \in Carried(building)

\* Where a turn begins and ends nothing of it is left, and what the provider has
\* accepted is how the live turn begins.
EdgesSound ==
  /\ pc \in Final => turn = <<>> /\ staged = <<>> /\ spoke = FALSE
  /\ pc \in Final \ {"closing"} => sent = <<>>
  /\ pc = "opening" => /\ opening \in Inputs
                       /\ UserMessage(opening) \notin Marks(history)
                       /\ ~Waits(opening, queue)
  /\ pc \in Waiting => Continues(turn, sent)

TurnInv ==
  /\ Types /\ DiskSound /\ TurnSound /\ QueueSound /\ EditorSound
  /\ RequestsSound /\ ClaimsSound /\ EdgesSound

\* Inputs that may wait beside a turn that ends or is saved.
QueueReady(q) ==
  /\ q \in Seq(QueueItems)
  /\ Distinct(q)
  /\ \A k \in DOMAIN q : ~q[k].inflight
  /\ \A i \in editor : ~Waits(i, q)

\* t may stand behind history, beside the queue q.
Settled(t, q) ==
  /\ t \in Seq(Messages) /\ Replayable(t) /\ Single(t)
  /\ Marks(t) \cap Marks(history) = {}
  /\ Announced(Marks(t), seen)
  /\ \A i \in editor : UserMessage(i) \notin Marks(t)
  /\ QueueReady(q)
  /\ Untold(q, Marks(history) \cup Marks(t))

\* What a save is made of, and what has been captured by it.
Savable(q, t, h, r) ==
  /\ q \in Seq(QueueItems) /\ t \in Seq(Messages) /\ h \in Seq(Messages)
  /\ r \in [Children -> 0..MaxResults]
  /\ Replayable(h) /\ Single(h) /\ Replayable(t) /\ Single(t) /\ Marks(h) \cap Marks(t) = {}
  /\ Announced(Marks(h) \cup Marks(t), r)
  /\ Distinct(q) /\ Untold(q, Marks(h) \cup Marks(t))

Captured(d, q, t, h, r) ==
  /\ d \in [queue : Seq(QueueItems), messages : Seq(Messages), seen : [Children -> 0..MaxResults]]
  /\ Conversation(d.messages, d.queue, d.seen)
  /\ Distinct(d.queue)
  /\ \A k \in DOMAIN d.queue : ~d.queue[k].inflight
  /\ d.seen = r
  /\ Marks(d.messages) = Marks(h) \cup Marks(t)
  /\ \A i : Waits(i, d.queue) <=> Waits(i, q)

\* r is made of entries of q, without the first.
Shortened(r, q) ==
  /\ r \in Seq(QueueItems) /\ Distinct(r)
  /\ \A k \in DOMAIN r : \E j \in DOMAIN q : r[k] = q[j]
  /\ \A k \in DOMAIN r : r[k].input # q[1].input
-----------------------------------------------------------------------------
(* Selections of a sequence.                                               *)

\* A set of natural numbers that is not empty has a least member.
LEMMA LeastNatural ==
  ASSUME NEW T \in SUBSET Nat, T # {}
  PROVE  \E x \in T : \A y \in T : x <= y
<1> DEFINE R == {ss \in Nat \X Nat : ss[1] < ss[2]}
<1>1. IsWellFoundedOn(R, Nat)
  BY NatLessThanWellFounded DEF OpToRel
<1> HIDE DEF R
<1>2. PICK x \in T : \A y \in T : <<y, x>> \notin R
  BY <1>1, WFMin
<1>3. ASSUME NEW y \in T PROVE x <= y
  <2>1. y \in Nat /\ x \in Nat
    OBVIOUS
  <2>2. <<y, x>> \in Nat \X Nat /\ <<y, x>>[1] = y /\ <<y, x>>[2] = x
    BY <2>1
  <2>3. ~(y < x)
    <3>1. <<y, x>> \notin R
      BY <1>2
    <3> QED BY <2>2, <3>1 DEF R
  <2> QED BY <2>1, <2>3
<1> QED BY <1>3

\* The members of a finite set of numbers can be listed in increasing order: a
\* smallest set that could not would, without its least member, not be smallest.
LEMMA EnumerationExists ==
  ASSUME NEW I \in SUBSET Nat, IsFiniteSet(I)
  PROVE  Enumerations(I) # {}
<1> DEFINE Bad == {n \in Nat : \E J \in SUBSET Nat : /\ IsFiniteSet(J) /\ Cardinality(J) = n
                                                     /\ Enumerations(J) = {}}
<1>1. SUFFICES ASSUME Bad # {} PROVE FALSE
  BY FS_CardinalityType
<1>2. PICK n \in Bad : \A m \in Bad : n <= m
  BY <1>1, LeastNatural
<1>3. PICK J \in SUBSET Nat : IsFiniteSet(J) /\ Cardinality(J) = n /\ Enumerations(J) = {}
  BY <1>2
<1> HIDE DEF Bad
<1>4. n \in Nat
  BY <1>2 DEF Bad
<1>5. CASE n = 0
  <2>1. J = {}
    BY <1>3, <1>5, FS_EmptySet
  <2>2. <<>> \in Enumerations(J)
    BY <2>1, <1>3, <1>5 DEF Enumerations
  <2> QED BY <2>2, <1>3
<1>6. CASE n # 0
  <2>1. J # {}
    BY <1>3, <1>6, FS_EmptySet
  <2>2. PICK x \in J : \A y \in J : x <= y
    BY <2>1, LeastNatural
  <2> DEFINE K == J \ {x}
  <2>3. IsFiniteSet(K) /\ Cardinality(K) = n - 1 /\ K \in SUBSET Nat
    BY <1>3, FS_RemoveElement
  <2>4. Enumerations(K) # {}
    <3>1. n - 1 \notin Bad
      BY <1>2, <1>4, <1>6
    <3> HIDE DEF K
    <3> QED BY <3>1, <2>3, <1>4, <1>6 DEF Bad
  <2>5. PICK f : f \in Enumerations(K)
    BY <2>4
  <2>6. f \in [1..(n - 1) -> K] /\ \A a, b \in 1..(n - 1) : a < b => f[a] < f[b]
    BY <2>5, <2>3 DEF Enumerations
  <2> DEFINE g == [a \in 1..n |-> IF a = 1 THEN x ELSE f[a - 1]]
  <2>7. g \in [1..n -> J]
    <3> SUFFICES ASSUME NEW a \in 1..n PROVE g[a] \in J
      OBVIOUS
    <3>1. a # 1 => a - 1 \in 1..(n - 1)
      BY <1>4
    <3> QED BY <3>1, <2>6
  <2>8. ASSUME NEW a \in 1..n, NEW b \in 1..n, a < b PROVE g[a] < g[b]
    <3>1. b # 1 /\ b - 1 \in 1..(n - 1) /\ (a # 1 => a - 1 \in 1..(n - 1) /\ a - 1 < b - 1)
      BY <2>8, <1>4
    <3>2. f[b - 1] \in K
      BY <3>1, <2>6
    <3>3. f[b - 1] \in Nat /\ x \in Nat /\ x <= f[b - 1] /\ x # f[b - 1]
      BY <3>2, <2>2
    <3>4. a # 1 => f[a - 1] < f[b - 1]
      BY <3>1, <2>6
    <3> QED BY <3>1, <3>3, <3>4
  <2>9. g \in Enumerations(J)
    BY <2>7, <2>8, <1>3 DEF Enumerations
  <2> QED BY <2>9, <1>3
<1> QED BY <1>5, <1>6

\* A selection holds the entries at the positions it was made of, each once.
LEMMA SelectionIs ==
  ASSUME NEW S, NEW s \in Seq(S), NEW I \in SUBSET DOMAIN s
  PROVE  /\ Selected(s, I) \in Seq(S)
         /\ \E f \in [DOMAIN Selected(s, I) -> I] :
              /\ \A k \in DOMAIN Selected(s, I) : Selected(s, I)[k] = s[f[k]]
              /\ \A a, b \in DOMAIN Selected(s, I) : f[a] = f[b] => a = b
              /\ \A i \in I : \E k \in DOMAIN Selected(s, I) : f[k] = i
<1> DEFINE n == Cardinality(I)
           o == CHOOSE e \in Enumerations(I) : TRUE
           t == [k \in 1..n |-> s[o[k]]]
<1>1. DOMAIN s = 1..Len(s) /\ Len(s) \in Nat /\ \A i \in DOMAIN s : s[i] \in S
  OBVIOUS
<1>2. IsFiniteSet(I) /\ I \in SUBSET Nat
  <2>1. IsFiniteSet(1..Len(s)) /\ I \in SUBSET (1..Len(s))
    BY <1>1, FS_Interval
  <2> QED BY <2>1, FS_Subset
<1>3. n \in Nat
  BY <1>2, FS_CardinalityType
<1>4. o \in Enumerations(I)
  BY <1>2, EnumerationExists
<1>5. Selected(s, I) = t
  BY DEF Selected
<1> HIDE DEF o
<1>6. o \in [1..n -> I] /\ \A a, b \in 1..n : a < b => o[a] < o[b]
  BY <1>4 DEF Enumerations
<1>7. \A k \in 1..n : o[k] \in I /\ s[o[k]] \in S
  BY <1>6, <1>1
<1> HIDE DEF n
<1>8. t \in Seq(S) /\ DOMAIN t = 1..n /\ \A k \in 1..n : t[k] = s[o[k]]
  BY <1>3, <1>7
<1>9. \A a, b \in 1..n : o[a] = o[b] => a = b
  <2> SUFFICES ASSUME NEW a \in 1..n, NEW b \in 1..n, o[a] = o[b], a # b PROVE FALSE
    OBVIOUS
  <2>1. a < b \/ b < a
    BY <1>3
  <2>2. o[a] \in Nat /\ o[b] \in Nat
    BY <1>7, <1>2
  <2>3. o[a] < o[b] \/ o[b] < o[a]
    BY <2>1, <1>6
  <2> QED BY <2>2, <2>3
<1>10. \A i \in I : \E k \in 1..n : o[k] = i
  <2>1. o \in Injection(1..n, I)
    BY <1>6, <1>9 DEF Injection, IsInjective
  <2>2. IsFiniteSet(1..n) /\ Cardinality(1..n) = n
    BY <1>3, FS_Interval
  <2>3. o \in Surjection(1..n, I)
    BY <2>1, <2>2, <1>2, FS_Injection DEF n
  <2> QED BY <2>3 DEF Surjection
<1> HIDE DEF t
<1>11. o \in [DOMAIN t -> I]
  BY <1>6, <1>8
<1>12. /\ \A k \in DOMAIN t : t[k] = s[o[k]]
       /\ \A a, b \in DOMAIN t : o[a] = o[b] => a = b
       /\ \A i \in I : \E k \in DOMAIN t : o[k] = i
  BY <1>8, <1>9, <1>10
<1> DEFINE u == Selected(s, I)
<1>13. /\ u \in Seq(S)
       /\ o \in [DOMAIN u -> I]
       /\ \A k \in DOMAIN u : u[k] = s[o[k]]
       /\ \A a, b \in DOMAIN u : o[a] = o[b] => a = b
       /\ \A i \in I : \E k \in DOMAIN u : o[k] = i
  BY <1>5, <1>8, <1>11, <1>12
<1> HIDE DEF u
<1>14. /\ u \in Seq(S)
       /\ \E f \in [DOMAIN u -> I] :
            /\ \A k \in DOMAIN u : u[k] = s[f[k]]
            /\ \A a, b \in DOMAIN u : f[a] = f[b] => a = b
            /\ \A i \in I : \E k \in DOMAIN u : f[k] = i
  <2> SUFFICES \E f \in [DOMAIN u -> I] :
            /\ \A k \in DOMAIN u : u[k] = s[f[k]]
            /\ \A a, b \in DOMAIN u : f[a] = f[b] => a = b
            /\ \A i \in I : \E k \in DOMAIN u : f[k] = i
    BY <1>13
  <2> o \in [DOMAIN u -> I]
    BY <1>13
  <2> WITNESS o \in [DOMAIN u -> I]
  <2> QED BY <1>13
<1> QED BY <1>14 DEF u

-----------------------------------------------------------------------------
(* Sequences of messages.                                                  *)

LEMMA Concatenated ==
  ASSUME NEW S, NEW s \in Seq(S), NEW t \in Seq(S)
  PROVE  /\ s \o t \in Seq(S)
         /\ Len(s \o t) = Len(s) + Len(t)
         /\ DOMAIN (s \o t) = 1..(Len(s) + Len(t))
         /\ \A k \in 1..Len(s) : (s \o t)[k] = s[k]
         /\ \A k \in 1..Len(t) : (s \o t)[Len(s) + k] = t[k]
OBVIOUS

LEMMA Appended ==
  ASSUME NEW S, NEW s \in Seq(S), NEW m \in S
  PROVE  /\ Append(s, m) \in Seq(S)
         /\ Len(Append(s, m)) = Len(s) + 1
         /\ DOMAIN Append(s, m) = 1..(Len(s) + 1)
         /\ \A k \in 1..Len(s) : Append(s, m)[k] = s[k]
         /\ Append(s, m)[Len(s) + 1] = m
OBVIOUS

\* What a turn adds by itself is a message.
LEMMA PlainMessages ==
  ASSUME NEW kind \in Kinds
  PROVE  Message(kind) \in Messages /\ Message(kind).kind = kind
BY DEF Message, Messages

LEMMA InputMessages ==
  ASSUME NEW i \in Inputs
  PROVE  /\ UserMessage(i) \in Messages
         /\ UserMessage(i).kind = "user"
         /\ UserMessage(i).of = i
BY DEF UserMessage, Messages, Kinds

LEMMA SameInput ==
  ASSUME NEW i, NEW j, UserMessage(i) = UserMessage(j)
  PROVE  i = j
BY DEF UserMessage

LEMMA MarkIsHeld ==
  ASSUME NEW s \in Seq(Messages), NEW m
  PROVE  m \in Marks(s) <=> m.kind \in {"user", "event"} /\ \E k \in 1..Len(s) : s[k] = m
<1>1. DOMAIN s = 1..Len(s)
  OBVIOUS
<1> QED BY <1>1 DEF Marks

LEMMA MarksConcatenated ==
  ASSUME NEW s \in Seq(Messages), NEW t \in Seq(Messages)
  PROVE  Marks(s \o t) = Marks(s) \cup Marks(t)
<1>1. Len(s) \in Nat /\ Len(t) \in Nat
  OBVIOUS
<1> DEFINE u == s \o t
<1>2. /\ u \in Seq(Messages) /\ Len(u) = Len(s) + Len(t)
      /\ \A k \in 1..Len(s) : u[k] = s[k]
      /\ \A k \in 1..Len(t) : u[Len(s) + k] = t[k]
  BY Concatenated
<1> HIDE DEF u
<1>3. ASSUME NEW m \in Marks(u) PROVE m \in Marks(s) \cup Marks(t)
  <2>1. PICK k \in 1..Len(u) : u[k] = m
    BY <1>2, MarkIsHeld
  <2>2. m.kind \in {"user", "event"}
    BY <1>2, MarkIsHeld
  <2>3. CASE k \in 1..Len(s)
    BY <2>1, <2>2, <2>3, <1>2, MarkIsHeld
  <2>4. CASE k \notin 1..Len(s)
    <3>1. k - Len(s) \in 1..Len(t) /\ Len(s) + (k - Len(s)) = k
      BY <2>4, <1>1, <1>2
    <3>2. t[k - Len(s)] = m
      BY <3>1, <1>2, <2>1
    <3> QED BY <3>1, <3>2, <2>2, MarkIsHeld
  <2> QED BY <2>3, <2>4
<1>4. ASSUME NEW m \in Marks(s) PROVE m \in Marks(u)
  <2>1. PICK k \in 1..Len(s) : s[k] = m
    BY MarkIsHeld
  <2>2. k \in 1..Len(u) /\ u[k] = m
    BY <2>1, <1>1, <1>2
  <2> QED BY <2>2, <1>2, MarkIsHeld
<1>5. ASSUME NEW m \in Marks(t) PROVE m \in Marks(u)
  <2>1. PICK k \in 1..Len(t) : t[k] = m
    BY MarkIsHeld
  <2>2. Len(s) + k \in 1..Len(u) /\ u[Len(s) + k] = m
    BY <2>1, <1>1, <1>2
  <2> QED BY <2>2, <1>2, MarkIsHeld
<1> QED BY <1>3, <1>4, <1>5 DEF u

LEMMA MarksAppended ==
  ASSUME NEW s \in Seq(Messages), NEW m \in Messages
  PROVE  Marks(Append(s, m)) = Marks(s) \cup (IF m.kind \in {"user", "event"} THEN {m} ELSE {})
<1>1. <<m>> \in Seq(Messages) /\ Len(<<m>>) = 1 /\ <<m>>[1] = m
  OBVIOUS
<1>2. Append(s, m) = s \o <<m>>
  BY AppendIsConcat
<1>3. Marks(<<m>>) = IF m.kind \in {"user", "event"} THEN {m} ELSE {}
  <2>1. ASSUME NEW x PROVE x \in Marks(<<m>>) <=> x = m /\ m.kind \in {"user", "event"}
    <3>1. x \in Marks(<<m>>) <=> x.kind \in {"user", "event"} /\ \E k \in 1..Len(<<m>>) : <<m>>[k] = x
      BY <1>1, MarkIsHeld
    <3>2. (\E k \in 1..Len(<<m>>) : <<m>>[k] = x) <=> x = m
      BY <1>1
    <3> QED BY <3>1, <3>2
  <2> QED BY <2>1
<1> QED BY ZenonT(60), <1>1, <1>2, <1>3, MarksConcatenated

LEMMA MarksOfNothing == Marks(<<>>) = {} /\ Single(<<>>) /\ Replayable(<<>>)
BY DEF Marks, Single, Replayable

LEMMA SingleConcatenated ==
  ASSUME NEW s \in Seq(Messages), NEW t \in Seq(Messages),
         Single(s), Single(t), Marks(s) \cap Marks(t) = {}
  PROVE  Single(s \o t)
<1>1. Len(s) \in Nat /\ Len(t) \in Nat /\ DOMAIN s = 1..Len(s) /\ DOMAIN t = 1..Len(t)
  OBVIOUS
<1> DEFINE u == s \o t
<1>2. /\ DOMAIN u = 1..(Len(s) + Len(t))
      /\ \A k \in 1..Len(s) : u[k] = s[k]
      /\ \A k \in 1..Len(t) : u[Len(s) + k] = t[k]
  BY Concatenated
<1> HIDE DEF u
<1>3. ASSUME NEW k \in DOMAIN u, k \notin 1..Len(s)
      PROVE  k - Len(s) \in 1..Len(t) /\ u[k] = t[k - Len(s)]
  <2>1. k - Len(s) \in 1..Len(t) /\ Len(s) + (k - Len(s)) = k
    BY <1>3, <1>1, <1>2
  <2> QED BY <2>1, <1>2
<1>4. ASSUME NEW j \in DOMAIN u, NEW k \in DOMAIN u, u[j] = u[k], u[j].kind \in {"user", "event"}
      PROVE  j = k
  <2>1. CASE j \in 1..Len(s) /\ k \in 1..Len(s)
    BY <2>1, <1>1, <1>2, <1>4 DEF Single
  <2>2. CASE j \notin 1..Len(s) /\ k \notin 1..Len(s)
    <3>1. j - Len(s) = k - Len(s)
      BY <2>2, <1>3, <1>4, <1>1 DEF Single
    <3> QED BY <3>1, <1>1, <1>2
  <2>3. CASE j \in 1..Len(s) /\ k \notin 1..Len(s)
    <3>1. u[j] \in Marks(s) /\ u[k] \in Marks(t)
      BY ZenonT(60), <2>3, <1>2, <1>3, <1>4, MarkIsHeld
    <3> QED BY <3>1, <1>4
  <2>4. CASE j \notin 1..Len(s) /\ k \in 1..Len(s)
    <3>1. u[k] \in Marks(s) /\ u[j] \in Marks(t)
      BY <2>4, <1>2, <1>3, <1>4, MarkIsHeld
    <3> QED BY <3>1, <1>4
  <2> QED BY <2>1, <2>2, <2>3, <2>4
<1> QED BY <1>4 DEF Single, u

LEMMA SingleAppended ==
  ASSUME NEW s \in Seq(Messages), NEW m \in Messages, Single(s), m.kind \notin {"user", "event"}
  PROVE  Single(Append(s, m))
<1>1. <<m>> \in Seq(Messages) /\ Append(s, m) = s \o <<m>>
  BY AppendIsConcat
<1>2. Single(<<m>>)
  BY DEF Single
<1>3. Marks(<<m>>) = {}
  BY DEF Marks
<1> QED BY <1>1, <1>2, <1>3, SingleConcatenated

LEMMA ReplayableConcatenated ==
  ASSUME NEW s \in Seq(Messages), NEW t \in Seq(Messages), Replayable(s), Replayable(t)
  PROVE  Replayable(s \o t)
<1>1. Len(s) \in Nat /\ Len(t) \in Nat /\ DOMAIN s = 1..Len(s) /\ DOMAIN t = 1..Len(t)
  OBVIOUS
<1> DEFINE u == s \o t
<1>2. /\ DOMAIN u = 1..(Len(s) + Len(t)) /\ Len(u) = Len(s) + Len(t)
      /\ \A k \in 1..Len(s) : u[k] = s[k]
      /\ \A k \in 1..Len(t) : u[Len(s) + k] = t[k]
  BY Concatenated
<1> HIDE DEF u
<1>3. ASSUME NEW k \in DOMAIN u
      PROVE  /\ u[k].kind = "calls" => k < Len(u) /\ u[k + 1].kind = "results"
             /\ u[k].kind = "results" => k > 1 /\ u[k - 1].kind = "calls"
  <2>1. CASE k \in 1..Len(s)
    <3>1. u[k] = s[k] /\ k + 1 \in Nat /\ k - 1 \in Int
      BY <2>1, <1>2
    <3>2. s[k].kind = "calls" => k < Len(s) /\ s[k + 1].kind = "results"
      BY <2>1, <1>1 DEF Replayable
    <3>3. s[k].kind = "results" => k > 1 /\ s[k - 1].kind = "calls"
      BY <2>1, <1>1 DEF Replayable
    <3>4. k < Len(s) => u[k + 1] = s[k + 1]
      BY <2>1, <1>1, <1>2
    <3>5. k > 1 => u[k - 1] = s[k - 1]
      BY <2>1, <1>1, <1>2
    <3> QED BY <3>1, <3>2, <3>3, <3>4, <3>5, <2>1, <1>1, <1>2
  <2>2. CASE k \notin 1..Len(s)
    <3> DEFINE n == k - Len(s)
    <3>1. n \in 1..Len(t) /\ k = Len(s) + n
      BY <2>2, <1>1, <1>2
    <3> HIDE DEF n
    <3>2. u[k] = t[n]
      BY <3>1, <1>2
    <3>3. n < Len(t) => n + 1 \in 1..Len(t) /\ Len(s) + (n + 1) = k + 1
      BY <3>1, <1>1
    <3>4. n < Len(t) => u[k + 1] = t[n + 1] /\ k < Len(u)
      BY <3>1, <3>3, <1>1, <1>2
    <3>5. n > 1 => n - 1 \in 1..Len(t) /\ Len(s) + (n - 1) = k - 1
      BY <3>1, <1>1
    <3>6. n > 1 => u[k - 1] = t[n - 1] /\ k > 1
      BY <3>1, <3>5, <1>1, <1>2
    <3>7. t[n].kind = "calls" => n < Len(t) /\ t[n + 1].kind = "results"
      BY <3>1, <1>1 DEF Replayable
    <3>8. t[n].kind = "results" => n > 1 /\ t[n - 1].kind = "calls"
      BY <3>1, <1>1 DEF Replayable
    <3> QED BY <3>2, <3>4, <3>6, <3>7, <3>8
  <2> QED BY <2>1, <2>2
<1> QED BY <1>3 DEF Replayable, u

LEMMA ReplayableAppended ==
  ASSUME NEW s \in Seq(Messages), NEW m \in Messages, Replayable(s), m.kind \notin {"calls", "results"}
  PROVE  Replayable(Append(s, m))
<1>1. <<m>> \in Seq(Messages) /\ Append(s, m) = s \o <<m>>
  BY AppendIsConcat
<1>2. Replayable(<<m>>)
  BY DEF Replayable
<1> QED BY <1>1, <1>2, ReplayableConcatenated

\* Calls at the end may be answered ...
LEMMA CallsMayBeAnswered ==
  ASSUME NEW s \in Seq(Messages), NEW m \in Messages, NEW r \in Messages,
         Replayable(s), m.kind = "calls", r.kind = "results"
  PROVE  Replayable(Append(Append(s, m), r))
<1> DEFINE p == Append(<<m>>, r)
<1>1. <<m>> \in Seq(Messages) /\ <<r>> \in Seq(Messages) /\ Len(<<m>>) = 1 /\ <<m>>[1] = m
  OBVIOUS
<1>2. Append(s, m) = s \o <<m>> /\ s \o <<m>> \in Seq(Messages)
  BY <1>1, AppendIsConcat, Concatenated
<1>3. Append(Append(s, m), r) = (s \o <<m>>) \o <<r>>
  BY <1>2, AppendIsConcat
<1>4. p = <<m>> \o <<r>> /\ p \in Seq(Messages)
  BY <1>1, AppendIsConcat, Concatenated
<1>5. (s \o <<m>>) \o <<r>> = s \o (<<m>> \o <<r>>)
  BY <1>1, ConcatAssociative
<1>6. DOMAIN p = 1..2 /\ Len(p) = 2 /\ p[1] = m /\ p[2] = r
  BY <1>1, Appended
<1> HIDE DEF p
<1>7. Replayable(p)
  BY <1>6 DEF Replayable
<1> QED BY <1>3, <1>4, <1>5, <1>7, ReplayableConcatenated

\* ... whatever the results say, and only calls are.
LEMMA AnyResultsAnswer ==
  ASSUME NEW s \in Seq(Messages), NEW m \in Messages, NEW r \in Messages,
         m.kind = "results", r.kind = "results", Replayable(Append(s, m))
  PROVE  Replayable(Append(s, r))
<1>1. Len(s) \in Nat
  OBVIOUS
<1> DEFINE u == Append(s, m)
           v == Append(s, r)
<1>2. /\ DOMAIN u = 1..(Len(s) + 1) /\ Len(u) = Len(s) + 1
      /\ DOMAIN v = 1..(Len(s) + 1) /\ Len(v) = Len(s) + 1
      /\ \A k \in 1..Len(s) : u[k] = s[k] /\ v[k] = s[k]
      /\ u[Len(s) + 1] = m /\ v[Len(s) + 1] = r
  BY Appended
<1> HIDE DEF u, v
<1>3. \A k \in 1..(Len(s) + 1) : u[k].kind = v[k].kind
  <2> TAKE k \in 1..(Len(s) + 1)
  <2>1. CASE k \in 1..Len(s)
    BY <2>1, <1>2
  <2>2. CASE k \notin 1..Len(s)
    <3>1. k = Len(s) + 1
      BY <2>2, <1>1
    <3> QED BY <3>1, <1>2
  <2> QED BY <2>1, <2>2
<1>4. ASSUME NEW k \in DOMAIN v
      PROVE  /\ v[k].kind = "calls" => k < Len(v) /\ v[k + 1].kind = "results"
             /\ v[k].kind = "results" => k > 1 /\ v[k - 1].kind = "calls"
  <2>1. k \in 1..(Len(s) + 1) /\ (k < Len(v) => k + 1 \in 1..(Len(s) + 1))
        /\ (k > 1 => k - 1 \in 1..(Len(s) + 1))
    BY <1>1, <1>2
  <2>2. /\ u[k].kind = "calls" => k < Len(u) /\ u[k + 1].kind = "results"
        /\ u[k].kind = "results" => k > 1 /\ u[k - 1].kind = "calls"
    BY <1>2 DEF Replayable, u
  <2> QED BY <2>1, <2>2, <1>2, <1>3
<1> QED BY <1>4 DEF Replayable, v

LEMMA ResultsFollowCalls ==
  ASSUME NEW s \in Seq(Messages), NEW m \in Messages, m.kind = "results", Replayable(Append(s, m))
  PROVE  s # <<>> /\ s[Len(s)].kind = "calls"
<1>1. Len(s) \in Nat
  OBVIOUS
<1> DEFINE u == Append(s, m)
<1>2. /\ DOMAIN u = 1..(Len(s) + 1)
      /\ \A k \in 1..Len(s) : u[k] = s[k]
      /\ u[Len(s) + 1] = m
  BY Appended
<1> HIDE DEF u
<1>3. Len(s) + 1 > 1 /\ u[(Len(s) + 1) - 1].kind = "calls"
  BY SMTT(40), <1>1, <1>2 DEF Replayable, u
<1>4. (Len(s) + 1) - 1 = Len(s) /\ Len(s) \in 1..Len(s) /\ Len(s) # 0
  BY <1>3, <1>1
<1>5. Len(<<>>) = 0
  OBVIOUS
<1> QED BY <1>2, <1>3, <1>4, <1>5

LEMMA ReplayableEndsWithoutCalls ==
  ASSUME NEW s \in Seq(Messages), Replayable(s), s # <<>>
  PROVE  s[Len(s)].kind # "calls"
<1>1. Len(s) \in 1..Len(s) /\ DOMAIN s = 1..Len(s) /\ ~(Len(s) < Len(s))
  OBVIOUS
<1> QED BY <1>1 DEF Replayable

LEMMA ContinuesAppended ==
  ASSUME NEW s \in Seq(Messages), NEW t \in Seq(Messages), NEW m \in Messages, Continues(t, s)
  PROVE  Continues(Append(t, m), s)
<1>1. Len(s) \in Nat /\ Len(t) \in Nat
  OBVIOUS
<1> DEFINE u == Append(t, m)
<1>2. Len(u) = Len(t) + 1 /\ \A k \in 1..Len(t) : u[k] = t[k]
  BY Appended
<1> HIDE DEF u
<1>3. Len(s) <= Len(u) /\ \A k \in 1..Len(s) : k \in 1..Len(t) /\ u[k] = s[k]
  BY <1>1, <1>2 DEF Continues
<1> QED BY <1>3 DEF Continues, u

LEMMA ContinuesConcatenated ==
  ASSUME NEW s \in Seq(Messages), NEW t \in Seq(Messages), NEW x \in Seq(Messages), Continues(t, s)
  PROVE  Continues(t \o x, s)
<1>1. Len(s) \in Nat /\ Len(t) \in Nat /\ Len(x) \in Nat
  OBVIOUS
<1> DEFINE u == t \o x
<1>2. Len(u) = Len(t) + Len(x) /\ \A k \in 1..Len(t) : u[k] = t[k]
  BY Concatenated
<1> HIDE DEF u
<1>3. Len(s) <= Len(u) /\ \A k \in 1..Len(s) : k \in 1..Len(t) /\ u[k] = s[k]
  BY <1>1, <1>2 DEF Continues
<1> QED BY <1>3 DEF Continues, u

LEMMA ContinuesBehind ==
  ASSUME NEW h \in Seq(Messages), NEW t \in Seq(Messages), NEW s \in Seq(Messages), Continues(t, s)
  PROVE  Continues(h \o t, h \o s)
<1>1. Len(h) \in Nat /\ Len(t) \in Nat /\ Len(s) \in Nat
  OBVIOUS
<1> DEFINE u == h \o t
           v == h \o s
<1>2. /\ Len(u) = Len(h) + Len(t) /\ \A k \in 1..Len(h) : u[k] = h[k]
      /\ \A k \in 1..Len(t) : u[Len(h) + k] = t[k]
      /\ Len(v) = Len(h) + Len(s) /\ \A k \in 1..Len(h) : v[k] = h[k]
      /\ \A k \in 1..Len(s) : v[Len(h) + k] = s[k]
  BY Concatenated
<1> HIDE DEF u, v
<1>3. Len(s) <= Len(t) /\ \A k \in 1..Len(s) : t[k] = s[k]
  BY DEF Continues
<1>4. ASSUME NEW k \in 1..Len(v) PROVE u[k] = v[k]
  <2>1. CASE k \in 1..Len(h)
    BY <2>1, <1>2
  <2>2. CASE k \notin 1..Len(h)
    <3> DEFINE n == k - Len(h)
    <3>1. n \in 1..Len(s) /\ n \in 1..Len(t) /\ k = Len(h) + n
      BY <2>2, <1>1, <1>2, <1>3
    <3> HIDE DEF n
    <3> QED BY <3>1, <1>2, <1>3
  <2> QED BY <2>1, <2>2
<1> QED BY <1>1, <1>2, <1>3, <1>4 DEF Continues, u, v

LEMMA ContinuesItself ==
  ASSUME NEW s \in Seq(Messages)
  PROVE  Continues(s, s) /\ Continues(s, <<>>)
<1>1. Len(s) \in Nat /\ Len(<<>>) = 0
  OBVIOUS
<1> QED BY <1>1 DEF Continues

LEMMA ContinuesIsExtends ==
  ASSUME NEW s \in Seq(Messages), NEW t \in Seq(Messages), Continues(t, s)
  PROVE  Extends(t, s)
<1>1. Len(s) \in Nat /\ Len(t) \in Nat /\ Len(s) <= Len(t) /\ \A k \in 1..Len(s) : t[k] = s[k]
  BY DEF Continues
<1>2. \A k \in 1..Len(s) : t[k] \in Messages
  BY <1>1
<1>3. /\ SubSeq(t, 1, Len(s)) \in Seq(Messages)
      /\ Len(SubSeq(t, 1, Len(s))) = Len(s)
      /\ \A k \in 1..Len(s) : SubSeq(t, 1, Len(s))[k] = t[k]
  BY <1>1, <1>2
<1>4. SubSeq(t, 1, Len(s)) = s
  BY <1>1, <1>3, SeqEqual
<1> QED BY <1>1, <1>4 DEF Extends

-----------------------------------------------------------------------------
(* Queues and turns.                                                       *)

LEMMA ReleasedIs ==
  ASSUME NEW q \in Seq(QueueItems)
  PROVE  /\ Released(q) \in Seq(QueueItems)
         /\ DOMAIN Released(q) = DOMAIN q
         /\ \A k \in DOMAIN q : /\ Released(q)[k].input = q[k].input
                                /\ Released(q)[k].held = q[k].held
                                /\ Released(q)[k].inflight = FALSE
<1>1. \A k \in DOMAIN q : q[k] \in QueueItems
  OBVIOUS
<1>2. DOMAIN q = 1..Len(q) /\ Len(q) \in Nat
  OBVIOUS
<1>3. \A k \in DOMAIN q : Released(q)[k] = [q[k] EXCEPT !.inflight = FALSE]
  BY DEF Released
<1>4. ASSUME NEW item \in QueueItems
      PROVE  /\ [item EXCEPT !.inflight = FALSE] \in QueueItems
             /\ [item EXCEPT !.inflight = FALSE].input = item.input
             /\ [item EXCEPT !.inflight = FALSE].held = item.held
             /\ [item EXCEPT !.inflight = FALSE].inflight = FALSE
  BY DEF QueueItems
<1>5. \A k \in DOMAIN q : Released(q)[k] \in QueueItems
  BY <1>1, <1>3, <1>4
<1>6. DOMAIN Released(q) = DOMAIN q
  BY DEF Released
<1>7. Released(q) = [k \in 1..Len(q) |-> Released(q)[k]]
  BY <1>2 DEF Released
<1> HIDE DEF Released
<1>8. Released(q) \in Seq(QueueItems)
  BY <1>2, <1>5, <1>7
<1>9. ASSUME NEW k \in DOMAIN q
      PROVE  /\ Released(q)[k].input = q[k].input
             /\ Released(q)[k].held = q[k].held
             /\ Released(q)[k].inflight = FALSE
  <2>1. q[k] \in QueueItems
    BY <1>1
  <2>2. Released(q)[k] = [q[k] EXCEPT !.inflight = FALSE]
    BY <1>3
  <2> QED BY <2>1, <2>2, <1>4
<1> QED BY <1>6, <1>8, <1>9

\* Releasing the claims of a queue changes nothing else about it.
LEMMA ReleasedStands ==
  ASSUME NEW q \in Seq(QueueItems), NEW M
  PROVE  /\ Distinct(Released(q)) <=> Distinct(q)
         /\ Untold(Released(q), M) <=> Untold(q, M)
         /\ \A i : Waits(i, Released(q)) <=> Waits(i, q)
<1>1. /\ DOMAIN Released(q) = DOMAIN q
      /\ \A k \in DOMAIN q : Released(q)[k].input = q[k].input
  BY ReleasedIs
<1> QED BY <1>1 DEF Distinct, Untold, Waits

\* What is left of a queue is part of it.
LEMMA SelectedQueue ==
  ASSUME NEW q \in Seq(QueueItems), NEW I \in SUBSET DOMAIN q
  PROVE  /\ Selected(q, I) \in Seq(QueueItems)
         /\ \A k \in DOMAIN Selected(q, I) : \E n \in I : Selected(q, I)[k] = q[n]
         /\ \A n \in I : \E k \in DOMAIN Selected(q, I) : Selected(q, I)[k] = q[n]
         /\ Distinct(q) => Distinct(Selected(q, I))
<1> DEFINE t == Selected(q, I)
<1>1. t \in Seq(QueueItems)
  BY SelectionIs
<1>2. PICK f \in [DOMAIN t -> I] :
        /\ \A k \in DOMAIN t : t[k] = q[f[k]]
        /\ \A a, b \in DOMAIN t : f[a] = f[b] => a = b
        /\ \A i \in I : \E k \in DOMAIN t : f[k] = i
  BY SelectionIs
<1> HIDE DEF t
<1>3. \A k \in DOMAIN t : f[k] \in I /\ f[k] \in DOMAIN q
  BY <1>2
<1>4. \A k \in DOMAIN t : \E n \in I : t[k] = q[n]
  BY <1>2, <1>3
<1>5. \A n \in I : \E k \in DOMAIN t : t[k] = q[n]
  BY <1>2
<1>6. Distinct(q) => Distinct(t)
  BY <1>2, <1>3 DEF Distinct
<1> QED BY <1>1, <1>4, <1>5, <1>6 DEF t

LEMMA AcknowledgedIs ==
  ASSUME NEW q \in Seq(QueueItems), NEW inputs \in Seq(Inputs)
  PROVE  /\ Acknowledged(q, inputs) \in Seq(QueueItems)
         /\ \A k \in DOMAIN Acknowledged(q, inputs) :
              /\ \E n \in DOMAIN q : Acknowledged(q, inputs)[k] = q[n]
              /\ \A j \in DOMAIN inputs : inputs[j] # Acknowledged(q, inputs)[k].input
         /\ Distinct(q) => Distinct(Acknowledged(q, inputs))
<1> DEFINE I == {n \in DOMAIN q : \A k \in DOMAIN inputs : inputs[k] # q[n].input}
<1>1. I \in SUBSET DOMAIN q
  OBVIOUS
<1>2. Acknowledged(q, inputs) = Selected(q, I)
  BY DEF Acknowledged
<1>3. \A n \in I : n \in DOMAIN q /\ \A j \in DOMAIN inputs : inputs[j] # q[n].input
  OBVIOUS
<1> HIDE DEF I
<1> QED BY <1>1, <1>2, <1>3, SelectedQueue

\* Of a turn that is retracted the events stay, each once.
LEMMA ResultEventsAre ==
  ASSUME NEW t \in Seq(Messages), Single(t)
  PROVE  /\ ResultEvents(t) \in Seq(Messages)
         /\ Replayable(ResultEvents(t)) /\ Single(ResultEvents(t))
         /\ Marks(ResultEvents(t)) \subseteq Marks(t)
<1> DEFINE I == {k \in DOMAIN t : t[k].kind = "event"}
           u == Selected(t, I)
<1>1. I \in SUBSET DOMAIN t /\ \A i \in I : t[i].kind = "event"
  OBVIOUS
<1>4. ResultEvents(t) = u
  BY DEF ResultEvents
<1> HIDE DEF I
<1>2. u \in Seq(Messages)
  BY <1>1, SelectionIs
<1>3. PICK f \in [DOMAIN u -> I] :
        /\ \A k \in DOMAIN u : u[k] = t[f[k]]
        /\ \A a, b \in DOMAIN u : f[a] = f[b] => a = b
        /\ \A i \in I : \E k \in DOMAIN u : f[k] = i
  BY <1>1, SelectionIs
<1> HIDE DEF u
<1>5. \A k \in DOMAIN u : f[k] \in DOMAIN t /\ u[k] = t[f[k]] /\ u[k].kind = "event"
  BY <1>1, <1>3
<1>6. Replayable(u)
  BY <1>5 DEF Replayable
<1>7. Single(u)
  BY <1>3, <1>5 DEF Single
<1>8. Marks(u) \subseteq Marks(t)
  BY <1>5 DEF Marks
<1> QED BY <1>2, <1>4, <1>6, <1>7, <1>8

\* A message that is told anew each time does not unsettle a turn.
LEMMA PlainEnds ==
  ASSUME NEW t, NEW q, Settled(t, q),
         NEW kind \in {"correction", "assistant", "stop_hook", "marker", "resumed"}
  PROVE  /\ Settled(Append(t, Message(kind)), q)
         /\ Marks(Append(t, Message(kind))) = Marks(t)
<1>1. kind \in Kinds /\ kind \notin {"user", "event", "calls", "results"}
  BY DEF Kinds
<1>2. Message(kind) \in Messages /\ Message(kind).kind = kind
  BY <1>1, PlainMessages
<1> DEFINE m == Message(kind)
           u == Append(t, m)
<1>3. t \in Seq(Messages)
  BY DEF Settled
<1> HIDE DEF m
<1>4. Marks(u) = Marks(t)
  BY <1>1, <1>2, <1>3, MarksAppended DEF m
<1>5. u \in Seq(Messages)
  BY <1>2, <1>3, Appended DEF m
<1>6. Replayable(u) /\ Single(u)
  BY <1>1, <1>2, <1>3, ReplayableAppended, SingleAppended DEF Settled, m
<1> HIDE DEF u
<1>7. Settled(u, q)
  BY <1>4, <1>5, <1>6 DEF Settled
<1> QED BY <1>4, <1>7 DEF u, m

\* A turn without open calls is answered.
LEMMA AnsweredAlready ==
  ASSUME NEW t \in Seq(Messages), Replayable(t)
  PROVE  Answered(t) = t
BY ReplayableEndsWithoutCalls DEF Answered

LEMMA AnsweredNow ==
  ASSUME NEW t \in Seq(Messages), Replayable(Append(t, Message("results")))
  PROVE  Answered(t) = Append(t, Message("results"))
<1>1. Message("results") \in Messages /\ Message("results").kind = "results"
  BY PlainMessages DEF Kinds
<1> QED BY <1>1, ResultsFollowCalls DEF Answered

\* The results of a batch are a message.
LEMMA BatchMessages ==
  ASSUME TurnInv, NEW batch \in BatchResults
  PROVE  batch \in Messages /\ batch.kind = "results"
<1>1. CASE batch = Message("results")
  BY <1>1, PlainMessages DEF Kinds
<1>2. CASE batch # Message("results")
  <2>1. PICK c \in Children : batch = [kind |-> "results", of |-> <<c, results[c]>>]
    BY <1>2 DEF BatchResults
  <2>2. results[c] \in 0..MaxResults
    BY DEF TurnInv, Types
  <2>3. <<c, results[c]>> \in Children \X (0..MaxResults)
    BY <2>2
  <2> QED BY <2>1, <2>3 DEF Messages, Kinds
<1> QED BY <1>1, <1>2

\* The live turn may stand behind history, its open calls answered.
LEMMA LiveTurnSettles ==
  ASSUME TurnInv, NEW q, QueueReady(q), Untold(q, Marks(history) \cup Marks(turn))
  PROVE  /\ Settled(Answered(turn), q)
         /\ pc \notin Batch => Answered(turn) = turn
         /\ pc \in Batch => Answered(turn) = Append(turn, Message("results"))
         /\ pc \in Batch => \A batch \in BatchResults : Settled(Append(turn, batch), q)
<1>1. /\ turn \in Seq(Messages) /\ Single(turn)
      /\ Marks(history) \cap Marks(turn) = {}
      /\ Announced(Marks(history) \cup Marks(turn), seen)
      /\ \A i \in editor : UserMessage(i) \notin Marks(turn)
  BY DEF TurnInv, Types, TurnSound, EditorSound
<1>2. ASSUME NEW t \in Seq(Messages), Replayable(t), Single(t), Marks(t) = Marks(turn)
      PROVE  Settled(t, q)
  <2>1. Announced(Marks(t), seen)
    BY <1>1, <1>2 DEF Announced
  <2> QED BY <1>1, <1>2, <2>1 DEF Settled
<1>3. CASE pc \notin Batch
  <2>1. Replayable(turn)
    BY <1>3 DEF TurnInv, TurnSound
  <2> QED BY <1>1, <1>2, <1>3, <2>1, AnsweredAlready
<1>4. CASE pc \in Batch
  <2>1. Replayable(Append(turn, Message("results")))
    BY <1>4 DEF TurnInv, TurnSound
  <2>2. Message("results") \in Messages /\ Message("results").kind = "results"
    BY PlainMessages DEF Kinds
  <2>3. ASSUME NEW m \in Messages, m.kind = "results" PROVE Settled(Append(turn, m), q)
    <3>1. Replayable(Append(turn, m))
      BY <1>1, <2>1, <2>2, <2>3, AnyResultsAnswer
    <3>2. Marks(Append(turn, m)) = Marks(turn) /\ Single(Append(turn, m)) /\ Append(turn, m) \in Seq(Messages)
      <4>1. m.kind \notin {"user", "event"}
        BY <2>3
      <4>2. Marks(Append(turn, m)) = Marks(turn)
        BY <1>1, <4>1, MarksAppended
      <4>3. Single(Append(turn, m))
        BY <1>1, <4>1, SingleAppended
      <4>4. Append(turn, m) \in Seq(Messages)
        BY <1>1, Appended
      <4> QED BY <4>2, <4>3, <4>4
    <3> QED BY <3>1, <3>2, <1>2
  <2>4. \A batch \in BatchResults : Settled(Append(turn, batch), q)
    BY <2>3, BatchMessages
  <2> QED BY <1>1, <1>4, <2>1, <2>2, <2>3, <2>4, AnsweredNow
<1> QED BY <1>3, <1>4

\* Outside a request no input is claimed, and a queue that is let go has no claims.
LEMMA QueueIsReady ==
  ASSUME TurnInv
  PROVE  /\ QueueReady(Released(queue)) /\ Untold(Released(queue), Marks(history) \cup Marks(turn))
         /\ (pc \notin InRequest \/ (pc = "attempt" /\ mode = "correction")) =>
              QueueReady(queue) /\ Untold(queue, Marks(history) \cup Marks(turn))
<1>1. /\ queue \in Seq(QueueItems) /\ Distinct(queue)
      /\ Untold(queue, Marks(history) \cup Marks(turn))
      /\ \A i \in editor : ~Waits(i, queue)
  BY DEF TurnInv, Types, QueueSound, EditorSound
<1>2. QueueReady(Released(queue)) /\ Untold(Released(queue), Marks(history) \cup Marks(turn))
  BY <1>1, ReleasedIs, ReleasedStands DEF QueueReady
<1>3. (pc \notin InRequest \/ (pc = "attempt" /\ mode = "correction")) =>
        \A k \in DOMAIN queue : ~queue[k].inflight
  BY DEF TurnInv, ClaimsSound
<1> QED BY <1>1, <1>2, <1>3 DEF QueueReady

\* A request that has been prepared may be adopted: its turn stands behind history, beside
\* the queue without the inputs it carries.
LEMMA AcceptedSettles ==
  ASSUME TurnInv, pc \in InRequest, request # None, Adoptable(request)
  PROVE  /\ Settled(AcceptedTurn(request), Released(AcceptedQueue(request)))
         /\ Continues(AcceptedTurn(request), sent)
         /\ pc \in InFlightAt /\ mode # "correction" =>
              /\ Settled(AcceptedTurn(request), AcceptedQueue(request))
              /\ Marks(turn) \subseteq Marks(AcceptedTurn(request))
<1> DEFINE t == AcceptedTurn(request)
           q == AcceptedQueue(request)
           told == Tellings(Carried(request))
<1>1. request \in Requests /\ request.pending \in Seq(Inputs) /\ request.turn \in Seq(Messages)
  BY DEF Adoptable, Requests
<1>2. /\ turn \in Seq(Messages) /\ Replayable(turn) /\ Single(turn) /\ Continues(turn, sent)
      /\ queue \in Seq(QueueItems)
  BY DEF TurnInv, Types, TurnSound, EdgesSound, InRequest, Batch, Waiting, Locations
<1>3. /\ t \in Seq(Messages) /\ Replayable(t) /\ Single(t)
      /\ Marks(t) \subseteq Marks(turn) \cup told
      /\ Continues(t, sent)
  BY <1>1, <1>2 DEF AcceptedTurn, Adoptable
<1>4. /\ q \in Seq(QueueItems) /\ Distinct(q)
      /\ \A k \in DOMAIN q : /\ \E n \in DOMAIN queue : q[k] = queue[n]
                             /\ q[k].input \notin Carried(request)
  <2>1. q = Acknowledged(queue, request.pending) /\ Distinct(queue)
    BY DEF AcceptedQueue, TurnInv, QueueSound
  <2> HIDE DEF q
  <2> QED BY <1>1, <1>2, <2>1, AcknowledgedIs DEF Carried
<1>5. Marks(turn) \cap Marks(history) = {} /\ told \cap (Marks(history) \cup Marks(turn)) = {}
  BY DEF TurnInv, TurnSound, Adoptable
<1>6. \A m \in told : m.kind = "user"
  BY DEF Tellings, UserMessage
<1> HIDE DEF t, q
<1>7. Marks(t) \cap Marks(history) = {}
  BY <1>3, <1>5
<1>8. Announced(Marks(t), seen)
  <2>1. Announced(Marks(history) \cup Marks(turn), seen)
    BY DEF TurnInv, TurnSound
  <2>2. \A m \in Marks(t) : m.kind = "event" => m \in Marks(turn)
    BY <1>3, <1>6
  <2> QED BY <2>1, <2>2 DEF Announced
<1>9. \A i \in editor : UserMessage(i) \notin Marks(t)
  <2> SUFFICES ASSUME NEW i \in editor, UserMessage(i) \in Marks(t) PROVE FALSE
    OBVIOUS
  <2>1. UserMessage(i) \notin Marks(turn) /\ i \notin Carried(request)
    BY DEF TurnInv, EditorSound
  <2>2. UserMessage(i) \in told
    BY <1>3, <2>1
  <2>3. i \in Carried(request)
    BY <2>2, SameInput DEF Tellings
  <2> QED BY <2>1, <2>3
<1>10. \A i \in editor : ~Waits(i, q)
  <2>1. \A i \in editor : ~Waits(i, queue)
    BY DEF TurnInv, EditorSound
  <2> QED BY <1>4, <2>1 DEF Waits
<1>11. Untold(q, Marks(history) \cup Marks(t))
  <2> SUFFICES ASSUME NEW k \in DOMAIN q, UserMessage(q[k].input) \in Marks(history) \cup Marks(t)
               PROVE  FALSE
    BY DEF Untold
  <2>1. PICK n \in DOMAIN queue : q[k] = queue[n]
    BY <1>4
  <2>2. UserMessage(q[k].input) \notin Marks(history) \cup Marks(turn)
    BY <2>1 DEF TurnInv, QueueSound, Untold
  <2>3. UserMessage(q[k].input) \in told
    BY <1>3, <2>2
  <2>4. q[k].input \in Carried(request)
    BY <2>3, SameInput DEF Tellings
  <2> QED BY <1>4, <2>4
<1>12. QueueReady(Released(q)) /\ Untold(Released(q), Marks(history) \cup Marks(t))
  BY <1>4, <1>10, <1>11, ReleasedIs, ReleasedStands DEF QueueReady
<1>13. Settled(t, Released(q))
  BY <1>3, <1>7, <1>8, <1>9, <1>12 DEF Settled
<1>14. ASSUME pc \in InFlightAt, mode # "correction"
       PROVE  Settled(t, q) /\ Marks(turn) \subseteq Marks(t)
  <2>1. request = building /\ Marks(turn) \subseteq Marks(request.turn)
    BY <1>14 DEF TurnInv, RequestsSound
  <2>2. Marks(turn) \subseteq Marks(t)
    BY <2>1 DEF t, AcceptedTurn
  <2>3. \A k \in DOMAIN q : ~q[k].inflight
    <3> SUFFICES ASSUME NEW k \in DOMAIN q, q[k].inflight PROVE FALSE
      OBVIOUS
    <3>1. PICK n \in DOMAIN queue : q[k] = queue[n]
      BY <1>4
    <3>2. q[k].input \in Carried(building)
      BY <3>1 DEF TurnInv, ClaimsSound
    <3> QED BY <1>4, <2>1, <3>2
  <2>4. QueueReady(q)
    BY <1>4, <1>10, <2>3 DEF QueueReady
  <2> QED BY <1>3, <1>7, <1>8, <1>9, <1>11, <2>2, <2>4 DEF Settled
<1> QED BY <1>3, <1>13, <1>14 DEF t, q

-----------------------------------------------------------------------------
(* Saves, checkpoints and ends of a turn.                                  *)

\* What a save captures is sound by itself, and says nothing that its parts do not say.
LEMMA SavedConversation ==
  ASSUME NEW q, NEW t, NEW h, NEW r, Savable(q, t, h, r)
  PROVE  Captured(Snapshot(q, t, h, r), q, t, h, r)
<1> DEFINE d == Snapshot(q, t, h, r)
<1> USE DEF Savable
<1> DEFINE m == h \o t
<1>1. d = [queue |-> Released(q), messages |-> m, seen |-> r]
  BY DEF Snapshot
<1> HIDE DEF d
<1>2. d.queue = Released(q) /\ d.messages = m /\ d.seen = r
  BY <1>1
<1>3. m \in Seq(Messages) /\ Marks(m) = Marks(h) \cup Marks(t)
  BY Concatenated, MarksConcatenated
<1>4. Replayable(m) /\ Single(m)
  BY ReplayableConcatenated, SingleConcatenated
<1> HIDE DEF m
<1>5. Released(q) \in Seq(QueueItems) /\ \A k \in DOMAIN Released(q) : ~Released(q)[k].inflight
  BY ReleasedIs
<1>6. Distinct(Released(q)) /\ Untold(Released(q), Marks(m)) /\ \A i : Waits(i, Released(q)) <=> Waits(i, q)
  BY <1>3, ReleasedStands
<1>7. Conversation(m, Released(q), r)
  BY <1>3, <1>4, <1>6 DEF Conversation
<1>8. d \in [queue : Seq(QueueItems), messages : Seq(Messages), seen : [Children -> 0..MaxResults]]
  BY <1>1, <1>3, <1>5
<1> QED BY <1>2, <1>3, <1>5, <1>6, <1>7, <1>8 DEF Captured, d

\* A turn that ends with m keeps the invariant.
LEMMA CommitKeeps ==
  ASSUME TurnInv, NEW m, Commit(m), Settled(m, queue'), sent' \in Seq(Messages),
         UNCHANGED <<editor, opening, seen, results, building, request>>
  PROVE  TurnInv'
<1>1. /\ history' = history \o m /\ turn' = <<>> /\ staged' = <<>> /\ spoke' = FALSE /\ pc' = "closing"
      /\ disk' = Snapshot(queue', <<>>, history', seen)
  BY DEF Commit
<1>2. /\ history \in Seq(Messages) /\ Replayable(history) /\ Single(history)
      /\ seen \in [Children -> 0..MaxResults] /\ results \in [Children -> 0..MaxResults]
      /\ \A c \in Children : seen[c] <= results[c]
      /\ Announced(Marks(history) \cup Marks(turn), seen)
  BY DEF TurnInv, Types, TurnSound
<1>3. /\ m \in Seq(Messages) /\ Replayable(m) /\ Single(m) /\ Marks(m) \cap Marks(history) = {}
      /\ Announced(Marks(m), seen)
      /\ queue' \in Seq(QueueItems) /\ Distinct(queue')
      /\ \A k \in DOMAIN queue' : ~queue'[k].inflight
      /\ Untold(queue', Marks(history) \cup Marks(m))
      /\ \A i \in editor : UserMessage(i) \notin Marks(m) /\ ~Waits(i, queue')
  BY DEF Settled, QueueReady
<1>4. history' \in Seq(Messages) /\ Marks(history') = Marks(history) \cup Marks(m)
  BY <1>1, <1>2, <1>3, Concatenated, MarksConcatenated
<1>5. Replayable(history') /\ Single(history')
  BY <1>1, <1>2, <1>3, ReplayableConcatenated, SingleConcatenated
<1>6. <<>> \in Seq(Messages) /\ Marks(<<>>) = {} /\ Single(<<>>) /\ Replayable(<<>>)
  BY MarksOfNothing
<1>7. Announced(Marks(history') \cup Marks(<<>>), seen)
  BY <1>2, <1>3, <1>4, <1>6 DEF Announced
<1>8. Untold(queue', Marks(history') \cup Marks(<<>>))
  BY <1>3, <1>4, <1>6
<1>9. /\ disk' \in [queue : Seq(QueueItems), messages : Seq(Messages), seen : [Children -> 0..MaxResults]]
      /\ Conversation(disk'.messages, disk'.queue, disk'.seen)
      /\ Distinct(disk'.queue)
      /\ \A k \in DOMAIN disk'.queue : ~disk'.queue[k].inflight
      /\ disk'.seen = seen
      /\ Marks(disk'.messages) = Marks(history')
      /\ \A i : Waits(i, disk'.queue) <=> Waits(i, queue')
  <2>1. Marks(history') \cap Marks(<<>>) = {} /\ Marks(history') \cup Marks(<<>>) = Marks(history')
    BY <1>6
  <2>2. Savable(queue', <<>>, history', seen)
    BY <1>2, <1>3, <1>4, <1>5, <1>6, <1>7, <1>8, <2>1 DEF Savable
  <2>3. Captured(disk', queue', <<>>, history', seen)
    BY <1>1, <2>2, SavedConversation
  <2> QED BY <2>1, <2>3 DEF Captured
<1>10. Types'
  BY <1>1, <1>2, <1>3, <1>4, <1>6, <1>9 DEF TurnInv, Types, Locations
<1>11. DiskSound'
  BY <1>2, <1>9 DEF DiskSound
<1>12. TurnSound'
  BY <1>1, <1>2, <1>5, <1>6, <1>7 DEF TurnSound, Batch
<1>13. QueueSound'
  BY <1>1, <1>3, <1>8 DEF QueueSound
<1>14. EditorSound'
  <2>1. \A i \in editor : UserMessage(i) \notin Marks(history)
    BY DEF TurnInv, EditorSound
  <2> QED BY <1>1, <1>3, <1>4, <1>6, <1>9, <2>1 DEF EditorSound, InRequest
<1>15. RequestsSound' /\ ClaimsSound' /\ EdgesSound'
  BY <1>1, <1>3 DEF RequestsSound, ClaimsSound, EdgesSound, InFlightAt, Final, Waiting
<1> QED BY <1>10, <1>11, <1>12, <1>13, <1>14, <1>15 DEF TurnInv

\* A checkpoint of t keeps the invariant, whether the turn goes on with its next step or
\* with a correction.
LEMMA CheckpointKeeps ==
  ASSUME TurnInv, NEW t, Checkpoint(t), Settled(t, queue'),
         sent' \in Seq(Messages), Continues(t, sent'),
         pc' = "step" \/ (pc' = "attempt" /\ pc = "attempt" /\ mode' = "correction"),
         UNCHANGED <<editor, opening, seen, results, building, request>>
  PROVE  TurnInv'
<1>1. /\ turn' = t /\ staged' = t /\ history' = history
      /\ disk' = Snapshot(queue', t, history', seen)
  BY DEF Checkpoint
<1>2. /\ history \in Seq(Messages) /\ Replayable(history) /\ Single(history)
      /\ seen \in [Children -> 0..MaxResults] /\ results \in [Children -> 0..MaxResults]
      /\ \A c \in Children : seen[c] <= results[c]
      /\ Announced(Marks(history) \cup Marks(turn), seen)
  BY DEF TurnInv, Types, TurnSound
<1>3. /\ t \in Seq(Messages) /\ Replayable(t) /\ Single(t) /\ Marks(t) \cap Marks(history) = {}
      /\ Announced(Marks(t), seen)
      /\ queue' \in Seq(QueueItems) /\ Distinct(queue')
      /\ \A k \in DOMAIN queue' : ~queue'[k].inflight
      /\ Untold(queue', Marks(history) \cup Marks(t))
      /\ \A i \in editor : UserMessage(i) \notin Marks(t) /\ ~Waits(i, queue')
  BY DEF Settled, QueueReady
<1>4. Announced(Marks(history) \cup Marks(t), seen)
  BY <1>2, <1>3 DEF Announced
<1>5. /\ disk' \in [queue : Seq(QueueItems), messages : Seq(Messages), seen : [Children -> 0..MaxResults]]
      /\ Conversation(disk'.messages, disk'.queue, disk'.seen)
      /\ Distinct(disk'.queue)
      /\ \A k \in DOMAIN disk'.queue : ~disk'.queue[k].inflight
      /\ disk'.seen = seen
      /\ Marks(disk'.messages) = Marks(history) \cup Marks(t)
      /\ \A i : Waits(i, disk'.queue) <=> Waits(i, queue')
  <2>1. Savable(queue', t, history, seen)
    BY <1>2, <1>3, <1>4 DEF Savable
  <2>2. Captured(disk', queue', t, history, seen)
    BY <1>1, <2>1, SavedConversation
  <2> QED BY <2>2 DEF Captured
<1>6. Types'
  BY <1>1, <1>2, <1>3, <1>5 DEF TurnInv, Types, Locations
<1>7. DiskSound'
  BY <1>2, <1>5 DEF DiskSound
<1>8. TurnSound'
  BY <1>1, <1>2, <1>3, <1>4 DEF TurnSound, Batch
<1>9. QueueSound'
  BY <1>1, <1>3 DEF QueueSound
<1>10. EditorSound'
  <2>1. \A i \in editor : UserMessage(i) \notin Marks(history)
    BY DEF TurnInv, EditorSound
  <2>2. \A i \in editor :
          /\ UserMessage(i) \notin Marks(history') \cup Marks(turn') \cup Marks(disk'.messages)
          /\ ~Waits(i, queue') /\ ~Waits(i, disk'.queue)
    BY <1>1, <1>3, <1>5, <2>1
  <2>3. CASE pc' = "step"
    BY <2>2, <2>3 DEF EditorSound, InRequest
  <2>4. CASE pc' = "attempt" /\ pc = "attempt"
    BY <2>2, <2>4 DEF EditorSound, InRequest, TurnInv
  <2> QED BY <2>3, <2>4
<1>11. RequestsSound' /\ ClaimsSound' /\ EdgesSound'
  BY <1>1, <1>3 DEF RequestsSound, ClaimsSound, EdgesSound, InFlightAt, Final, Waiting
<1> QED BY <1>6, <1>7, <1>8, <1>9, <1>10, <1>11 DEF TurnInv

\* A step that leaves the turn, the queue and the log as they are.
LEMMA MovesKeep ==
  ASSUME TurnInv,
         UNCHANGED <<queue, editor, opening, turn, spoke, staged, history, seen, results, building, disk, sent>>,
         pc' \in Locations, request' \in Requests \cup {None},
         pc \in Batch <=> pc' \in Batch,
         pc' = "opening" => pc = "opening",
         pc' \in InRequest =>
           (pc' = "request" /\ request' = None) \/ (pc \in InRequest /\ request' = request)
           \/ (pc = "prepare" /\ request' = building),
         pc' \in InRequest /\ pc' # "request" => pc \in InRequest \ {"request"},
         RequestsSound', ClaimsSound', EdgesSound'
  PROVE  TurnInv'
<1>1. Types'
  BY DEF TurnInv, Types
<1>2. DiskSound'
  BY DEF TurnInv, DiskSound
<1>3. TurnSound'
  BY DEF TurnInv, TurnSound
<1>4. QueueSound'
  BY DEF TurnInv, QueueSound
<1>5. EditorSound'
  <2> SUFFICES ASSUME NEW i \in editor
               PROVE  /\ UserMessage(i) \notin Marks(history) \cup Marks(turn) \cup Marks(disk.messages)
                      /\ ~Waits(i, queue) /\ ~Waits(i, disk.queue)
                      /\ pc' = "opening" => i # opening
                      /\ pc' \in InRequest /\ request' # None => i \notin Carried(request')
                      /\ pc' \in InRequest \ {"request"} /\ building # None => i \notin Carried(building)
    BY DEF EditorSound
  <2>1. /\ UserMessage(i) \notin Marks(history) \cup Marks(turn) \cup Marks(disk.messages)
        /\ ~Waits(i, queue) /\ ~Waits(i, disk.queue)
        /\ pc = "opening" => i # opening
        /\ pc \in InRequest /\ request # None => i \notin Carried(request)
        /\ pc \in InRequest \ {"request"} /\ building # None => i \notin Carried(building)
    BY DEF TurnInv, EditorSound
  <2>2. pc' \in InRequest /\ request' # None => i \notin Carried(request')
    BY <2>1 DEF InRequest
  <2>3. pc' \in InRequest \ {"request"} /\ building # None => i \notin Carried(building)
    BY <2>1
  <2> QED BY <2>1, <2>2, <2>3
<1> QED BY <1>1, <1>2, <1>3, <1>4, <1>5 DEF TurnInv

\* A turn that fails.
LEMMA FailuresKeep ==
  ASSUME TurnInv, NEW t, NEW q, SettleFailed(t, q), Settled(Answered(t), Released(q)),
         sent' \in Seq(Messages),
         UNCHANGED <<editor, opening, seen, results, building, request>>
  PROVE  TurnInv'
<1>1. queue' = Released(q) /\ Commit(Append(Answered(t), Message("marker")))
  BY DEF SettleFailed
<1>2. Settled(Append(Answered(t), Message("marker")), queue')
  BY <1>1, PlainEnds
<1> QED BY <1>1, <1>2, CommitKeeps

\* A step that changes the live turn only, not its staged copy.
LEMMA ReplacementKeeps ==
  ASSUME TurnInv, NEW t, Settled(t, queue'), Marks(staged) \subseteq Marks(t),
         turn' \in Seq(Messages), Marks(turn') = Marks(t), Single(turn'),
         Replayable(IF pc' \in Batch THEN Append(turn', Message("results")) ELSE turn'),
         pc' \in {"stop"} \cup Batch,
         sent' \in Seq(Messages), Continues(turn', sent'),
         UNCHANGED <<editor, opening, staged, history, disk, seen, results, building, request>>
  PROVE  TurnInv'
<1>1. /\ queue' \in Seq(QueueItems) /\ Distinct(queue')
      /\ \A k \in DOMAIN queue' : ~queue'[k].inflight
      /\ Untold(queue', Marks(history) \cup Marks(t))
      /\ \A i \in editor : UserMessage(i) \notin Marks(t) /\ ~Waits(i, queue')
      /\ Marks(t) \cap Marks(history) = {} /\ Announced(Marks(t), seen)
  BY DEF Settled, QueueReady
<1>2. pc' \in Locations /\ pc' \notin InRequest \cup Final
  BY DEF Batch, Locations, InRequest, Final
<1>3. Types'
  BY <1>1, <1>2 DEF TurnInv, Types
<1>4. DiskSound'
  BY DEF TurnInv, DiskSound
<1>5. TurnSound'
  <2>1. Announced(Marks(history) \cup Marks(turn'), seen)
    BY <1>1 DEF TurnInv, TurnSound, Announced
  <2> QED BY <1>1, <2>1 DEF TurnInv, TurnSound
<1>6. QueueSound'
  BY <1>1 DEF QueueSound
<1>7. EditorSound'
  BY <1>1, <1>2 DEF TurnInv, EditorSound, Final
<1>8. RequestsSound' /\ ClaimsSound' /\ EdgesSound'
  BY <1>1, <1>2 DEF RequestsSound, ClaimsSound, EdgesSound, InFlightAt, InRequest, Final
<1> QED BY <1>3, <1>4, <1>5, <1>6, <1>7, <1>8 DEF TurnInv

-----------------------------------------------------------------------------
(* The actions: opening, and the steps that only move.                     *)

LEMMA InitSound == Init => TurnInv
<1> SUFFICES ASSUME Init PROVE TurnInv
  OBVIOUS
<1>1. <<>> \in Seq(Messages) /\ <<>> \in Seq(QueueItems) /\ DOMAIN <<>> = {} /\ 0 \in 0..MaxResults
  BY TurnConstants
<1>2. Marks(<<>>) = {} /\ Single(<<>>) /\ Replayable(<<>>)
  BY MarksOfNothing
<1>3. disk.messages = <<>> /\ disk.queue = <<>> /\ disk.seen = seen
  BY DEF Init
<1>4. [c \in Children |-> 0] \in [Children -> 0..MaxResults]
  BY <1>1
<1>5. Types
  BY <1>1, <1>4 DEF Init, Types, Locations
<1>6. DiskSound
  BY <1>1, <1>2, <1>3 DEF Init, DiskSound, Conversation, Announced, Untold, Distinct
<1>7. TurnSound
  BY <1>2 DEF Init, TurnSound, Batch, Announced
<1>8. QueueSound /\ ClaimsSound
  BY <1>1 DEF Init, QueueSound, ClaimsSound, Distinct, Untold
<1>9. EditorSound
  BY <1>1, <1>2, <1>3 DEF Init, EditorSound, Waits, InRequest
<1>10. RequestsSound /\ EdgesSound
  BY DEF Init, RequestsSound, EdgesSound, InFlightAt, Final, Waiting
<1> QED BY <1>5, <1>6, <1>7, <1>8, <1>9, <1>10 DEF TurnInv

LEMMA SubmitIdleKeeps ==
  ASSUME TurnInv, NEW i \in Inputs, SubmitIdle(i)
  PROVE  TurnInv'
<1> USE DEF SubmitIdle, Open, admission, childVars, requestVars
<1>1. Types'
  BY DEF TurnInv, Types, Locations
<1>2. DiskSound'
  BY DEF TurnInv, DiskSound
<1>3. TurnSound'
  BY DEF TurnInv, TurnSound, Batch
<1>4. QueueSound'
  BY DEF TurnInv, QueueSound
<1>5. EditorSound'
  BY DEF TurnInv, EditorSound, InRequest
<1>6. RequestsSound' /\ ClaimsSound'
  BY DEF TurnInv, RequestsSound, ClaimsSound, InFlightAt
<1>7. EdgesSound'
  <2>1. UserMessage(i) \notin Marks(history) /\ ~Waits(i, queue)
    BY DEF TurnInv, EditorSound
  <2>2. turn = <<>> /\ staged = <<>> /\ spoke = FALSE /\ sent = <<>>
    BY DEF TurnInv, EdgesSound, Final
  <2>3. Continues(<<>>, <<>>)
    BY DEF Continues
  <2> QED BY <2>1, <2>2, <2>3 DEF EdgesSound, Final
<1> QED BY <1>1, <1>2, <1>3, <1>4, <1>5, <1>6, <1>7 DEF TurnInv

\* Of the queue that FlushPending opens, the first entry leaves it and the others stay.
LEMMA FlushedQueue ==
  ASSUME NEW q \in Seq(QueueItems), Distinct(q), NEW n \in 1..Len(q)
  PROVE  Shortened(SubSeq(q, n + 1, Len(q)) \o SubSeq(q, 2, n), q)
<1> DEFINE a == SubSeq(q, n + 1, Len(q))
           b == SubSeq(q, 2, n)
           r == a \o b
<1>1. DOMAIN q = 1..Len(q) /\ Len(q) \in Nat /\ n \in Nat
  OBVIOUS
<1>2. /\ a \in Seq(QueueItems) /\ Len(a) = Len(q) - n
      /\ \A k \in 1..(Len(q) - n) : a[k] = q[n + k]
  OBVIOUS
<1>3. /\ b \in Seq(QueueItems) /\ Len(b) = n - 1
      /\ \A k \in 1..(n - 1) : b[k] = q[k + 1]
  OBVIOUS
<1> HIDE DEF a, b
<1>4. /\ r \in Seq(QueueItems) /\ DOMAIN r = 1..(Len(a) + Len(b))
      /\ \A k \in 1..Len(a) : r[k] = a[k]
      /\ \A k \in 1..Len(b) : r[Len(a) + k] = b[k]
  BY <1>2, <1>3, Concatenated
<1> HIDE DEF r
<1> DEFINE From(k) == IF k <= Len(q) - n THEN n + k ELSE k - (Len(q) - n) + 1
<1>5. ASSUME NEW k \in DOMAIN r
      PROVE  From(k) \in DOMAIN q /\ From(k) # 1 /\ r[k] = q[From(k)]
  <2>1. CASE k <= Len(q) - n
    <3>1. From(k) = n + k /\ k \in 1..Len(a) /\ k \in 1..(Len(q) - n)
      BY <2>1, <1>1, <1>2, <1>4
    <3>2. r[k] = q[n + k]
      BY <3>1, <1>2, <1>4
    <3> HIDE DEF From
    <3> QED BY <3>1, <3>2, <1>1
  <2>2. CASE ~(k <= Len(q) - n)
    <3> DEFINE j == k - (Len(q) - n)
    <3>1. k \in Nat /\ k <= Len(q) - 1
      BY <1>1, <1>2, <1>3, <1>4
    <3>2. j \in 1..(n - 1) /\ k = Len(a) + j /\ From(k) = j + 1 /\ j \in 1..Len(b)
      BY <2>2, <3>1, <1>1, <1>2, <1>3
    <3> HIDE DEF j, From
    <3>3. r[k] = b[j] /\ b[j] = q[j + 1]
      BY <3>2, <1>3, <1>4
    <3> QED BY <3>2, <3>3, <1>1
  <2> QED BY <2>1, <2>2
<1>6. \A j, k \in DOMAIN r : From(j) = From(k) => j = k
  <2> SUFFICES ASSUME NEW j \in DOMAIN r, NEW k \in DOMAIN r, From(j) = From(k) PROVE j = k
    OBVIOUS
  <2>1. j \in 1..(Len(q) - 1) /\ k \in 1..(Len(q) - 1)
    BY <1>1, <1>2, <1>3, <1>4
  <2> QED BY <2>1, <1>1
<1> HIDE DEF From
<1>7. Distinct(r)
  <2> SUFFICES ASSUME NEW j \in DOMAIN r, NEW k \in DOMAIN r, r[j].input = r[k].input PROVE j = k
    BY DEF Distinct
  <2>1. /\ From(j) \in DOMAIN q /\ r[j] = q[From(j)]
        /\ From(k) \in DOMAIN q /\ r[k] = q[From(k)]
    BY <1>5
  <2>2. From(j) = From(k)
    BY <2>1 DEF Distinct
  <2> QED BY <2>2, <1>6
<1>8. \A k \in DOMAIN r : r[k].input # q[1].input
  <2> SUFFICES ASSUME NEW k \in DOMAIN r, r[k].input = q[1].input PROVE FALSE
    OBVIOUS
  <2>1. 1 \in DOMAIN q
    BY <1>1
  <2>2. From(k) \in DOMAIN q /\ From(k) # 1 /\ r[k] = q[From(k)]
    BY <1>5
  <2> QED BY <2>1, <2>2 DEF Distinct
<1>9. \A k \in DOMAIN r : \E j \in DOMAIN q : r[k] = q[j]
  BY <1>5
<1>10. Shortened(r, q)
  BY <1>4, <1>7, <1>8, <1>9 DEF Shortened
<1> QED BY <1>10 DEF r, a, b

LEMMA FlushPendingKeeps ==
  ASSUME TurnInv, FlushPending
  PROVE  TurnInv'
<1>1. /\ pc = "idle" /\ pc' = "opening"
      /\ UNCHANGED <<mode, editor, turn, spoke, staged, history, seen, results,
                     building, request, disk, sent>>
  BY DEF FlushPending, Open, childVars, requestVars
<1>2. PICK n \in 1..Len(queue) :
        /\ queue' = SubSeq(queue, n + 1, Len(queue)) \o SubSeq(queue, 2, n)
        /\ opening' = queue[1].input
  BY DEF FlushPending, Open
<1>3. queue \in Seq(QueueItems) /\ Distinct(queue)
  BY DEF TurnInv, Types, QueueSound
<1>4. /\ queue' \in Seq(QueueItems) /\ Distinct(queue')
      /\ \A k \in DOMAIN queue' : \E j \in DOMAIN queue : queue'[k] = queue[j]
      /\ \A k \in DOMAIN queue' : queue'[k].input # queue[1].input
  <2>1. Shortened(queue', queue)
    BY <1>2, <1>3, FlushedQueue
  <2> QED BY <2>1 DEF Shortened
<1>5. 1 \in DOMAIN queue /\ queue[1] \in QueueItems /\ queue[1].input \in Inputs
  <2>1. 1 \in DOMAIN queue
    BY <1>2, <1>3
  <2>2. queue[1] \in QueueItems
    BY <1>3, <2>1
  <2> QED BY <2>1, <2>2 DEF QueueItems
<1>6. Types'
  BY <1>1, <1>2, <1>4, <1>5 DEF TurnInv, Types, Locations
<1>7. DiskSound'
  BY <1>1 DEF TurnInv, DiskSound
<1>8. TurnSound'
  BY <1>1 DEF TurnInv, TurnSound, Batch
<1>9. QueueSound'
  BY <1>1, <1>4 DEF TurnInv, QueueSound, Untold
<1>10. EditorSound'
  <2>1. \A i \in editor : ~Waits(i, queue') /\ i # queue[1].input
    BY <1>4, <1>5 DEF TurnInv, EditorSound, Waits
  <2> QED BY <1>1, <1>2, <2>1 DEF TurnInv, EditorSound, InRequest
<1>11. RequestsSound'
  BY <1>1 DEF RequestsSound, InFlightAt
<1>12. ClaimsSound'
  <2>1. \A k \in DOMAIN queue : ~queue[k].inflight
    BY <1>1 DEF TurnInv, ClaimsSound, InRequest
  <2> QED BY <1>4, <2>1 DEF ClaimsSound
<1>13. EdgesSound'
  <2>1. turn = <<>> /\ staged = <<>> /\ spoke = FALSE /\ sent = <<>>
    BY <1>1 DEF TurnInv, EdgesSound, Final
  <2>2. Continues(<<>>, <<>>)
    BY DEF Continues
  <2>3. UserMessage(queue[1].input) \notin Marks(history)
    BY <1>5 DEF TurnInv, QueueSound, Untold
  <2>4. ~Waits(queue[1].input, queue')
    BY <1>4 DEF Waits
  <2> QED BY <1>1, <1>2, <1>5, <2>1, <2>2, <2>3, <2>4 DEF EdgesSound, Final
<1> QED BY <1>6, <1>7, <1>8, <1>9, <1>10, <1>11, <1>12, <1>13 DEF TurnInv

LEMMA OpenTurnKeeps ==
  ASSUME TurnInv, OpenTurn
  PROVE  TurnInv'
<1> DEFINE t == <<UserMessage(opening)>>
<1>1. /\ pc = "opening" /\ pc' = "step" /\ queue' = queue /\ Checkpoint(t)
      /\ UNCHANGED <<mode, editor, opening, seen, results, building, request, sent>>
  BY DEF OpenTurn, inputVars, childVars, requestVars
<1>2. /\ opening \in Inputs /\ UserMessage(opening) \notin Marks(history) /\ ~Waits(opening, queue)
      /\ turn = <<>> /\ sent = <<>>
  BY <1>1 DEF TurnInv, EdgesSound, Final
<1>3. UserMessage(opening) \in Messages /\ UserMessage(opening).kind = "user"
  BY <1>2, InputMessages
<1>4. /\ t \in Seq(Messages) /\ Marks(t) = {UserMessage(opening)} /\ Single(t) /\ Replayable(t)
  BY <1>3 DEF Marks, Single, Replayable
<1> HIDE DEF t
<1>5. QueueReady(queue) /\ Untold(queue, Marks(history) \cup Marks(turn))
  BY <1>1, QueueIsReady DEF InRequest
<1>6. Untold(queue, Marks(history) \cup Marks(t))
  <2> SUFFICES ASSUME NEW k \in DOMAIN queue, UserMessage(queue[k].input) \in Marks(history) \cup Marks(t)
               PROVE  FALSE
    BY DEF Untold
  <2>1. UserMessage(queue[k].input) = UserMessage(opening)
    BY <1>4, <1>5 DEF Untold
  <2> QED BY <2>1, <1>2, SameInput DEF Waits
<1>7. \A i \in editor : UserMessage(i) \notin Marks(t)
  <2>1. \A i \in editor : i # opening
    BY <1>1 DEF TurnInv, EditorSound
  <2> QED BY <2>1, <1>4, SameInput
<1>8. Announced(Marks(t), seen)
  BY <1>3, <1>4 DEF Announced
<1>9. Settled(t, queue')
  BY <1>1, <1>2, <1>4, <1>5, <1>6, <1>7, <1>8 DEF Settled
<1>10. sent' \in Seq(Messages) /\ Continues(t, sent')
  BY <1>1, <1>2, <1>4, ContinuesItself
<1> QED BY <1>1, <1>9, <1>10, CheckpointKeeps

LEMMA NeverOpenedKeeps ==
  ASSUME TurnInv, NeverOpened
  PROVE  TurnInv'
<1>1. /\ pc = "opening" /\ pc' = "closing"
      /\ UNCHANGED <<mode, queue, editor, opening, turn, spoke, staged, history, seen, results,
                     building, request, disk, sent>>
  BY DEF NeverOpened, inputVars, childVars, requestVars
<1>2. RequestsSound' /\ ClaimsSound' /\ EdgesSound'
  BY <1>1 DEF TurnInv, RequestsSound, ClaimsSound, EdgesSound, InFlightAt, InRequest, Final, Waiting
<1>3. request' \in Requests \cup {None}
  BY <1>1 DEF TurnInv, Types
<1> QED BY <1>1, <1>2, <1>3, MovesKeep DEF Locations, Batch, InRequest

LEMMA NextStepKeeps ==
  ASSUME TurnInv, NextStep
  PROVE  TurnInv'
<1>1. /\ pc = "step" /\ pc' = "request" /\ request' = None
      /\ UNCHANGED <<mode, queue, editor, opening, turn, spoke, staged, history, seen, results,
                     building, disk, sent>>
  BY DEF NextStep, inputVars, childVars
<1>2. RequestsSound' /\ ClaimsSound' /\ EdgesSound'
  BY <1>1 DEF TurnInv, RequestsSound, ClaimsSound, EdgesSound, InFlightAt, InRequest, Final, Waiting, Locations
<1>3. /\ pc' \in Locations
      /\ pc \in Batch <=> pc' \in Batch
      /\ ~(pc' = "opening")
      /\ pc' \in InRequest =>
           (pc' = "request" /\ request' = None) \/ (pc \in InRequest /\ request' = request)
           \/ (pc = "prepare" /\ request' = building)
      /\ ~(pc' \in InRequest /\ pc' # "request")
  BY <1>1 DEF Locations, Batch, InRequest
<1>4. request' \in Requests \cup {None}
  BY <1>1
<1> QED BY <1>1, <1>2, <1>3, <1>4, MovesKeep

LEMMA PreparedKeeps ==
  ASSUME TurnInv, Prepared
  PROVE  TurnInv'
<1>1. /\ pc = "prepare" /\ pc' = "attempt" /\ mode' = "normal" /\ request' = building
      /\ UNCHANGED <<queue, editor, opening, turn, spoke, staged, history, seen, results,
                     building, disk, sent>>
  BY DEF Prepared, Send, inputVars, childVars
<1>2. Adoptable(building) /\ Marks(turn) \subseteq Marks(building.turn)
  BY <1>1 DEF TurnInv, RequestsSound
<1>3. RequestsSound'
  BY <1>1, <1>2 DEF RequestsSound, Adoptable
<1>4. ClaimsSound' /\ EdgesSound'
  BY <1>1 DEF TurnInv, ClaimsSound, EdgesSound, InRequest, Final, Waiting, Locations
<1>5. request' \in Requests \cup {None}
  BY <1>1 DEF TurnInv, Types
<1> QED BY <1>1, <1>3, <1>4, <1>5, MovesKeep DEF Locations, Batch, InRequest

\* Steps of the request in flight that publish nothing, and a cancellation.
LEMMA WaitsKeep ==
  ASSUME TurnInv,
         AttemptFailsOnce \/ BackoffEnds \/ AttemptRetried \/ ImageRejected \/ Observed \/ Cancel
  PROVE  TurnInv'
<1>1. UNCHANGED <<queue, editor, opening, turn, spoke, staged, history, seen, results,
                  building, request, disk, sent>>
  BY DEF AttemptFailsOnce, BackoffEnds, AttemptRetried, ImageRejected, Observed, Cancel, Send,
         inputVars, childVars, requestVars
<1>2. \/ pc' = pc /\ mode' = mode
      \/ pc \in InFlightAt /\ pc' \in InFlightAt /\ mode' = mode /\ pc' # "observe"
      \/ pc \in InFlightAt /\ pc' \in InFlightAt /\ mode = "normal" /\ mode' = "normal"
      \/ pc \in InFlightAt /\ pc' \in InFlightAt /\ pc = "observe" /\ mode' = "fallback" /\ pc' # "observe"
      \/ pc = "attempt" /\ mode = "normal" /\ mode' = "normal" /\ pc' = "request"
  BY DEF AttemptFailsOnce, BackoffEnds, AttemptRetried, ImageRejected, Observed, Cancel, Send, InFlightAt
<1>3. RequestsSound'
  BY <1>1, <1>2 DEF TurnInv, RequestsSound, Adoptable, InFlightAt
<1>4. ClaimsSound'
  BY <1>1, <1>2 DEF TurnInv, ClaimsSound, RequestsSound, InFlightAt, InRequest
<1>5. EdgesSound'
  BY <1>1, <1>2 DEF TurnInv, EdgesSound, InFlightAt, Final, Waiting, Locations
<1>6. request' \in Requests \cup {None} /\ pc' \in Locations
  BY <1>1, <1>2 DEF TurnInv, Types, InFlightAt, Locations
<1>7. /\ pc \in Batch <=> pc' \in Batch
      /\ pc' = "opening" => pc = "opening"
      /\ pc' \in InRequest =>
           (pc' = "request" /\ request' = None) \/ (pc \in InRequest /\ request' = request)
           \/ (pc = "prepare" /\ request' = building)
      /\ pc' \in InRequest /\ pc' # "request" => pc \in InRequest \ {"request"}
  BY <1>1, <1>2 DEF InFlightAt, Batch, InRequest
<1> QED BY <1>1, <1>3, <1>4, <1>5, <1>6, <1>7, MovesKeep

-----------------------------------------------------------------------------
(* Ends of a turn.                                                         *)

LEMMA OutOfStepsKeeps ==
  ASSUME TurnInv, OutOfSteps
  PROVE  TurnInv'
<1> DEFINE m == Append(turn, Message("assistant"))
<1>1. /\ pc = "step" /\ queue' = queue /\ Commit(m)
      /\ UNCHANGED <<editor, opening, seen, results, building, request, sent>>
  BY DEF OutOfSteps, inputVars, childVars, requestVars
<1>2. QueueReady(queue) /\ Untold(queue, Marks(history) \cup Marks(turn))
  BY <1>1, QueueIsReady DEF InRequest
<1>3. Settled(turn, queue)
  BY <1>1, <1>2, LiveTurnSettles DEF Batch
<1>4. Settled(m, queue')
  BY <1>1, <1>3, PlainEnds
<1> HIDE DEF m
<1>5. sent' \in Seq(Messages)
  BY <1>1 DEF TurnInv, Types
<1> QED BY <1>1, <1>4, <1>5, CommitKeeps

\* A failure that commits the live turn.
LEMMA LiveTurnFails ==
  ASSUME TurnInv, SettleFailed(turn, queue),
         UNCHANGED <<editor, opening, seen, results, building, request, sent>>
  PROVE  TurnInv'
<1>1. QueueReady(Released(queue)) /\ Untold(Released(queue), Marks(history) \cup Marks(turn))
  BY QueueIsReady
<1>2. Settled(Answered(turn), Released(queue))
  BY <1>1, LiveTurnSettles
<1>3. sent' \in Seq(Messages)
  BY DEF TurnInv, Types
<1> QED BY <1>2, <1>3, FailuresKeep

\* A failure that commits a request.
LEMMA RequestFails ==
  ASSUME TurnInv, pc \in InRequest, request # None, Adoptable(request),
         SettleFailed(AcceptedTurn(request), AcceptedQueue(request)),
         UNCHANGED <<editor, opening, seen, results, building, request, sent>>
  PROVE  TurnInv'
<1>1. Settled(AcceptedTurn(request), Released(AcceptedQueue(request)))
  BY AcceptedSettles
<1>2. Answered(AcceptedTurn(request)) = AcceptedTurn(request)
  BY <1>1, AnsweredAlready DEF Settled
<1>3. sent' \in Seq(Messages)
  BY DEF TurnInv, Types
<1> QED BY <1>1, <1>2, <1>3, FailuresKeep

\* In flight, the request is one that may be adopted.
LEMMA InFlightAdoptable ==
  ASSUME TurnInv, pc \in InFlightAt, mode # "correction"
  PROVE  pc \in InRequest /\ request # None /\ Adoptable(request)
<1>1. Adoptable(request) /\ pc \in InRequest
  BY DEF TurnInv, RequestsSound, InFlightAt, InRequest
<1> QED BY <1>1, TurnConstants DEF Adoptable

LEMMA FailingStepsKeep ==
  ASSUME TurnInv, PrepareFails \/ Breaks \/ AttemptFails \/ ObserveFails
  PROVE  TurnInv'
<1>1. UNCHANGED <<editor, opening, seen, results, building, request, sent>>
  BY DEF PrepareFails, Breaks, AttemptFails, ObserveFails, inputVars, childVars, requestVars
<1>2. ASSUME PrepareFails PROVE TurnInv'
  <2>1. pc = "prepare" /\ SettleFailed(AcceptedTurn(request), AcceptedQueue(request))
    BY <1>2 DEF PrepareFails
  <2>2. CASE request = None
    <3>1. SettleFailed(turn, queue)
      BY <2>1, <2>2 DEF AcceptedTurn, AcceptedQueue
    <3> QED BY <1>1, <3>1, LiveTurnFails
  <2>3. CASE request # None
    <3>1. Adoptable(request) /\ pc \in InRequest
      BY <2>1, <2>3 DEF TurnInv, RequestsSound, InRequest
    <3> QED BY <1>1, <2>1, <2>3, <3>1, RequestFails
  <2> QED BY <2>2, <2>3
<1>3. ASSUME Breaks PROVE TurnInv'
  BY <1>1, <1>3, LiveTurnFails DEF Breaks
<1>4. ASSUME AttemptFails PROVE TurnInv'
  <2>1. pc \in InFlightAt
    BY <1>4 DEF AttemptFails, InFlightAt
  <2>2. CASE mode = "correction"
    BY <1>1, <1>4, <2>2, LiveTurnFails DEF AttemptFails
  <2>3. CASE mode # "correction"
    BY <1>1, <1>4, <2>1, <2>3, InFlightAdoptable, RequestFails DEF AttemptFails
  <2> QED BY <2>2, <2>3
<1>5. ASSUME ObserveFails PROVE TurnInv'
  <2>1. pc \in InFlightAt /\ mode # "correction"
    BY <1>5 DEF ObserveFails, InFlightAt, TurnInv, RequestsSound
  <2> QED BY <1>1, <1>5, <2>1, InFlightAdoptable, RequestFails DEF ObserveFails
<1> QED BY <1>2, <1>3, <1>4, <1>5

-----------------------------------------------------------------------------
(* Responses.                                                              *)

\* Whatever the response, the turn t that was answered goes on from it.
LEMMA RespondsKeeps ==
  ASSUME TurnInv, pc = "attempt", NEW t, NEW q, Responds(t, q),
         Settled(t, q), Settled(t, Released(q)), Marks(staged) \subseteq Marks(t),
         sent' = t,
         UNCHANGED <<editor, opening, seen, results, building, request>>
  PROVE  TurnInv'
<1>1. t \in Seq(Messages) /\ Replayable(t) /\ Single(t)
  BY DEF Settled
<1>2. Continues(t, t)
  BY <1>1, ContinuesItself
<1>3. ASSUME NEW kind \in {"correction", "assistant"}
      PROVE  Settled(Append(t, Message(kind)), q) /\ Continues(Append(t, Message(kind)), sent')
  <2>1. Message(kind) \in Messages
    BY PlainMessages DEF Kinds
  <2>2. Continues(Append(t, Message(kind)), t)
    BY <1>1, <1>2, <2>1, ContinuesAppended
  <2> QED BY <2>2, PlainEnds
<1>4. ASSUME Paused(t, q) PROVE TurnInv'
  <2>1. /\ queue' = q /\ Checkpoint(Append(t, Message("assistant"))) /\ pc' = "step"
    BY <1>4 DEF Paused
  <2>2. Settled(Append(t, Message("assistant")), queue') /\ Continues(Append(t, Message("assistant")), sent')
    BY <1>3, <2>1
  <2> QED BY <1>1, <2>1, <2>2, CheckpointKeeps
<1>5. ASSUME Corrected(t, q) PROVE TurnInv'
  <2>1. /\ queue' = q /\ Checkpoint(Append(t, Message("correction"))) /\ pc' = "attempt" /\ mode' = "correction"
    BY <1>5 DEF Corrected
  <2>2. Settled(Append(t, Message("correction")), queue') /\ Continues(Append(t, Message("correction")), sent')
    BY <1>3, <2>1
  <2> QED BY <1>1, <2>1, <2>2, CheckpointKeeps
<1>6. ASSUME Unusable(t, q) PROVE TurnInv'
  <2>1. SettleFailed(t, q)
    BY <1>6 DEF Unusable
  <2>2. Answered(t) = t
    BY <1>1, AnsweredAlready
  <2> QED BY <1>1, <2>1, <2>2, FailuresKeep
<1>7. ASSUME Concludes(t, q) PROVE TurnInv'
  <2>1. queue' = q /\ turn' = t /\ pc' = "stop" /\ UNCHANGED <<staged, history, disk>>
    BY <1>7 DEF Concludes
  <2>2. pc' \in {"stop"} \cup Batch /\ pc' \notin Batch
    BY <2>1 DEF Batch
  <2>3. Replayable(IF pc' \in Batch THEN Append(turn', Message("results")) ELSE turn')
    BY <1>1, <2>1, <2>2
  <2>4. Settled(t, queue') /\ turn' \in Seq(Messages) /\ Marks(turn') = Marks(t) /\ Single(turn')
        /\ sent' \in Seq(Messages) /\ Continues(turn', sent')
    BY <1>1, <1>2, <2>1
  <2> QED BY <2>1, <2>2, <2>3, <2>4, ReplacementKeeps
<1>8. ASSUME NEW location \in Batch, Calls(t, q, location) PROVE TurnInv'
  <2>1. /\ queue' = q /\ turn' = Append(t, Message("calls")) /\ pc' = location
        /\ UNCHANGED <<staged, history, disk>>
    BY <1>8 DEF Calls
  <2>2. /\ Message("calls") \in Messages /\ Message("calls").kind = "calls"
        /\ Message("results") \in Messages /\ Message("results").kind = "results"
    BY PlainMessages DEF Kinds
  <2>3. Message("calls").kind \notin {"user", "event"}
    BY <2>2
  <2>4. Marks(turn') = Marks(t)
    BY <1>1, <2>1, <2>2, <2>3, MarksAppended
  <2>5. turn' \in Seq(Messages) /\ Single(turn')
    BY <1>1, <2>1, <2>2, <2>3, Appended, SingleAppended
  <2>6. Replayable(Append(turn', Message("results")))
    BY <1>1, <2>1, <2>2, CallsMayBeAnswered
  <2>7. Continues(turn', sent') /\ sent' \in Seq(Messages)
    BY <1>1, <1>2, <2>1, <2>2, ContinuesAppended
  <2>8. pc' \in {"stop"} \cup Batch /\ Settled(t, queue')
    BY <1>8, <2>1
  <2>9. Replayable(IF pc' \in Batch THEN Append(turn', Message("results")) ELSE turn')
    BY <1>8, <2>1, <2>6
  <2> QED BY <2>1, <2>4, <2>5, <2>7, <2>8, <2>9, ReplacementKeeps
<1> QED BY <1>4, <1>5, <1>6, <1>7, <1>8 DEF Responds, Batch

LEMMA AnswersKeep ==
  ASSUME TurnInv, RequestAnswered \/ CorrectionAnswered
  PROVE  TurnInv'
<1>1. pc = "attempt" /\ UNCHANGED <<editor, opening, seen, results, building, request>>
  BY DEF RequestAnswered, CorrectionAnswered, inputVars, childVars
<1>2. Marks(staged) \subseteq Marks(turn)
  BY DEF TurnInv, TurnSound
<1>3. ASSUME RequestAnswered PROVE TurnInv'
  <2> DEFINE t == AcceptedTurn(request)
             q == AcceptedQueue(request)
  <2>1. sent' = t /\ Responds(t, q) /\ mode # "correction" /\ pc \in InFlightAt
    BY <1>1, <1>3 DEF RequestAnswered, InFlightAt
  <2>2. Settled(t, q) /\ Settled(t, Released(q)) /\ Marks(turn) \subseteq Marks(t)
    BY <2>1, InFlightAdoptable, AcceptedSettles
  <2> HIDE DEF t, q
  <2> QED BY <1>1, <1>2, <2>1, <2>2, RespondsKeeps
<1>4. ASSUME CorrectionAnswered PROVE TurnInv'
  <2>1. sent' = turn /\ Responds(turn, queue) /\ mode = "correction"
    BY <1>4 DEF CorrectionAnswered
  <2>2. /\ QueueReady(Released(queue)) /\ Untold(Released(queue), Marks(history) \cup Marks(turn))
        /\ QueueReady(queue) /\ Untold(queue, Marks(history) \cup Marks(turn))
    BY <1>1, <2>1, QueueIsReady
  <2>3. Settled(turn, queue) /\ Settled(turn, Released(queue))
    BY <1>1, <2>2, LiveTurnSettles DEF Batch
  <2> QED BY <1>1, <1>2, <2>1, <2>3, RespondsKeeps
<1> QED BY <1>3, <1>4

-----------------------------------------------------------------------------
(* Batches, Stop hooks and interrupts.                                     *)

LEMMA BatchesKeep ==
  ASSUME TurnInv, ToolsFinish \/ HintsFail \/ HintsFinish
  PROVE  TurnInv'
<1>1. /\ pc \in Batch /\ queue' = queue
      /\ UNCHANGED <<editor, opening, seen, results, building, request, sent>>
  BY DEF ToolsFinish, HintsFail, HintsFinish, inputVars, childVars, requestVars, Batch
<1>2. QueueReady(queue) /\ Untold(queue, Marks(history) \cup Marks(turn))
  BY <1>1, QueueIsReady DEF InRequest, Batch
<1>3. \A batch \in BatchResults : Settled(Append(turn, batch), queue)
  BY <1>1, <1>2, LiveTurnSettles
<1>4. turn \in Seq(Messages) /\ sent \in Seq(Messages) /\ Continues(turn, sent)
  BY <1>1 DEF TurnInv, Types, EdgesSound, Batch, Waiting, Locations
<1>5. \A batch \in BatchResults : Continues(Append(turn, batch), sent)
  BY <1>4, BatchMessages, ContinuesAppended
<1>6. Message("results") \in BatchResults
  BY DEF BatchResults
<1>7. ASSUME NEW batch \in BatchResults, Checkpoint(Append(turn, batch)), pc' = "step" PROVE TurnInv'
  <2>1. /\ Settled(Append(turn, batch), queue') /\ sent' \in Seq(Messages)
        /\ Continues(Append(turn, batch), sent')
    BY <1>1, <1>3, <1>4, <1>5
  <2> QED BY <1>1, <1>7, <2>1, CheckpointKeeps
<1>8. ASSUME HintsFinish PROVE TurnInv'
  <2> DEFINE t == Append(turn, Message("results"))
  <2>1. turn' = t /\ pc' = "stop" /\ UNCHANGED <<staged, history, disk>>
    BY <1>8 DEF HintsFinish
  <2>2. Settled(t, queue') /\ Continues(t, sent) /\ t \in Seq(Messages) /\ Replayable(t) /\ Single(t)
    BY <1>1, <1>3, <1>5, <1>6 DEF Settled
  <2>3. Marks(t) = Marks(turn)
    <3>1. Message("results") \in Messages /\ Message("results").kind \notin {"user", "event"}
      BY PlainMessages DEF Kinds
    <3> QED BY <1>4, <3>1, MarksAppended
  <2>4. Marks(staged) \subseteq Marks(t)
    BY <2>3 DEF TurnInv, TurnSound
  <2> HIDE DEF t
  <2>5. pc' \in {"stop"} \cup Batch /\ pc' \notin Batch
    BY <2>1 DEF Batch
  <2>6. Replayable(IF pc' \in Batch THEN Append(turn', Message("results")) ELSE turn')
    BY <2>1, <2>2, <2>5
  <2>7. /\ turn' \in Seq(Messages) /\ Marks(turn') = Marks(t) /\ Single(turn')
        /\ sent' \in Seq(Messages) /\ Continues(turn', sent')
    BY <1>1, <1>4, <2>1, <2>2
  <2> QED BY <1>1, <2>1, <2>2, <2>4, <2>5, <2>6, <2>7, ReplacementKeeps
<1> QED BY <1>6, <1>7, <1>8 DEF ToolsFinish, HintsFail

LEMMA StopsKeep ==
  ASSUME TurnInv, StopRedirects \/ StopAllows
  PROVE  TurnInv'
<1>1. /\ pc = "stop" /\ queue' = queue
      /\ UNCHANGED <<editor, opening, seen, results, building, request, sent>>
  BY DEF StopRedirects, StopAllows, inputVars, childVars, requestVars
<1>2. QueueReady(queue) /\ Untold(queue, Marks(history) \cup Marks(turn))
  BY <1>1, QueueIsReady DEF InRequest
<1>3. Settled(turn, queue)
  BY <1>1, <1>2, LiveTurnSettles DEF Batch
<1>4. turn \in Seq(Messages) /\ sent \in Seq(Messages) /\ Continues(turn, sent)
  BY <1>1 DEF TurnInv, Types, EdgesSound, Waiting, Locations
<1>5. /\ Message("assistant") \in Messages /\ Message("stop_hook") \in Messages
  BY PlainMessages DEF Kinds
<1> DEFINE t == WithAnswer
<1>6. Settled(t, queue) /\ t \in Seq(Messages) /\ Continues(t, sent)
  <2>1. CASE answer
    <3>1. t = Append(turn, Message("assistant"))
      BY <2>1 DEF WithAnswer
    <3>2. Settled(t, queue)
      BY <1>3, <3>1, PlainEnds
    <3>3. Continues(t, sent)
      BY <1>4, <1>5, <3>1, ContinuesAppended
    <3> QED BY <3>2, <3>3 DEF Settled
  <2>2. CASE ~answer
    BY <1>3, <1>4, <2>2 DEF WithAnswer
  <2> QED BY <2>1, <2>2
<1> HIDE DEF t
<1>7. ASSUME StopRedirects PROVE TurnInv'
  <2> DEFINE u == Append(t, Message("stop_hook"))
  <2>1. Checkpoint(u) /\ pc' = "step"
    BY <1>7 DEF StopRedirects, t
  <2>2. Settled(u, queue')
    BY <1>1, <1>6, PlainEnds
  <2>3. Continues(u, sent)
    BY <1>4, <1>5, <1>6, ContinuesAppended
  <2> HIDE DEF u
  <2>4. sent' \in Seq(Messages) /\ Continues(u, sent')
    BY <1>1, <1>4, <2>3
  <2> QED BY <1>1, <2>1, <2>2, <2>4, CheckpointKeeps
<1>8. ASSUME StopAllows PROVE TurnInv'
  <2>1. Commit(t)
    BY <1>8 DEF StopAllows, t
  <2>2. sent' \in Seq(Messages) /\ Settled(t, queue')
    BY <1>1, <1>4, <1>6
  <2> QED BY <1>1, <2>1, <2>2, CommitKeeps
<1> QED BY <1>7, <1>8

LEMMA InterruptedKeeps ==
  ASSUME TurnInv, Interrupted
  PROVE  TurnInv'
<1>1. /\ queue' = Released(queue)
      /\ UNCHANGED <<editor, opening, seen, results, building, request, sent>>
  BY DEF Interrupted, inputVars, childVars, requestVars
<1>2. QueueReady(queue') /\ Untold(queue', Marks(history) \cup Marks(turn))
  BY <1>1, QueueIsReady
<1>3. sent' \in Seq(Messages)
  BY <1>1 DEF TurnInv, Types
<1>4. ASSUME NEW t, Settled(Answered(t), queue'), SettleInterrupted(t) PROVE TurnInv'
  <2>1. CASE spoke
    <3>1. Commit(Append(Answered(t), Message("marker")))
      BY <1>4, <2>1 DEF SettleInterrupted
    <3>2. Settled(Append(Answered(t), Message("marker")), queue')
      BY <1>4, PlainEnds
    <3> QED BY <1>1, <1>3, <3>1, <3>2, CommitKeeps
  <2>2. CASE ~spoke
    <3> DEFINE m == ResultEvents(turn)
    <3>1. Commit(m)
      BY <1>4, <2>2 DEF SettleInterrupted
    <3>2. turn \in Seq(Messages) /\ Single(turn)
      BY DEF TurnInv, Types, TurnSound
    <3>3. m \in Seq(Messages) /\ Replayable(m) /\ Single(m) /\ Marks(m) \subseteq Marks(turn)
      BY <3>2, ResultEventsAre
    <3> HIDE DEF m
    <3>4. Marks(history) \cap Marks(turn) = {} /\ Announced(Marks(history) \cup Marks(turn), seen)
      BY DEF TurnInv, TurnSound
    <3>5. \A i \in editor : UserMessage(i) \notin Marks(turn)
      BY DEF TurnInv, EditorSound
    <3>6. Announced(Marks(m), seen) /\ Untold(queue', Marks(history) \cup Marks(m))
      BY <1>2, <3>3, <3>4 DEF Announced, Untold
    <3>7. Settled(m, queue')
      BY <1>2, <3>3, <3>4, <3>5, <3>6 DEF Settled
    <3> QED BY <1>1, <1>3, <3>1, <3>7, CommitKeeps
  <2> QED BY <2>1, <2>2
<1>5. Settled(Answered(turn), queue')
  BY <1>2, LiveTurnSettles
<1>6. ASSUME pc \in Batch, NEW batch \in BatchResults
      PROVE  Settled(Answered(Append(turn, batch)), queue')
  <2>1. Settled(Append(turn, batch), queue')
    BY <1>2, <1>6, LiveTurnSettles
  <2>2. Answered(Append(turn, batch)) = Append(turn, batch)
    BY <2>1, AnsweredAlready DEF Settled
  <2> QED BY <2>1, <2>2
<1>7. \/ SettleInterrupted(turn)
      \/ pc \in Batch /\ \E batch \in BatchResults : SettleInterrupted(Append(turn, batch))
  BY DEF Interrupted, Batch
<1>8. CASE SettleInterrupted(turn)
  BY <1>4, <1>5, <1>8
<1>9. ASSUME pc \in Batch, NEW batch \in BatchResults, SettleInterrupted(Append(turn, batch)) PROVE TurnInv'
  BY <1>4, <1>6, <1>9
<1> QED BY <1>7, <1>8, <1>9

-----------------------------------------------------------------------------
(* Everybody else.                                                         *)

\* A save of the live session, with the queue q.
LEMMA SavesCapture ==
  ASSUME TurnInv, NEW q \in Seq(QueueItems), Distinct(q), Untold(q, Marks(history) \cup Marks(turn))
  PROVE  Captured(Snapshot(q, staged, history, seen), q, staged, history, seen)
<1>1. /\ staged \in Seq(Messages) /\ history \in Seq(Messages)
      /\ seen \in [Children -> 0..MaxResults]
      /\ Replayable(history) /\ Single(history) /\ Replayable(staged) /\ Single(staged)
      /\ Marks(staged) \subseteq Marks(turn) /\ Marks(history) \cap Marks(turn) = {}
      /\ Announced(Marks(history) \cup Marks(turn), seen)
  BY DEF TurnInv, Types, TurnSound
<1>2. /\ Marks(history) \cap Marks(staged) = {}
      /\ Announced(Marks(history) \cup Marks(staged), seen)
      /\ Untold(q, Marks(history) \cup Marks(staged))
  BY <1>1 DEF Announced, Untold
<1>3. Savable(q, staged, history, seen)
  BY <1>1, <1>2 DEF Savable
<1> QED BY <1>3, SavedConversation

\* A step that changes the queue and saves the session at most.
LEMMA SavesKeep ==
  ASSUME TurnInv,
         disk' = disk \/ disk' = Snapshot(queue', staged, history, seen),
         queue' \in Seq(QueueItems), Distinct(queue'), Untold(queue', Marks(history) \cup Marks(turn)),
         editor' \subseteq editor, \A i \in editor' : ~Waits(i, queue'),
         opening' \in {opening, None},
         pc' = pc \/ (pc = "closing" /\ pc' = "idle"), request' \in {request, None},
         building' \in {building, None},
         pc' = pc => UNCHANGED <<opening, request, building>>,
         UNCHANGED <<turn, staged, history, seen, results>>, sent' \in Seq(Messages),
         RequestsSound', ClaimsSound', EdgesSound'
  PROVE  TurnInv'
<1>1. \/ disk' = disk
      \/ Captured(disk', queue', staged, history, seen)
  BY SavesCapture
<1>2. /\ disk' \in [queue : Seq(QueueItems), messages : Seq(Messages), seen : [Children -> 0..MaxResults]]
      /\ DiskSound'
  <2>1. CASE disk' = disk
    BY <2>1 DEF TurnInv, Types, DiskSound
  <2>2. CASE Captured(disk', queue', staged, history, seen)
    <3>1. \A c \in Children : seen[c] <= results'[c]
      BY DEF TurnInv, TurnSound
    <3> QED BY <2>2, <3>1 DEF Captured, DiskSound
  <2> QED BY <1>1, <2>1, <2>2
<1>3. pc' \in Locations
  BY DEF TurnInv, Types, Locations
<1>4. Types'
  BY <1>2, <1>3 DEF TurnInv, Types
<1>5. TurnSound'
  <2>1. pc' \in Batch <=> pc \in Batch
    BY DEF Batch
  <2> QED BY <2>1 DEF TurnInv, TurnSound
<1>6. QueueSound'
  BY DEF QueueSound
<1>7. EditorSound'
  <2> SUFFICES ASSUME NEW i \in editor'
               PROVE  /\ UserMessage(i) \notin Marks(history) \cup Marks(turn) \cup Marks(disk'.messages)
                      /\ ~Waits(i, disk'.queue)
                      /\ pc' = "opening" => i # opening'
                      /\ pc' \in InRequest /\ request' # None => i \notin Carried(request')
                      /\ pc' \in InRequest \ {"request"} /\ building' # None => i \notin Carried(building')
    BY DEF EditorSound
  <2>1. /\ UserMessage(i) \notin Marks(history) \cup Marks(turn) \cup Marks(disk.messages)
        /\ ~Waits(i, disk.queue)
        /\ pc = "opening" => i # opening
        /\ pc \in InRequest /\ request # None => i \notin Carried(request)
        /\ pc \in InRequest \ {"request"} /\ building # None => i \notin Carried(building)
    BY DEF TurnInv, EditorSound
  <2>2. UserMessage(i) \notin Marks(disk'.messages) /\ ~Waits(i, disk'.queue)
    <3>1. CASE disk' = disk
      BY <2>1, <3>1
    <3>2. CASE Captured(disk', queue', staged, history, seen)
      <4>1. Marks(disk'.messages) = Marks(history) \cup Marks(staged) /\ ~Waits(i, disk'.queue)
        BY <3>2 DEF Captured
      <4>2. Marks(staged) \subseteq Marks(turn)
        BY DEF TurnInv, TurnSound
      <4> QED BY <2>1, <4>1, <4>2
    <3> QED BY <1>1, <3>1, <3>2
  <2> QED BY <2>1, <2>2 DEF InRequest
<1> QED BY <1>2, <1>4, <1>5, <1>6, <1>7 DEF TurnInv

LEMMA CloseKeeps ==
  ASSUME TurnInv, Close
  PROVE  TurnInv'
<1>1. /\ pc = "closing" /\ pc' = "idle" /\ disk' = Snapshot(queue, staged, history, seen)
      /\ opening' = None /\ building' = None /\ request' = None /\ sent' = <<>> /\ mode' = "normal"
      /\ UNCHANGED <<queue, editor, turn, spoke, staged, history, seen, results>>
  BY DEF Close, NoTask, childVars
<1>2. /\ queue \in Seq(QueueItems) /\ Distinct(queue) /\ Untold(queue, Marks(history) \cup Marks(turn))
      /\ \A i \in editor : ~Waits(i, queue)
  BY DEF TurnInv, Types, QueueSound, EditorSound
<1>3. RequestsSound' /\ ClaimsSound' /\ EdgesSound'
  BY <1>1 DEF TurnInv, RequestsSound, ClaimsSound, EdgesSound, InFlightAt, InRequest, Final, Waiting
<1>4. sent' \in Seq(Messages)
  BY <1>1
<1> QED BY <1>1, <1>2, <1>3, <1>4, SavesKeep

LEMMA OtherSaveKeeps ==
  ASSUME TurnInv, OtherSave
  PROVE  TurnInv'
<1>1. /\ disk' = Snapshot(queue, staged, history, seen)
      /\ UNCHANGED <<pc, mode, queue, editor, opening, turn, spoke, staged, history, seen, results,
                     building, request, sent>>
  BY DEF OtherSave, inputVars, childVars, requestVars
<1>2. /\ queue \in Seq(QueueItems) /\ Distinct(queue) /\ Untold(queue, Marks(history) \cup Marks(turn))
      /\ \A i \in editor : ~Waits(i, queue)
      /\ sent \in Seq(Messages)
  BY DEF TurnInv, Types, QueueSound, EditorSound
<1>3. RequestsSound' /\ ClaimsSound' /\ EdgesSound'
  BY <1>1 DEF TurnInv, RequestsSound, ClaimsSound, EdgesSound, Adoptable
<1> QED BY <1>1, <1>2, <1>3, SavesKeep

LEMMA EnqueueKeeps ==
  ASSUME TurnInv, NEW i \in Inputs, Enqueue(i)
  PROVE  TurnInv'
<1>1. /\ i \in editor /\ editor' = editor \ {i} /\ pc \notin {"idle", "down"}
      /\ disk' = Snapshot(queue', staged, history, seen)
      /\ UNCHANGED <<pc, mode, opening, turn, spoke, staged, history, seen, results,
                     building, request, sent>>
  BY DEF Enqueue, childVars, requestVars
<1>2. PICK held \in BOOLEAN : queue' = Append(queue, [input |-> i, held |-> held, inflight |-> FALSE])
  BY DEF Enqueue
<1> DEFINE item == [input |-> i, held |-> held, inflight |-> FALSE]
<1>3. item \in QueueItems /\ item.input = i /\ item.inflight = FALSE
  BY DEF QueueItems
<1>4. /\ queue \in Seq(QueueItems) /\ Distinct(queue) /\ Untold(queue, Marks(history) \cup Marks(turn))
      /\ \A j \in editor : ~Waits(j, queue)
      /\ UserMessage(i) \notin Marks(history) \cup Marks(turn)
      /\ sent \in Seq(Messages)
  BY <1>1 DEF TurnInv, Types, QueueSound, EditorSound
<1>5. DOMAIN queue = 1..Len(queue) /\ Len(queue) \in Nat
  BY <1>4
<1> HIDE DEF item
<1>6. /\ queue' \in Seq(QueueItems) /\ DOMAIN queue' = 1..(Len(queue) + 1)
      /\ \A k \in 1..Len(queue) : queue'[k] = queue[k]
      /\ queue'[Len(queue) + 1] = item
  BY <1>2, <1>3, <1>4, Appended DEF item
<1>7. \A k \in DOMAIN queue' : (k \in DOMAIN queue /\ queue'[k] = queue[k])
                               \/ (k = Len(queue) + 1 /\ queue'[k] = item)
  BY <1>5, <1>6
<1>8. \A k \in DOMAIN queue : queue[k].input # i
  BY <1>1, <1>4 DEF Waits
<1>9. Distinct(queue')
  BY <1>3, <1>4, <1>7, <1>8 DEF Distinct
<1>10. Untold(queue', Marks(history) \cup Marks(turn))
  BY <1>3, <1>4, <1>7 DEF Untold
<1>11. \A j \in editor' : ~Waits(j, queue')
  BY <1>1, <1>3, <1>4, <1>7 DEF Waits
<1>12. RequestsSound'
  BY <1>1 DEF TurnInv, RequestsSound, Adoptable
<1>13. ClaimsSound'
  BY <1>1, <1>3, <1>7 DEF TurnInv, ClaimsSound
<1>14. EdgesSound'
  <2>1. pc = "opening" => i # opening
    BY <1>1 DEF TurnInv, EditorSound
  <2>2. pc = "opening" => ~Waits(opening, queue')
    BY <1>3, <1>7, <2>1 DEF TurnInv, EdgesSound, Waits
  <2> QED BY <1>1, <2>2 DEF TurnInv, EdgesSound
<1> QED BY <1>1, <1>4, <1>6, <1>9, <1>10, <1>11, <1>12, <1>13, <1>14, SavesKeep

LEMMA RecallKeeps ==
  ASSUME TurnInv, Recall
  PROVE  TurnInv'
<1> DEFINE rest == SubSeq(queue, 1, Len(queue) - 1)
<1>1. /\ queue # <<>> /\ queue' \in {rest, Released(rest)}
      /\ UNCHANGED <<pc, mode, editor, opening, turn, spoke, staged, history, seen, results,
                     building, request, disk, sent>>
  BY DEF Recall, childVars
<1>2. /\ queue \in Seq(QueueItems) /\ Distinct(queue) /\ Untold(queue, Marks(history) \cup Marks(turn))
      /\ \A j \in editor : ~Waits(j, queue)
      /\ sent \in Seq(Messages)
  BY DEF TurnInv, Types, QueueSound, EditorSound
<1>3. Len(queue) \in Nat /\ Len(queue) # 0 /\ DOMAIN queue = 1..Len(queue)
  BY <1>1, <1>2
<1>4. /\ rest \in Seq(QueueItems) /\ DOMAIN rest = 1..(Len(queue) - 1)
      /\ \A k \in 1..(Len(queue) - 1) : rest[k] = queue[k]
  BY <1>2, <1>3
<1> HIDE DEF rest
<1>5. \A k \in DOMAIN rest : k \in DOMAIN queue /\ rest[k] = queue[k]
  BY <1>3, <1>4
<1>6. /\ queue' \in Seq(QueueItems) /\ DOMAIN queue' = DOMAIN rest
      /\ \A k \in DOMAIN queue' : /\ queue'[k].input = rest[k].input
                                  /\ queue'[k].held = rest[k].held
                                  /\ queue'[k].inflight => rest[k].inflight
  <2>1. CASE queue' = rest
    BY <1>4, <2>1
  <2>2. CASE queue' = Released(rest)
    <3>1. /\ Released(rest) \in Seq(QueueItems) /\ DOMAIN Released(rest) = DOMAIN rest
          /\ \A k \in DOMAIN rest : /\ Released(rest)[k].input = rest[k].input
                                    /\ Released(rest)[k].held = rest[k].held
                                    /\ Released(rest)[k].inflight = FALSE
      BY <1>4, ReleasedIs
    <3> QED BY <2>2, <3>1
  <2> QED BY <1>1, <2>1, <2>2
<1>7. \A k \in DOMAIN queue' : /\ k \in DOMAIN queue
                               /\ queue'[k].input = queue[k].input
                               /\ queue'[k].held = queue[k].held
                               /\ queue'[k].inflight => queue[k].inflight
  BY <1>5, <1>6
<1>8. /\ Distinct(queue') /\ Untold(queue', Marks(history) \cup Marks(turn))
      /\ \A i : Waits(i, queue') => Waits(i, queue)
  BY <1>2, <1>7 DEF Distinct, Untold, Waits
<1>9. RequestsSound'
  BY <1>1 DEF TurnInv, RequestsSound, Adoptable
<1>10. ClaimsSound'
  BY <1>1, <1>7 DEF TurnInv, ClaimsSound
<1>11. EdgesSound'
  BY <1>1, <1>8 DEF TurnInv, EdgesSound
<1> QED BY <1>1, <1>2, <1>6, <1>8, <1>9, <1>10, <1>11, SavesKeep

LEMMA ChildSettlesKeeps ==
  ASSUME TurnInv, NEW c \in Children, ChildSettles(c)
  PROVE  TurnInv'
<1>1. /\ results[c] < MaxResults /\ results' = [results EXCEPT ![c] = @ + 1]
      /\ UNCHANGED <<pc, mode, queue, editor, opening, turn, spoke, staged, history, seen,
                     building, request, disk, sent>>
  BY DEF ChildSettles, inputVars, requestVars
<1>2. results \in [Children -> 0..MaxResults] /\ MaxResults \in Nat
  BY TurnConstants DEF TurnInv, Types
<1>3. results' \in [Children -> 0..MaxResults] /\ \A d \in Children : results[d] <= results'[d]
  BY <1>1, <1>2
<1>4. /\ \A d \in Children : seen[d] <= results[d] /\ disk.seen[d] <= results[d]
      /\ seen \in [Children -> 0..MaxResults] /\ disk.seen \in [Children -> 0..MaxResults]
  BY DEF TurnInv, Types, TurnSound, DiskSound
<1>5. \A d \in Children : seen[d] <= results'[d] /\ disk.seen[d] <= results'[d]
  <2> TAKE d \in Children
  <2>1. results[d] \in Nat /\ results'[d] \in Nat /\ seen[d] \in Nat /\ disk.seen[d] \in Nat
    BY <1>2, <1>3, <1>4
  <2> QED BY <1>3, <1>4, <2>1
<1>6. Types'
  BY <1>1, <1>3 DEF TurnInv, Types
<1>7. DiskSound'
  BY <1>1, <1>5 DEF TurnInv, DiskSound
<1>8. TurnSound'
  BY <1>1, <1>5 DEF TurnInv, TurnSound
<1>9. QueueSound' /\ EditorSound'
  BY <1>1 DEF TurnInv, QueueSound, EditorSound
<1>10. RequestsSound' /\ ClaimsSound' /\ EdgesSound'
  BY <1>1 DEF TurnInv, RequestsSound, ClaimsSound, EdgesSound, Adoptable
<1> QED BY <1>6, <1>7, <1>8, <1>9, <1>10 DEF TurnInv

LEMMA CrashKeeps ==
  ASSUME TurnInv, Crash
  PROVE  TurnInv'
<1>1. /\ pc' = "down" /\ mode' = "normal" /\ opening' = None /\ building' = None /\ request' = None
      /\ sent' = <<>> /\ queue' = <<>> /\ turn' = <<>> /\ spoke' = FALSE /\ staged' = <<>> /\ history' = <<>>
      /\ seen' = [c \in Children |-> 0]
      /\ UNCHANGED <<editor, results, disk>>
  BY DEF Crash, NoTask
<1>2. <<>> \in Seq(Messages) /\ <<>> \in Seq(QueueItems) /\ DOMAIN <<>> = {} /\ 0 \in 0..MaxResults
  BY TurnConstants
<1>3. Marks(<<>>) = {} /\ Single(<<>>) /\ Replayable(<<>>)
  BY MarksOfNothing
<1>4. results \in [Children -> 0..MaxResults] /\ \A c \in Children : 0 <= results[c]
  BY TurnConstants DEF TurnInv, Types
<1>5. seen' \in [Children -> 0..MaxResults]
  BY <1>1, <1>2
<1>6. Types'
  BY <1>1, <1>2, <1>5 DEF TurnInv, Types, Locations
<1>7. DiskSound'
  BY <1>1 DEF TurnInv, DiskSound
<1>8. TurnSound'
  BY <1>1, <1>2, <1>3, <1>4 DEF TurnSound, Batch, Announced
<1>9. QueueSound' /\ ClaimsSound'
  BY <1>1, <1>2 DEF QueueSound, ClaimsSound, Distinct, Untold
<1>10. EditorSound'
  BY <1>1, <1>2, <1>3 DEF TurnInv, EditorSound, Waits, InRequest
<1>11. RequestsSound' /\ EdgesSound'
  BY <1>1 DEF RequestsSound, EdgesSound, InFlightAt, Final, Waiting
<1> QED BY <1>6, <1>7, <1>8, <1>9, <1>10, <1>11 DEF TurnInv

LEMMA ResumeKeeps ==
  ASSUME TurnInv, Resume
  PROVE  TurnInv'
<1>1. /\ pc = "down" /\ pc' = "idle" /\ queue' = disk.queue /\ seen' = disk.seen
      /\ history' = Append(disk.messages, Message("resumed"))
      /\ UNCHANGED <<mode, editor, opening, turn, spoke, staged, results, building, request, disk, sent>>
  BY DEF Resume, inputVars, requestVars
<1>2. /\ disk.messages \in Seq(Messages) /\ disk.queue \in Seq(QueueItems)
      /\ disk.seen \in [Children -> 0..MaxResults]
      /\ Replayable(disk.messages) /\ Single(disk.messages)
      /\ Announced(Marks(disk.messages), disk.seen) /\ Untold(disk.queue, Marks(disk.messages))
      /\ Distinct(disk.queue) /\ \A k \in DOMAIN disk.queue : ~disk.queue[k].inflight
      /\ \A c \in Children : disk.seen[c] <= results[c]
  BY DEF TurnInv, Types, DiskSound, Conversation
<1>3. Message("resumed") \in Messages /\ Message("resumed").kind = "resumed"
  BY PlainMessages DEF Kinds
<1>4. Message("resumed").kind \notin {"user", "event", "calls", "results"}
  BY <1>3
<1>5. history' \in Seq(Messages) /\ Marks(history') = Marks(disk.messages)
  <2>1. Append(disk.messages, Message("resumed")) \in Seq(Messages)
    BY <1>2, <1>3, Appended
  <2>2. Marks(Append(disk.messages, Message("resumed"))) = Marks(disk.messages)
    BY <1>2, <1>3, <1>4, MarksAppended
  <2> QED BY <1>1, <2>1, <2>2
<1>6. Replayable(history') /\ Single(history')
  BY <1>1, <1>2, <1>3, <1>4, ReplayableAppended, SingleAppended
<1>7. turn = <<>> /\ staged = <<>> /\ spoke = FALSE /\ sent = <<>>
  BY <1>1 DEF TurnInv, EdgesSound, Final
<1>8. Marks(<<>>) = {} /\ Single(<<>>) /\ Replayable(<<>>)
  BY MarksOfNothing
<1>9. Types'
  BY <1>1, <1>2, <1>5 DEF TurnInv, Types, Locations
<1>10. DiskSound'
  BY <1>1 DEF TurnInv, DiskSound
<1>11. TurnSound'
  BY <1>1, <1>2, <1>5, <1>6, <1>7, <1>8 DEF TurnSound, Batch
<1>12. QueueSound' /\ ClaimsSound'
  BY <1>1, <1>2, <1>5, <1>7, <1>8 DEF QueueSound, ClaimsSound
<1>13. EditorSound'
  BY <1>1, <1>5, <1>7, <1>8 DEF TurnInv, EditorSound, InRequest
<1>14. RequestsSound' /\ EdgesSound'
  BY <1>1, <1>7 DEF RequestsSound, EdgesSound, InFlightAt, Final, Waiting
<1> QED BY <1>9, <1>10, <1>11, <1>12, <1>13, <1>14 DEF TurnInv

-----------------------------------------------------------------------------
(* Building a request.                                                     *)

\* The events that deliver results are new, and each announces another one.
LEMMA DeliveriesAre ==
  ASSUME TurnInv, NEW order \in EventOrders(Unseen),
         NEW e, e = [k \in DOMAIN order |-> ResultEvent(order[k])]
  PROVE  /\ e \in Seq(Messages) /\ Replayable(e) /\ Single(e)
         /\ \A m \in Marks(e) : m.kind = "event"
         /\ Marks(e) \cap (Marks(history) \cup Marks(turn)) = {}
         /\ Announced(Marks(e), results)
<1> DEFINE n == Cardinality(Unseen)
<1>1. n \in Nat
  <2>1. Unseen \subseteq Children
    BY DEF Unseen
  <2>2. IsFiniteSet(Unseen)
    BY <2>1, TurnConstants, FS_Subset
  <2> QED BY <2>2, FS_CardinalityType
<1>2. /\ order \in [1..n -> Unseen] /\ DOMAIN order = 1..n
      /\ \A a, b \in 1..n : order[a] = order[b] => a = b
  BY DEF EventOrders
<1> HIDE DEF n
<1>3. /\ results \in [Children -> 0..MaxResults] /\ seen \in [Children -> 0..MaxResults]
      /\ \A c \in Children : seen[c] <= results[c]
      /\ Announced(Marks(history) \cup Marks(turn), seen)
  BY DEF TurnInv, Types, TurnSound
<1>4. \A c \in Unseen : c \in Children /\ results[c] # 0 /\ results[c] # seen[c]
  BY DEF Unseen, Received
<1>5. \A c \in Unseen : results[c] \in 1..MaxResults /\ seen[c] \in Nat /\ seen[c] < results[c]
  BY <1>3, <1>4, TurnConstants
<1>6. ASSUME NEW k \in 1..n
      PROVE  /\ e[k] = [kind |-> "event", of |-> <<order[k], results[order[k]]>>]
             /\ e[k] \in Messages /\ e[k].kind = "event" /\ order[k] \in Unseen
  <2>1. order[k] \in Unseen /\ e[k] = ResultEvent(order[k])
    BY <1>2
  <2>2. order[k] \in Children /\ results[order[k]] \in 0..MaxResults
    BY <1>3, <1>4, <2>1
  <2> QED BY <2>1, <2>2 DEF ResultEvent, Messages, Kinds
<1>7. DOMAIN e = 1..n /\ e = [k \in 1..n |-> e[k]]
  BY <1>2
<1>8. e \in Seq(Messages)
  BY <1>1, <1>6, <1>7
<1>9. Replayable(e)
  BY <1>6, <1>7 DEF Replayable
<1>10. Single(e)
  <2> SUFFICES ASSUME NEW j \in 1..n, NEW k \in 1..n, e[j] = e[k] PROVE j = k
    BY <1>7 DEF Single
  <2>1. /\ e[j] = [kind |-> "event", of |-> <<order[j], results[order[j]]>>]
        /\ e[k] = [kind |-> "event", of |-> <<order[k], results[order[k]]>>]
    BY <1>6
  <2>2. /\ e[j].of = <<order[j], results[order[j]]>>
        /\ e[k].of = <<order[k], results[order[k]]>>
    BY <2>1
  <2>3. order[j] = order[k]
    BY <2>2
  <2> QED BY <1>2, <2>3
<1>11. \A m \in Marks(e) : \E c \in Unseen : m = [kind |-> "event", of |-> <<c, results[c]>>]
  BY <1>6, <1>7 DEF Marks
<1>12. ASSUME NEW c \in Unseen, [kind |-> "event", of |-> <<c, results[c]>>] \in Marks(history) \cup Marks(turn)
       PROVE  FALSE
  <2> DEFINE m == [kind |-> "event", of |-> <<c, results[c]>>]
  <2>1. PICK d \in Children : \E x \in 1..seen[d] : m = [kind |-> "event", of |-> <<d, x>>]
    BY <1>3, <1>12 DEF Announced
  <2>2. PICK x \in 1..seen[d] : m = [kind |-> "event", of |-> <<d, x>>]
    BY <2>1
  <2>3. m.of = <<c, results[c]>> /\ m.of = <<d, x>>
    BY <2>2
  <2>4. c = d /\ results[c] = x
    BY <2>3
  <2> QED BY <1>5, <2>4
<1>13. Announced(Marks(e), results)
  <2>1. \A c \in Unseen : results[c] \in 1..results[c] /\ c \in Children
    BY <1>4, <1>5
  <2> QED BY <1>11, <2>1 DEF Announced
<1>14. Marks(e) \cap (Marks(history) \cup Marks(turn)) = {}
  BY <1>11, <1>12
<1> QED BY <1>8, <1>9, <1>10, <1>11, <1>13, <1>14

LEMMA ClaimedIs ==
  ASSUME NEW q \in Seq(QueueItems)
  PROVE  /\ Claimed(q) \in Seq(QueueItems)
         /\ DOMAIN Claimed(q) = DOMAIN q
         /\ \A k \in DOMAIN q : /\ Claimed(q)[k].input = q[k].input
                                /\ Claimed(q)[k].held = q[k].held
                                /\ Claimed(q)[k].inflight => q[k].inflight \/ ~q[k].held
<1> DEFINE After(k) == [q[k] EXCEPT !.inflight = q[k].inflight \/ ~q[k].held]
<1>1. DOMAIN q = 1..Len(q) /\ Len(q) \in Nat /\ \A k \in DOMAIN q : q[k] \in QueueItems
  OBVIOUS
<1>2. ASSUME NEW item \in QueueItems, NEW b \in BOOLEAN
      PROVE  /\ [item EXCEPT !.inflight = b] \in QueueItems
             /\ [item EXCEPT !.inflight = b].input = item.input
             /\ [item EXCEPT !.inflight = b].held = item.held
             /\ [item EXCEPT !.inflight = b].inflight = b
  BY DEF QueueItems
<1>3. ASSUME NEW k \in DOMAIN q
      PROVE  /\ After(k) \in QueueItems
             /\ After(k).input = q[k].input
             /\ After(k).held = q[k].held
             /\ After(k).inflight = (q[k].inflight \/ ~q[k].held)
  <2>1. q[k] \in QueueItems
    BY <1>1
  <2>2. (q[k].inflight \/ ~q[k].held) \in BOOLEAN
    OBVIOUS
  <2> QED BY <1>2, <2>1, <2>2
<1>4. Claimed(q) = [k \in 1..Len(q) |-> After(k)]
  BY <1>1 DEF Claimed
<1> HIDE DEF After
<1>5. DOMAIN Claimed(q) = DOMAIN q /\ \A k \in DOMAIN q : Claimed(q)[k] = After(k)
  BY <1>1, <1>4
<1>6. Claimed(q) \in Seq(QueueItems)
  BY <1>1, <1>3, <1>4
<1>7. ASSUME NEW k \in DOMAIN q
      PROVE  /\ Claimed(q)[k].input = q[k].input
             /\ Claimed(q)[k].held = q[k].held
             /\ Claimed(q)[k].inflight => q[k].inflight \/ ~q[k].held
  <2>1. Claimed(q)[k] = After(k)
    BY <1>5
  <2> QED BY <1>3, <2>1
<1> QED BY <1>5, <1>6, <1>7

\* The inputs a request claims are the ones that are not held back, each once.
LEMMA ClaimedInputsAre ==
  ASSUME NEW q \in Seq(QueueItems), Distinct(q)
  PROVE  /\ ClaimedInputs(q) \in Seq(Inputs)
         /\ \A k \in DOMAIN ClaimedInputs(q) : \E n \in DOMAIN q : ClaimedInputs(q)[k] = q[n].input
         /\ \A n \in DOMAIN q : ~q[n].held => \E k \in DOMAIN ClaimedInputs(q) : ClaimedInputs(q)[k] = q[n].input
         /\ \A j, k \in DOMAIN ClaimedInputs(q) : ClaimedInputs(q)[j] = ClaimedInputs(q)[k] => j = k
<1> DEFINE I == {k \in DOMAIN q : ~q[k].held}
           free == Selected(q, I)
           c == ClaimedInputs(q)
<1>1. I \in SUBSET DOMAIN q /\ \A n \in DOMAIN q : ~q[n].held => n \in I
  OBVIOUS
<1>2. c = [k \in DOMAIN free |-> free[k].input]
  BY DEF ClaimedInputs
<1> HIDE DEF I, c
<1>3. /\ free \in Seq(QueueItems)
      /\ \A k \in DOMAIN free : \E n \in I : free[k] = q[n]
      /\ \A n \in I : \E k \in DOMAIN free : free[k] = q[n]
      /\ Distinct(free)
  BY <1>1, SelectedQueue
<1> HIDE DEF free
<1>4. DOMAIN free = 1..Len(free) /\ Len(free) \in Nat /\ \A k \in DOMAIN free : free[k] \in QueueItems
  BY <1>3
<1>5. \A k \in DOMAIN free : free[k].input \in Inputs
  BY <1>4 DEF QueueItems
<1>6. DOMAIN c = DOMAIN free /\ \A k \in DOMAIN free : c[k] = free[k].input
  BY <1>2
<1>7. c \in Seq(Inputs)
  BY <1>2, <1>4, <1>5
<1>8. \A k \in DOMAIN c : \E n \in DOMAIN q : c[k] = q[n].input
  BY <1>1, <1>3, <1>6
<1>9. \A n \in DOMAIN q : ~q[n].held => \E k \in DOMAIN c : c[k] = q[n].input
  BY <1>1, <1>3, <1>6
<1>10. \A j, k \in DOMAIN c : c[j] = c[k] => j = k
  BY <1>3, <1>6 DEF Distinct
<1> QED BY <1>7, <1>8, <1>9, <1>10 DEF c

LEMMA BeginRequestKeeps ==
  ASSUME TurnInv, BeginRequest
  PROVE  TurnInv'
<1>1. PICK order \in EventOrders(Unseen) :
        turn' = turn \o [k \in DOMAIN order |-> ResultEvent(order[k])]
  BY DEF BeginRequest
<1>2. /\ pc = "request" /\ pc' = "admit" /\ staged' = turn'
      /\ seen' = [c \in Children |-> results[c]]
      /\ queue' = Claimed(queue)
      /\ building' = [pending |-> ClaimedInputs(queue), turn |-> turn']
      /\ UNCHANGED <<mode, editor, opening, history, results, request, disk, sent>>
  BY DEF BeginRequest, inputVars
<1> DEFINE e == [k \in DOMAIN order |-> ResultEvent(order[k])]
           M == Marks(history) \cup Marks(turn)
           pending == ClaimedInputs(queue)
<1>3. turn' = turn \o e
  BY <1>1
<1>4. /\ e \in Seq(Messages) /\ Replayable(e) /\ Single(e)
      /\ \A m \in Marks(e) : m.kind = "event"
      /\ Marks(e) \cap M = {}
      /\ Announced(Marks(e), results)
  BY DeliveriesAre
<1> HIDE DEF e
<1>5. /\ turn \in Seq(Messages) /\ Replayable(turn) /\ Single(turn)
      /\ Marks(history) \cap Marks(turn) = {}
      /\ Replayable(history) /\ Single(history) /\ Announced(M, seen)
      /\ \A c \in Children : seen[c] <= results[c]
      /\ results \in [Children -> 0..MaxResults] /\ seen \in [Children -> 0..MaxResults]
  BY <1>2 DEF TurnInv, Types, TurnSound, Batch
<1>6. /\ turn' \in Seq(Messages) /\ Marks(turn') = Marks(turn) \cup Marks(e)
      /\ Replayable(turn') /\ Single(turn')
  <2>1. Marks(turn) \cap Marks(e) = {}
    BY <1>4
  <2> QED BY <1>3, <1>4, <1>5, <2>1, Concatenated, MarksConcatenated, ReplayableConcatenated, SingleConcatenated
<1>7. /\ queue \in Seq(QueueItems) /\ Distinct(queue) /\ Untold(queue, M)
      /\ \A j \in editor : ~Waits(j, queue) /\ UserMessage(j) \notin M
  BY DEF TurnInv, Types, QueueSound, EditorSound
<1>8. /\ queue' \in Seq(QueueItems) /\ DOMAIN queue' = DOMAIN queue
      /\ \A k \in DOMAIN queue : /\ queue'[k].input = queue[k].input
                                 /\ queue'[k].held = queue[k].held
                                 /\ queue'[k].inflight => queue[k].inflight \/ ~queue[k].held
  BY <1>2, <1>7, ClaimedIs
<1>9. /\ pending \in Seq(Inputs)
      /\ \A k \in DOMAIN pending : \E n \in DOMAIN queue : pending[k] = queue[n].input
      /\ \A n \in DOMAIN queue : ~queue[n].held => \E k \in DOMAIN pending : pending[k] = queue[n].input
      /\ \A j, k \in DOMAIN pending : pending[j] = pending[k] => j = k
  BY <1>7, ClaimedInputsAre
<1> HIDE DEF pending
<1>10. /\ building' \in Requests /\ building' # None
       /\ building'.pending = pending /\ building'.turn = turn'
       /\ Carried(building') = {pending[k] : k \in DOMAIN pending}
  <2>1. building' = [pending |-> pending, turn |-> turn']
    BY <1>2 DEF pending
  <2>2. building' \in Requests
    BY <1>6, <1>9, <2>1 DEF Requests
  <2> QED BY <2>1, <2>2, TurnConstants DEF Carried
<1>11. \A m \in Marks(e) : \A i : m # UserMessage(i)
  BY <1>4 DEF UserMessage
<1>12. Untold(queue', M \cup Marks(e)) /\ Distinct(queue') /\ \A j \in editor : ~Waits(j, queue')
  BY <1>7, <1>8, <1>11 DEF Untold, Distinct, Waits
<1>13. \A i \in Carried(building') : Waits(i, queue) /\ UserMessage(i) \notin M \cup Marks(e)
  BY <1>7, <1>9, <1>10, <1>11 DEF Untold, Waits
<1>14. Announced(M \cup Marks(e), seen')
  <2>1. \A c \in Children : seen'[c] = results[c] /\ \A x \in 1..seen[c] : x \in 1..seen'[c]
    BY <1>2, <1>5
  <2>2. \A c \in Children : \A x \in 1..results[c] : x \in 1..seen'[c]
    BY <2>1
  <2> QED BY <1>4, <1>5, <2>1, <2>2 DEF Announced
<1>15. Types'
  BY <1>2, <1>5, <1>6, <1>8, <1>10 DEF TurnInv, Types, Locations
<1>16. DiskSound'
  BY <1>2 DEF TurnInv, DiskSound
<1>17. TurnSound'
  <2>1. \A c \in Children : seen'[c] <= results[c]
    BY <1>2, <1>5
  <2>2. Marks(history) \cap Marks(turn') = {}
    BY <1>4, <1>5, <1>6
  <2>3. Announced(Marks(history) \cup Marks(turn'), seen')
    <3>1. Marks(history) \cup Marks(turn') = M \cup Marks(e)
      BY <1>6
    <3> QED BY <1>14, <3>1
  <2> QED BY <1>2, <1>5, <1>6, <2>1, <2>2, <2>3 DEF TurnSound, Batch
<1>18. QueueSound'
  BY <1>2, <1>6, <1>12 DEF QueueSound, Untold
<1>19. EditorSound'
  <2> SUFFICES ASSUME NEW i \in editor
               PROVE  /\ UserMessage(i) \notin Marks(history) \cup Marks(turn') \cup Marks(disk.messages)
                      /\ ~Waits(i, queue') /\ ~Waits(i, disk.queue)
                      /\ request # None => i \notin Carried(request)
                      /\ i \notin Carried(building')
    BY <1>2 DEF EditorSound
  <2>1. /\ UserMessage(i) \notin Marks(disk.messages) /\ ~Waits(i, disk.queue)
        /\ request # None => i \notin Carried(request)
    BY <1>2 DEF TurnInv, EditorSound, InRequest
  <2> QED BY <1>6, <1>7, <1>11, <1>12, <1>13, <2>1
<1>20. RequestsSound'
  <2>1. sent \in Seq(Messages) /\ Continues(turn, sent)
    BY <1>2 DEF TurnInv, Types, EdgesSound, Waiting, Locations
  <2>2. Continues(turn', sent)
    BY <1>3, <1>4, <1>5, <2>1, ContinuesConcatenated
  <2>3. Tellings(Carried(building')) \cap (Marks(history) \cup Marks(turn')) = {}
    BY <1>6, <1>13 DEF Tellings
  <2>4. Adoptable(building)'
    BY <1>2, <1>6, <1>10, <2>2, <2>3 DEF Adoptable
  <2>5. request # None => Adoptable(request)'
    <3> SUFFICES ASSUME request # None PROVE Adoptable(request)'
      OBVIOUS
    <3>1. Adoptable(request)
      BY <1>2 DEF TurnInv, RequestsSound
    <3>2. \A m \in Tellings(Carried(request)) : m.kind = "user"
      BY DEF Tellings, UserMessage
    <3>3. Tellings(Carried(request)) \cap (Marks(history) \cup Marks(turn')) = {}
      BY <1>4, <1>6, <3>1, <3>2 DEF Adoptable
    <3>4. Marks(request.turn) \subseteq Marks(turn') \cup Tellings(Carried(request))
      BY <1>6, <3>1 DEF Adoptable
    <3> QED BY <1>2, <3>1, <3>3, <3>4 DEF Adoptable
  <2> QED BY <1>2, <1>9, <1>10, <2>4, <2>5 DEF RequestsSound, InFlightAt
<1>21. ClaimsSound'
  <2> SUFFICES ASSUME NEW k \in DOMAIN queue, queue'[k].inflight
               PROVE  ~queue'[k].held /\ queue'[k].input \in Carried(building')
    BY <1>2, <1>8, <1>10 DEF ClaimsSound, InRequest
  <2>1. ~queue[k].held
    BY <1>8 DEF TurnInv, ClaimsSound
  <2> QED BY <1>8, <1>9, <1>10, <2>1
<1>22. EdgesSound'
  <2>1. sent \in Seq(Messages) /\ Continues(turn, sent)
    BY <1>2 DEF TurnInv, Types, EdgesSound, Waiting, Locations
  <2>2. Continues(turn', sent)
    BY <1>3, <1>4, <1>5, <2>1, ContinuesConcatenated
  <2> QED BY <1>2, <2>2 DEF EdgesSound, Final
<1> QED BY <1>15, <1>16, <1>17, <1>18, <1>19, <1>20, <1>21, <1>22 DEF TurnInv

\* The messages of inputs that are admitted tell those inputs, each once.
LEMMA AdmittedMessagesAre ==
  ASSUME NEW pending \in Seq(Inputs), NEW I \in SUBSET DOMAIN pending,
         \A j, k \in DOMAIN pending : pending[j] = pending[k] => j = k,
         NEW u, u = UserMessages(Selected(pending, I))
  PROVE  /\ u \in Seq(Messages) /\ Replayable(u) /\ Single(u)
         /\ Marks(u) \subseteq Tellings({pending[k] : k \in DOMAIN pending})
         /\ \A n \in I : UserMessage(pending[n]) \in Marks(u)
<1> DEFINE p == Selected(pending, I)
<1>1. p \in Seq(Inputs)
  BY SelectionIs
<1>2. PICK f \in [DOMAIN p -> I] :
        /\ \A k \in DOMAIN p : p[k] = pending[f[k]]
        /\ \A a, b \in DOMAIN p : f[a] = f[b] => a = b
        /\ \A i \in I : \E k \in DOMAIN p : f[k] = i
  BY SelectionIs
<1>3. u = [k \in DOMAIN p |-> UserMessage(p[k])]
  BY DEF UserMessages
<1> HIDE DEF p
<1>4. \A k \in DOMAIN p : f[k] \in DOMAIN pending /\ p[k] = pending[f[k]] /\ p[k] \in Inputs
  BY <1>1, <1>2
<1>5. DOMAIN p = 1..Len(p) /\ Len(p) \in Nat
  BY <1>1
<1>6. DOMAIN u = DOMAIN p /\ \A k \in DOMAIN p : u[k] = UserMessage(p[k])
  BY <1>3
<1>7. \A k \in DOMAIN p : u[k] \in Messages /\ u[k].kind = "user"
  BY <1>4, <1>6, InputMessages
<1>8. u \in Seq(Messages)
  <2>1. u = [k \in 1..Len(p) |-> u[k]]
    BY <1>3, <1>5
  <2> QED BY <1>5, <1>7, <2>1
<1>9. Replayable(u)
  BY <1>6, <1>7 DEF Replayable
<1>10. Single(u)
  <2> SUFFICES ASSUME NEW j \in DOMAIN p, NEW k \in DOMAIN p, u[j] = u[k] PROVE j = k
    BY <1>6 DEF Single
  <2>1. p[j] = p[k]
    BY <1>6, SameInput
  <2> QED BY <1>2, <1>4, <2>1
<1>11. Marks(u) \subseteq Tellings({pending[k] : k \in DOMAIN pending})
  <2> SUFFICES ASSUME NEW k \in DOMAIN p PROVE u[k] \in Tellings({pending[j] : j \in DOMAIN pending})
    BY <1>6 DEF Marks
  <2> QED BY <1>4, <1>6 DEF Tellings
<1>12. ASSUME NEW n \in I PROVE UserMessage(pending[n]) \in Marks(u)
  <2>1. PICK k \in DOMAIN p : f[k] = n
    BY <1>2
  <2>2. u[k] = UserMessage(pending[n]) /\ u[k].kind = "user" /\ k \in DOMAIN u
    BY <1>4, <1>6, <1>7, <2>1
  <2> QED BY <2>2 DEF Marks
<1> QED BY <1>8, <1>9, <1>10, <1>11, <1>12

LEMMA AdmitKeeps ==
  ASSUME TurnInv, Admit
  PROVE  TurnInv'
<1> DEFINE I == {k \in DOMAIN building.pending : building.pending[k] \notin refused'}
           u == UserMessages(Selected(building.pending, I))
<1>1. /\ pc = "admit" /\ pc' = "prepare"
      /\ building' = [building EXCEPT !.turn = @ \o u]
      /\ UNCHANGED <<mode, queue, editor, opening, turn, spoke, staged, history, seen, results,
                     request, disk, sent>>
  BY DEF Admit, inputVars, childVars
<1>2. I \in SUBSET DOMAIN building.pending
  OBVIOUS
<1> HIDE DEF I
<1>3. /\ Adoptable(building) /\ building.turn = turn
      /\ \A j, k \in DOMAIN building.pending : building.pending[j] = building.pending[k] => j = k
  BY <1>1 DEF TurnInv, RequestsSound
<1>4. building \in Requests /\ building.pending \in Seq(Inputs)
  BY <1>3 DEF Adoptable, Requests
<1>5. /\ u \in Seq(Messages) /\ Replayable(u) /\ Single(u)
      /\ Marks(u) \subseteq Tellings(Carried(building))
  <2>1. u = UserMessages(Selected(building.pending, I))
    OBVIOUS
  <2> HIDE DEF u
  <2>2. /\ u \in Seq(Messages) /\ Replayable(u) /\ Single(u)
        /\ Marks(u) \subseteq Tellings({building.pending[k] : k \in DOMAIN building.pending})
    BY <1>2, <1>3, <1>4, <2>1, AdmittedMessagesAre
  <2> QED BY <2>2 DEF Carried
<1> HIDE DEF u
<1>6. /\ turn \in Seq(Messages) /\ Replayable(turn) /\ Single(turn)
      /\ sent \in Seq(Messages) /\ Continues(turn, sent)
  BY <1>1 DEF TurnInv, Types, TurnSound, EdgesSound, Batch, Waiting, Locations
<1> DEFINE t == turn \o u
<1>7. /\ t \in Seq(Messages) /\ Marks(t) = Marks(turn) \cup Marks(u)
      /\ Replayable(t) /\ Single(t) /\ Continues(t, sent)
  <2>1. Marks(turn) \cap Marks(u) = {}
    BY <1>3, <1>5 DEF Adoptable
  <2> QED BY <1>5, <1>6, <2>1, Concatenated, MarksConcatenated, ReplayableConcatenated, SingleConcatenated,
             ContinuesConcatenated
<1>8. building'.turn = t /\ building'.pending = building.pending /\ building' \in Requests
      /\ Carried(building') = Carried(building) /\ building' # None
  <2>1. building' = [building EXCEPT !.turn = t]
    BY <1>1, <1>3
  <2> HIDE DEF t
  <2>2. building'.turn = t /\ building'.pending = building.pending /\ building' \in Requests
    BY <1>4, <1>7, <2>1 DEF Requests
  <2> QED BY <2>2, TurnConstants DEF Carried
<1> HIDE DEF t
<1>9. Adoptable(building)' /\ Marks(turn) \subseteq Marks(building'.turn)
  BY <1>1, <1>3, <1>5, <1>7, <1>8 DEF Adoptable
<1>10. Types'
  BY <1>1, <1>8 DEF TurnInv, Types, Locations
<1>11. DiskSound' /\ QueueSound'
  BY <1>1 DEF TurnInv, DiskSound, QueueSound
<1>12. TurnSound'
  BY <1>1 DEF TurnInv, TurnSound, Batch
<1>13. EditorSound'
  <2>1. building # None
    BY <1>4, TurnConstants
  <2> QED BY <1>1, <1>8, <2>1 DEF TurnInv, EditorSound, InRequest
<1>14. RequestsSound'
  BY <1>1, <1>9 DEF TurnInv, RequestsSound, Adoptable, InFlightAt
<1>15. ClaimsSound' /\ EdgesSound'
  BY <1>1, <1>8 DEF TurnInv, ClaimsSound, EdgesSound, InRequest, Final, Waiting, Locations
<1> QED BY <1>10, <1>11, <1>12, <1>13, <1>14, <1>15 DEF TurnInv

-----------------------------------------------------------------------------
(* The theorems.                                                           *)

\* The bookkeeping of Agent.run, of the session's queue and of its log (TurnInv) holds
\* whatever the provider, the tools, the user, the children and the faults do.
THEOREM TurnInvariant == Spec => []TurnInv
<1>1. Init => TurnInv
  BY InitSound
<1>2. TurnInv /\ [Next]_vars => TurnInv'
  <2> SUFFICES ASSUME TurnInv, [Next]_vars PROVE TurnInv'
    OBVIOUS
  <2>1. ASSUME EngineStep PROVE TurnInv'
    <3>1. CASE FlushPending \/ OpenTurn \/ NeverOpened
      BY <3>1, FlushPendingKeeps, OpenTurnKeeps, NeverOpenedKeeps
    <3>2. CASE NextStep \/ OutOfSteps \/ BeginRequest \/ Admit \/ Prepared
      BY <3>2, NextStepKeeps, OutOfStepsKeeps, BeginRequestKeeps, AdmitKeeps, PreparedKeeps
    <3>3. CASE PrepareFails \/ Breaks \/ AttemptFails \/ ObserveFails
      BY <3>3, FailingStepsKeep
    <3>4. CASE AttemptFailsOnce \/ BackoffEnds \/ AttemptRetried \/ ImageRejected \/ Observed
      BY <3>4, WaitsKeep
    <3>5. CASE RequestAnswered \/ CorrectionAnswered
      BY <3>5, AnswersKeep
    <3>6. CASE ToolsFinish \/ HintsFail \/ HintsFinish
      BY <3>6, BatchesKeep
    <3>7. CASE StopRedirects \/ StopAllows \/ Interrupted \/ Close
      BY <3>7, StopsKeep, InterruptedKeeps, CloseKeeps
    <3> QED BY <2>1, <3>1, <3>2, <3>3, <3>4, <3>5, <3>6, <3>7 DEF EngineStep
  <2>2. ASSUME Environment PROVE TurnInv'
    <3>1. ASSUME NEW i \in Inputs, SubmitIdle(i) \/ Enqueue(i) PROVE TurnInv'
      BY <3>1, SubmitIdleKeeps, EnqueueKeeps
    <3>2. ASSUME NEW c \in Children, ChildSettles(c) PROVE TurnInv'
      BY <3>2, ChildSettlesKeeps
    <3>3. CASE Recall \/ Cancel \/ OtherSave \/ Crash \/ Resume
      BY <3>3, RecallKeeps, WaitsKeep, OtherSaveKeeps, CrashKeeps, ResumeKeeps
    <3> QED BY <2>2, <3>1, <3>2, <3>3 DEF Environment
  <2>3. ASSUME UNCHANGED vars PROVE TurnInv'
    <3>1. UNCHANGED <<pc, mode, queue, editor, opening, turn, spoke, staged, history, seen, results,
                      building, request, disk, sent>>
      BY <2>3 DEF vars, inputVars, childVars, requestVars
    <3>2. Types' /\ DiskSound' /\ TurnSound' /\ QueueSound'
      BY <3>1 DEF TurnInv, Types, DiskSound, TurnSound, QueueSound
    <3>3. EditorSound'
      BY <3>1 DEF TurnInv, EditorSound
    <3>4. RequestsSound'
      BY <3>1 DEF TurnInv, RequestsSound, Adoptable
    <3>5. ClaimsSound' /\ EdgesSound'
      BY <3>1 DEF TurnInv, ClaimsSound, EdgesSound
    <3> QED BY <3>2, <3>3, <3>4, <3>5 DEF TurnInv
  <2> QED BY <2>1, <2>2, <2>3 DEF Next
<1> QED BY <1>1, <1>2, PTL DEF Spec

\* No message of a conversation without repeated marks is there twice.
LEMMA SingleIsOnce ==
  ASSUME NEW s, Single(s), NEW m, m.kind \in {"user", "event"}
  PROVE  Once(s, m)
BY DEF Single, Once

LEMMA InvariantAccounts == TurnInv => TurnIsAccounted
<1> SUFFICES ASSUME TurnInv PROVE TurnIsAccounted
  OBVIOUS
<1>1. CallsAreAnswered
  <2>1. Replayable(history) /\ Replayable(disk.messages)
    BY DEF TurnInv, TurnSound, DiskSound, Conversation
  <2>2. Replayable(InFlight)
    <3>1. CASE pc # "attempt"
      BY <3>1, MarksOfNothing DEF InFlight
    <3>2. CASE pc = "attempt" /\ mode = "correction"
      BY <3>2 DEF InFlight, TurnInv, TurnSound, Batch
    <3>3. CASE pc = "attempt" /\ mode # "correction"
      BY <3>3 DEF InFlight, TurnInv, RequestsSound, Adoptable, InFlightAt
    <3> QED BY <3>1, <3>2, <3>3
  <2> QED BY <2>1, <2>2 DEF CallsAreAnswered
<1>2. ClaimsEndWithTheRequest
  <2> SUFFICES ASSUME NEW k \in DOMAIN queue, queue[k].inflight
               PROVE  /\ pc \in {"request", "admit", "prepare", "attempt", "backoff", "observe"}
                      /\ mode # "correction" \/ pc \in {"admit", "prepare"}
                      /\ \E n \in DOMAIN building.pending : building.pending[n] = queue[k].input
    BY DEF ClaimsEndWithTheRequest
  <2> QED BY DEF TurnInv, ClaimsSound, InRequest, Carried
<1>3. /\ Told \in Seq(Messages) /\ Single(Told)
      /\ Marks(Told) = Marks(history) \cup Marks(turn)
  <2>1. /\ history \in Seq(Messages) /\ turn \in Seq(Messages) /\ Single(history) /\ Single(turn)
        /\ Marks(history) \cap Marks(turn) = {}
    BY DEF TurnInv, Types, TurnSound
  <2> QED BY <2>1, Concatenated, MarksConcatenated, SingleConcatenated DEF Told
<1>4. EachInputOnce
  <2> SUFFICES ASSUME NEW i \in Inputs
               PROVE  /\ Once(Told, UserMessage(i))
                      /\ Queued(i) => \A k \in DOMAIN Told : Told[k] # UserMessage(i)
    BY DEF EachInputOnce
  <2>1. UserMessage(i).kind \in {"user", "event"}
    BY DEF UserMessage
  <2>2. Once(Told, UserMessage(i))
    BY <1>3, <2>1, SingleIsOnce
  <2>3. Queued(i) => UserMessage(i) \notin Marks(Told)
    BY <1>3 DEF Queued, TurnInv, QueueSound, Untold
  <2>4. (\E k \in DOMAIN Told : Told[k] = UserMessage(i)) => UserMessage(i) \in Marks(Told)
    BY <2>1 DEF Marks
  <2> QED BY <2>2, <2>3, <2>4
<1>5. ResultsAnnouncedOnce
  <2> SUFFICES ASSUME NEW c \in Children, NEW n \in 1..MaxResults
               PROVE  Once(Told, [kind |-> "event", of |-> <<c, n>>])
    BY DEF ResultsAnnouncedOnce
  <2>1. [kind |-> "event", of |-> <<c, n>>].kind \in {"user", "event"}
    OBVIOUS
  <2> QED BY <1>3, <2>1, SingleIsOnce
<1> QED BY <1>1, <1>2, <1>4, <1>5 DEF TurnIsAccounted

\* However requests are retried, fail, are corrected, interrupted or cut off by a crash
\* (Agent.run, claim_user_inputs, settle_unanswered_tool_calls, receive_results): no call is
\* sent or kept without its results, no claim outlives its request, and no input and no result
\* of a child is told twice.
THEOREM TurnStaysAccounted == Spec => []TurnIsAccounted
BY TurnInvariant, InvariantAccounts, PTL

-----------------------------------------------------------------------------
(* What the provider has accepted.                                         *)

LEMMA SentGrows ==
  ASSUME TurnInv, RequestAnswered \/ CorrectionAnswered
  PROVE  Extends(sent', sent)
<1>1. sent \in Seq(Messages) /\ turn \in Seq(Messages)
  BY DEF TurnInv, Types
<1>2. ASSUME RequestAnswered PROVE Extends(sent', sent)
  <2> DEFINE t == AcceptedTurn(request)
  <2>1. sent' = t /\ pc \in InFlightAt /\ mode # "correction"
    BY <1>2 DEF RequestAnswered, InFlightAt
  <2>2. Continues(t, sent) /\ t \in Seq(Messages)
    BY <2>1, InFlightAdoptable, AcceptedSettles DEF Settled
  <2> HIDE DEF t
  <2> QED BY <1>1, <2>1, <2>2, ContinuesIsExtends
<1>3. ASSUME CorrectionAnswered PROVE Extends(sent', sent)
  <2>1. sent' = turn /\ Continues(turn, sent)
    BY SMTT(40), <1>3 DEF CorrectionAnswered, TurnInv, EdgesSound, Waiting, Locations
  <2> QED BY <1>1, <2>1, ContinuesIsExtends
<1> QED BY <1>2, <1>3

LEMMA SentChanges ==
  ASSUME [Next]_vars, sent' # sent
  PROVE  RequestAnswered \/ CorrectionAnswered \/ sent' = <<>>
BY DEF Next, EngineStep, Environment, vars, FlushPending, OpenTurn, NeverOpened, NextStep, OutOfSteps,
       BeginRequest, Admit, Prepared, PrepareFails, Breaks, AttemptFailsOnce, BackoffEnds, AttemptRetried,
       AttemptFails, ImageRejected, Observed, ObserveFails, ToolsFinish, HintsFail, HintsFinish,
       StopRedirects, StopAllows, Interrupted, Close, NoTask, SubmitIdle, Enqueue, Recall, Cancel,
       OtherSave, ChildSettles, Crash, Resume

\* A turn that ends with t keeps all of what continues its beginning.
LEMMA CommitSettles ==
  ASSUME TurnInv, NEW m \in Seq(Messages), Commit(m), NEW s \in Seq(Messages), Continues(m, s)
  PROVE  Extends(history', history \o s)
<1>1. history \in Seq(Messages) /\ history' = history \o m
  BY DEF TurnInv, Types, Commit
<1>2. Continues(history \o m, history \o s)
  BY <1>1, ContinuesBehind
<1>3. history \o m \in Seq(Messages) /\ history \o s \in Seq(Messages)
  BY <1>1, Concatenated
<1> QED BY <1>1, <1>2, <1>3, ContinuesIsExtends

LEMMA MarkedSettles ==
  ASSUME TurnInv, NEW t \in Seq(Messages), Continues(t, sent),
         Commit(Append(Answered(t), Message("marker")))
  PROVE  Extends(history', history \o sent)
<1>1. sent \in Seq(Messages)
  BY DEF TurnInv, Types
<1>2. Message("marker") \in Messages /\ Message("results") \in Messages
  BY PlainMessages DEF Kinds
<1> DEFINE a == Answered(t)
<1>3. a \in Seq(Messages) /\ Continues(a, sent)
  <2>1. a = t \/ a = Append(t, Message("results"))
    BY DEF Answered
  <2>2. Append(t, Message("results")) \in Seq(Messages) /\ Continues(Append(t, Message("results")), sent)
    BY <1>1, <1>2, Appended, ContinuesAppended
  <2> HIDE DEF a
  <2> QED BY <2>1, <2>2
<1> HIDE DEF a
<1> DEFINE m == Append(a, Message("marker"))
<1>4. m \in Seq(Messages) /\ Continues(m, sent)
  BY <1>1, <1>2, <1>3, Appended, ContinuesAppended
<1>5. Commit(m)
  BY DEF a
<1> HIDE DEF m
<1> QED BY <1>1, <1>4, <1>5, CommitSettles

\* The steps that end a turn.
LEMMA EndingSteps ==
  ASSUME TurnInv, [Next]_vars, EndsTurn, spoke
  PROVE  \/ OutOfSteps \/ PrepareFails \/ Breaks \/ AttemptFails \/ ObserveFails
         \/ RequestAnswered \/ CorrectionAnswered \/ StopAllows \/ Interrupted
<1>1. pc # "opening" /\ pc # "closing" /\ pc' = "closing"
  BY DEF EndsTurn, Waiting, TurnInv, EdgesSound, Final
<1>2. CASE EngineStep
  BY <1>1, <1>2 DEF EngineStep, FlushPending, Open, OpenTurn, NeverOpened, NextStep, BeginRequest, Admit, Prepared,
       Send, AttemptFailsOnce, BackoffEnds, AttemptRetried, ImageRejected, Observed, ToolsFinish, HintsFail,
       HintsFinish, StopRedirects, Close
<1>3. CASE Environment
  BY <1>1, <1>3 DEF Environment, SubmitIdle, Open, Enqueue, Recall, Cancel, OtherSave, ChildSettles, Crash, Resume
<1>4. CASE UNCHANGED vars
  BY <1>1, <1>4 DEF vars
<1> QED BY <1>2, <1>3, <1>4 DEF Next

LEMMA SpokenTurnsSettle ==
  ASSUME TurnInv, [Next]_vars, EndsTurn, spoke
  PROVE  Extends(history', history \o sent)
<1>1. /\ sent \in Seq(Messages) /\ turn \in Seq(Messages) /\ Continues(turn, sent)
  BY DEF TurnInv, Types, EdgesSound, EndsTurn
<1>2. ASSUME SettleFailed(turn, queue) PROVE Extends(history', history \o sent)
  BY <1>1, <1>2, MarkedSettles DEF SettleFailed
<1>3. ASSUME request # None, pc \in InRequest, Adoptable(request),
             SettleFailed(AcceptedTurn(request), AcceptedQueue(request))
      PROVE  Extends(history', history \o sent)
  <2>1. AcceptedTurn(request) \in Seq(Messages) /\ Continues(AcceptedTurn(request), sent)
    BY <1>3, AcceptedSettles DEF Settled
  <2> QED BY <1>3, <2>1, MarkedSettles DEF SettleFailed
<1>4. ASSUME NEW kind \in {"assistant"}, Commit(Append(turn, Message(kind)))
      PROVE  Extends(history', history \o sent)
  <2>1. Message(kind) \in Messages
    BY PlainMessages DEF Kinds
  <2>2. Append(turn, Message(kind)) \in Seq(Messages) /\ Continues(Append(turn, Message(kind)), sent)
    BY <1>1, <2>1, Appended, ContinuesAppended
  <2> QED BY <1>1, <1>4, <2>2, CommitSettles
<1>5. CASE OutOfSteps
  BY <1>4, <1>5 DEF OutOfSteps
<1>6. CASE PrepareFails
  <2>1. pc = "prepare" /\ SettleFailed(AcceptedTurn(request), AcceptedQueue(request))
    BY <1>6 DEF PrepareFails
  <2>2. CASE request = None
    BY <1>2, <2>1, <2>2 DEF AcceptedTurn, AcceptedQueue
  <2>3. CASE request # None
    BY <1>3, <2>1, <2>3 DEF TurnInv, RequestsSound, InRequest
  <2> QED BY <2>2, <2>3
<1>7. CASE Breaks
  BY <1>2, <1>7 DEF Breaks
<1>8. CASE AttemptFails
  <2>1. CASE mode = "correction"
    BY <1>2, <1>8, <2>1 DEF AttemptFails
  <2>2. CASE mode # "correction"
    BY <1>3, <1>8, <2>2, InFlightAdoptable DEF AttemptFails, InFlightAt
  <2> QED BY <2>1, <2>2
<1>9. CASE ObserveFails
  <2>1. pc \in InFlightAt /\ mode # "correction"
    BY <1>9 DEF ObserveFails, InFlightAt, TurnInv, RequestsSound
  <2> QED BY <1>3, <1>9, <2>1, InFlightAdoptable DEF ObserveFails
<1>10. CASE RequestAnswered
  <2>1. pc = "attempt" /\ mode # "correction" /\ pc' = "closing"
    BY <1>10 DEF RequestAnswered, EndsTurn
  <2>2. Unusable(AcceptedTurn(request), AcceptedQueue(request))
    BY <1>10, <2>1 DEF RequestAnswered, Responds, Paused, Corrected, Concludes, Calls
  <2> QED BY <1>3, <2>1, <2>2, InFlightAdoptable DEF Unusable, InFlightAt
<1>11. CASE CorrectionAnswered
  <2>1. pc' = "closing"
    BY DEF EndsTurn
  <2>2. Unusable(turn, queue)
    BY <1>11, <2>1 DEF CorrectionAnswered, Responds, Paused, Corrected, Concludes, Calls
  <2> QED BY <1>2, <2>2 DEF Unusable
<1>12. CASE StopAllows
  <2>1. Commit(WithAnswer)
    BY <1>12 DEF StopAllows
  <2>2. CASE answer
    BY <1>4, <2>1, <2>2 DEF WithAnswer
  <2>3. CASE ~answer
    BY <1>1, <2>1, <2>3, CommitSettles DEF WithAnswer
  <2> QED BY <2>2, <2>3
<1>13. CASE Interrupted
  <2>1. ASSUME NEW batch \in BatchResults, SettleInterrupted(Append(turn, batch))
        PROVE  Extends(history', history \o sent)
    <3>1. batch \in Messages
      BY BatchMessages
    <3>2. Append(turn, batch) \in Seq(Messages) /\ Continues(Append(turn, batch), sent)
      BY <1>1, <3>1, Appended, ContinuesAppended
    <3> QED BY <2>1, <3>2, MarkedSettles DEF SettleInterrupted
  <2>2. ASSUME SettleInterrupted(turn) PROVE Extends(history', history \o sent)
    BY <1>1, <2>2, MarkedSettles DEF SettleInterrupted
  <2> QED BY <1>13, <2>1, <2>2 DEF Interrupted
<1> QED BY <1>5, <1>6, <1>7, <1>8, <1>9, <1>10, <1>11, <1>12, <1>13, EndingSteps

-----------------------------------------------------------------------------
(* What has been queued.                                                   *)

\* A request drops no input: what it carries is told in its turn, or was refused.
Delivers(r) == \A i \in Carried(r) : i \in refused \/ UserMessage(i) \in Marks(r.turn)

\* The second inductive invariant, on top of the first.
DeliveryInv ==
  /\ pc = "down" => queue = <<>>
  /\ pc \in InRequest /\ request # None => Delivers(request)
  /\ pc = "prepare" => Delivers(building)

\* Where an input is when it waits no longer.
Placed(i) == InTurn(i) \/ InHistory(i) \/ i \in recalled \/ opening = i \/ i \in refused

LEMMA AdmitDelivers ==
  ASSUME TurnInv, DeliveryInv, Admit
  PROVE  DeliveryInv'
<1> DEFINE I == {k \in DOMAIN building.pending : building.pending[k] \notin refused'}
           u == UserMessages(Selected(building.pending, I))
<1>1. /\ pc = "admit" /\ pc' = "prepare" /\ request' = request /\ refused \subseteq refused'
      /\ building' = [building EXCEPT !.turn = @ \o u]
  BY DEF Admit
<1>2. /\ I \in SUBSET DOMAIN building.pending
      /\ \A k \in DOMAIN building.pending : building.pending[k] \notin refused' => k \in I
  OBVIOUS
<1> HIDE DEF I
<1>3. /\ building \in Requests /\ building.turn = turn
      /\ \A j, k \in DOMAIN building.pending : building.pending[j] = building.pending[k] => j = k
      /\ turn \in Seq(Messages)
  BY <1>1 DEF TurnInv, Types, RequestsSound, Adoptable
<1>4. building.pending \in Seq(Inputs)
  BY <1>3 DEF Requests
<1>5. u \in Seq(Messages) /\ \A n \in I : UserMessage(building.pending[n]) \in Marks(u)
  <2>1. u = UserMessages(Selected(building.pending, I))
    OBVIOUS
  <2> HIDE DEF u
  <2> QED BY <1>2, <1>3, <1>4, <2>1, AdmittedMessagesAre
<1> HIDE DEF u
<1> DEFINE t == turn \o u
<1>6. Marks(u) \subseteq Marks(t)
  BY <1>3, <1>5, MarksConcatenated
<1>7. building'.turn = t /\ building'.pending = building.pending
  <2>1. building' = [building EXCEPT !.turn = t]
    BY <1>1, <1>3
  <2> HIDE DEF t
  <2> QED BY <1>3, <2>1 DEF Requests
<1> HIDE DEF t
<1>8. Delivers(building)'
  BY <1>2, <1>5, <1>6, <1>7 DEF Delivers, Carried
<1>9. request # None => Delivers(request)'
  BY <1>1 DEF DeliveryInv, Delivers, InRequest
<1> QED BY <1>1, <1>8, <1>9 DEF DeliveryInv

\* Outside Admit no request is changed while it is being built or sent.
LEMMA StepsDeliver ==
  ASSUME TurnInv, DeliveryInv, [Next]_vars, ~Admit
  PROVE  DeliveryInv'
<1>1. CASE pc' \notin InRequest
  <2>1. pc' = "down" => queue' = <<>>
    <3>1. CASE EngineStep
      BY <3>1 DEF EngineStep, FlushPending, Open, OpenTurn, NeverOpened, NextStep, OutOfSteps, Commit, BeginRequest,
         Prepared, Send, PrepareFails, SettleFailed, Breaks, AttemptFailsOnce, BackoffEnds, AttemptRetried,
         AttemptFails, ImageRejected, Observed, ObserveFails, RequestAnswered, CorrectionAnswered, Responds,
         Paused, Corrected, Unusable, Concludes, Calls, ToolsFinish, HintsFail, HintsFinish, StopRedirects,
         StopAllows, Interrupted, SettleInterrupted, Close
    <3>2. CASE Environment
      BY <3>2 DEF Environment, SubmitIdle, Open, Enqueue, Recall, Cancel, OtherSave, ChildSettles, Crash, Resume,
         Waiting
    <3>3. CASE UNCHANGED vars
      BY <3>3 DEF vars, DeliveryInv
    <3> QED BY <3>1, <3>2, <3>3 DEF Next
  <2> QED BY <1>1, <2>1 DEF DeliveryInv, InRequest
<1>2. CASE pc' \in InRequest
  <2>1. /\ refused' = refused
        /\ \/ pc' = "request" /\ request' = None
           \/ pc = "prepare" /\ pc' = "attempt" /\ request' = building
           \/ pc \in InRequest /\ request' = request /\ (pc' = "prepare" => pc = "prepare" /\ building' = building)
    <3>1. CASE EngineStep
      BY <1>2, <3>1 DEF EngineStep, FlushPending, Open, OpenTurn, NeverOpened, NextStep, OutOfSteps, Commit, BeginRequest,
         Prepared, Send, PrepareFails, SettleFailed, Breaks, AttemptFailsOnce, BackoffEnds, AttemptRetried,
         AttemptFails, ImageRejected, Observed, ObserveFails, RequestAnswered, CorrectionAnswered, Responds,
         Paused, Corrected, Unusable, Concludes, Calls, ToolsFinish, HintsFail, HintsFinish, StopRedirects,
         StopAllows, Interrupted, SettleInterrupted, Close, InRequest, admission, requestVars
    <3>2. CASE Environment
      BY <1>2, <3>2 DEF Environment, SubmitIdle, Open, Enqueue, Recall, Cancel, OtherSave, ChildSettles, Crash, Resume,
         InRequest, admission, requestVars
    <3>3. CASE UNCHANGED vars
      BY <1>2, <3>3 DEF vars, admission, requestVars
    <3> QED BY SMTT(40), <3>1, <3>2, <3>3 DEF Next
  <2> QED BY <1>2, <2>1 DEF DeliveryInv, Delivers, InRequest
<1> QED BY <1>1, <1>2

LEMMA DeliveryInvariant == Spec => []DeliveryInv
<1>1. Init => DeliveryInv
  BY DEF Init, DeliveryInv, InRequest
<1>2. TurnInv /\ DeliveryInv /\ [Next]_vars => DeliveryInv'
  BY AdmitDelivers, StepsDeliver
<1> QED BY <1>1, <1>2, TurnInvariant, PTL DEF Spec

\* An input that leaves the queue with a request is in the turn that is adopted, or was refused.
LEMMA AcceptedInputs ==
  ASSUME TurnInv, DeliveryInv, pc \in InRequest, request # None, Adoptable(request),
         NEW i, Waits(i, queue)
  PROVE  \/ Waits(i, AcceptedQueue(request))
         \/ i \in refused
         \/ UserMessage(i) \in Marks(AcceptedTurn(request))
<1>1. PICK n \in DOMAIN queue : queue[n].input = i
  BY DEF Waits
<1>2. queue \in Seq(QueueItems) /\ request.pending \in Seq(Inputs)
  BY DEF TurnInv, Types, Adoptable, Requests
<1> DEFINE I == {k \in DOMAIN queue : \A j \in DOMAIN request.pending : request.pending[j] # queue[k].input}
<1>3. AcceptedQueue(request) = Selected(queue, I)
  BY DEF AcceptedQueue, Acknowledged
<1>4. I \in SUBSET DOMAIN queue /\ (n \notin I => i \in Carried(request))
  BY <1>1 DEF Carried
<1> HIDE DEF I
<1>5. CASE n \in I
  <2>1. \E k \in DOMAIN Selected(queue, I) : Selected(queue, I)[k] = queue[n]
    BY <1>2, <1>4, <1>5, SelectedQueue
  <2> QED BY <1>1, <1>3, <2>1 DEF Waits
<1>6. CASE n \notin I
  <2>1. i \in Carried(request) /\ Delivers(request)
    BY <1>4, <1>6 DEF DeliveryInv
  <2>2. request.pending # <<>>
    BY <2>1 DEF Carried
  <2>3. AcceptedTurn(request) = request.turn
    BY <2>2 DEF AcceptedTurn
  <2> QED BY <2>1, <2>3 DEF Delivers
<1> QED BY <1>5, <1>6

LEMMA ToldMessages ==
  ASSUME NEW s, NEW i, UserMessage(i) \in Marks(s)
  PROVE  \E k \in DOMAIN s : s[k] = UserMessage(i)
BY DEF Marks

LEMMA FailuresTell ==
  ASSUME TurnInv, NEW t \in Seq(Messages), NEW q, SettleFailed(t, q), NEW i, UserMessage(i) \in Marks(t)
  PROVE  InHistory(i)'
<1> DEFINE a == Answered(t)
           m == Append(a, Message("marker"))
<1>1. history \in Seq(Messages) /\ history' = history \o m
  BY DEF TurnInv, Types, SettleFailed, Commit
<1>2. Message("marker") \in Messages /\ Message("results") \in Messages
  BY PlainMessages DEF Kinds
<1>3. a \in Seq(Messages) /\ Marks(t) \subseteq Marks(a)
  <2>1. a = t \/ a = Append(t, Message("results"))
    BY DEF Answered
  <2>2. Append(t, Message("results")) \in Seq(Messages) /\ Marks(t) \subseteq Marks(Append(t, Message("results")))
    BY <1>2, Appended, MarksAppended
  <2> HIDE DEF a
  <2> QED BY <2>1, <2>2
<1> HIDE DEF a
<1>4. m \in Seq(Messages) /\ Marks(a) \subseteq Marks(m)
  BY <1>2, <1>3, Appended, MarksAppended
<1> HIDE DEF m
<1>5. Marks(history') = Marks(history) \cup Marks(m)
  BY <1>1, <1>4, MarksConcatenated
<1> QED BY <1>3, <1>4, <1>5, ToldMessages DEF InHistory

LEMMA RespondsTells ==
  ASSUME TurnInv, NEW t \in Seq(Messages), NEW q, Responds(t, q), NEW i, UserMessage(i) \in Marks(t)
  PROVE  InTurn(i)' \/ InHistory(i)'
<1>1. ASSUME Unusable(t, q) PROVE InHistory(i)'
  BY <1>1, FailuresTell DEF Unusable
<1>2. \A kind \in Kinds : Marks(t) \subseteq Marks(Append(t, Message(kind)))
  BY PlainMessages, MarksAppended
<1>3. "assistant" \in Kinds /\ "correction" \in Kinds /\ "calls" \in Kinds
  BY DEF Kinds
<1>4. CASE ~Unusable(t, q)
  <2>1. \/ turn' = t
        \/ \E kind \in {"assistant", "correction", "calls"} : turn' = Append(t, Message(kind))
    BY <1>4 DEF Responds, Paused, Corrected, Concludes, Calls, Checkpoint
  <2>2. Marks(t) \subseteq Marks(turn')
    BY <1>2, <1>3, <2>1
  <2> QED BY <2>2, ToldMessages DEF InTurn
<1> QED BY <1>1, <1>4

LEMMA RespondsQueue ==
  ASSUME NEW t, NEW q \in Seq(QueueItems), Responds(t, q), NEW i, Waits(i, q)
  PROVE  Queued(i)'
<1>1. queue' = q \/ queue' = Released(q)
  BY DEF Responds, Paused, Corrected, Unusable, Concludes, Calls, SettleFailed
<1>2. Waits(i, queue')
  BY <1>1, ReleasedStands
<1> QED BY <1>2 DEF Waits, Queued

LEMMA FailuresQueue ==
  ASSUME NEW t, NEW q \in Seq(QueueItems), SettleFailed(t, q), NEW i, Waits(i, q)
  PROVE  Queued(i)'
<1>1. queue' = Released(q)
  BY DEF SettleFailed
<1>2. Waits(i, queue')
  BY <1>1, ReleasedStands
<1> QED BY <1>2 DEF Waits, Queued

\* Of the queue that FlushPending opens, only the first input leaves it.
LEMMA FlushedKeeps ==
  ASSUME NEW q \in Seq(QueueItems), NEW n \in 1..Len(q), NEW k \in 2..Len(q)
  PROVE  Waits(q[k].input, SubSeq(q, n + 1, Len(q)) \o SubSeq(q, 2, n))
<1> DEFINE a == SubSeq(q, n + 1, Len(q))
           b == SubSeq(q, 2, n)
           r == a \o b
<1>1. Len(q) \in Nat /\ n \in Nat /\ k \in Nat
  OBVIOUS
<1>2. /\ a \in Seq(QueueItems) /\ Len(a) = Len(q) - n
      /\ \A j \in 1..(Len(q) - n) : a[j] = q[n + j]
  OBVIOUS
<1>3. /\ b \in Seq(QueueItems) /\ Len(b) = n - 1
      /\ \A j \in 1..(n - 1) : b[j] = q[j + 1]
  OBVIOUS
<1> HIDE DEF a, b
<1>4. /\ r \in Seq(QueueItems) /\ DOMAIN r = 1..(Len(a) + Len(b))
      /\ \A j \in 1..Len(a) : r[j] = a[j]
      /\ \A j \in 1..Len(b) : r[Len(a) + j] = b[j]
  <2>1. a \in Seq(QueueItems) /\ b \in Seq(QueueItems)
    BY <1>2, <1>3
  <2> QED BY <2>1, Concatenated
<1> HIDE DEF r
<1>5. CASE k <= n
  <2> DEFINE j == k - 1
  <2>1. j \in 1..(n - 1) /\ k = j + 1 /\ j \in 1..Len(b) /\ Len(a) + j \in 1..(Len(a) + Len(b))
    BY <1>1, <1>2, <1>3, <1>5
  <2> HIDE DEF j
  <2>2. Len(a) + j \in DOMAIN r /\ r[Len(a) + j] = q[k]
    BY <1>3, <1>4, <2>1
  <2> QED BY <2>2 DEF Waits, r, a, b
<1>6. CASE ~(k <= n)
  <2> DEFINE j == k - n
  <2>1. j \in 1..(Len(q) - n) /\ k = n + j /\ j \in 1..Len(a) /\ j \in 1..(Len(a) + Len(b))
    BY <1>1, <1>2, <1>3, <1>6
  <2> HIDE DEF j
  <2>2. j \in DOMAIN r /\ r[j] = q[k]
    BY <1>2, <1>4, <2>1
  <2> QED BY <2>2 DEF Waits, r, a, b
<1> QED BY <1>5, <1>6

LEMMA EngineDelivers ==
  ASSUME TurnInv, DeliveryInv, EngineStep, NEW i, Queued(i), ~Queued(i)'
  PROVE  Placed(i)'
<1>1. /\ Waits(i, queue) /\ queue \in Seq(QueueItems) /\ turn \in Seq(Messages)
      /\ queue' # queue
  BY DEF Queued, Waits, TurnInv, Types
<1>2. ~Waits(i, queue')
  BY DEF Queued, Waits
<1>3. ASSUME FlushPending PROVE Placed(i)'
  <2>1. PICK n \in 1..Len(queue) :
          /\ queue' = SubSeq(queue, n + 1, Len(queue)) \o SubSeq(queue, 2, n)
          /\ opening' = queue[1].input
    BY <1>3 DEF FlushPending, Open
  <2>2. PICK k \in 1..Len(queue) : queue[k].input = i
    BY <1>1 DEF Waits
  <2>3. k \notin 2..Len(queue)
    BY <1>1, <1>2, <2>1, <2>2, FlushedKeeps
  <2>4. k = 1
    BY <1>1, <2>2, <2>3
  <2> QED BY <2>1, <2>2, <2>4 DEF Placed
<1>4. ASSUME request # None, pc \in InRequest, Adoptable(request), refused' = refused,
             \/ SettleFailed(AcceptedTurn(request), AcceptedQueue(request))
             \/ Responds(AcceptedTurn(request), AcceptedQueue(request))
      PROVE  Placed(i)'
  <2> DEFINE t == AcceptedTurn(request)
             q == AcceptedQueue(request)
  <2>1. t \in Seq(Messages)
    BY <1>4, AcceptedSettles DEF Settled
  <2>2. q \in Seq(QueueItems)
    <3>1. request.pending \in Seq(Inputs)
      BY <1>4 DEF Adoptable, Requests
    <3> QED BY <1>1, <1>4, <3>1, AcknowledgedIs DEF AcceptedQueue
  <2>3. Waits(i, q) \/ i \in refused \/ UserMessage(i) \in Marks(t)
    BY <1>1, <1>4, AcceptedInputs
  <2>4. SettleFailed(t, q) \/ Responds(t, q)
    BY <1>4
  <2> HIDE DEF t, q
  <2>5. ~Waits(i, q)
    BY <2>2, <2>4, FailuresQueue, RespondsQueue
  <2>6. UserMessage(i) \in Marks(t) => InTurn(i)' \/ InHistory(i)'
    BY <2>1, <2>4, FailuresTell, RespondsTells
  <2> QED BY <1>4, <2>3, <2>5, <2>6 DEF Placed
<1>5. ASSUME SettleFailed(turn, queue) PROVE FALSE
  BY <1>1, <1>5, FailuresQueue
<1>6. ASSUME PrepareFails PROVE Placed(i)'
  <2>1. /\ pc = "prepare" /\ SettleFailed(AcceptedTurn(request), AcceptedQueue(request)) /\ refused' = refused
    BY <1>6 DEF PrepareFails, admission
  <2>2. CASE request = None
    BY <1>5, <2>1, <2>2 DEF AcceptedTurn, AcceptedQueue
  <2>3. CASE request # None
    BY <1>4, <2>1, <2>3 DEF TurnInv, RequestsSound, InRequest
  <2> QED BY <2>2, <2>3
<1>7. ASSUME AttemptFails PROVE Placed(i)'
  <2>1. CASE mode = "correction"
    BY <1>5, <1>7, <2>1 DEF AttemptFails
  <2>2. CASE mode # "correction"
    BY <1>4, <1>7, <2>2, InFlightAdoptable DEF AttemptFails, InFlightAt, admission
  <2> QED BY <2>1, <2>2
<1>8. ASSUME ObserveFails PROVE Placed(i)'
  <2>1. pc \in InFlightAt /\ mode # "correction"
    BY <1>8 DEF ObserveFails, InFlightAt, TurnInv, RequestsSound
  <2> QED BY <1>4, <1>8, <2>1, InFlightAdoptable DEF ObserveFails, admission
<1>9. ASSUME RequestAnswered PROVE Placed(i)'
  <2>1. pc \in InFlightAt /\ mode # "correction" /\ refused' = refused
    BY <1>9 DEF RequestAnswered, InFlightAt, admission
  <2> QED BY <1>4, <1>9, <2>1, InFlightAdoptable DEF RequestAnswered
<1>10. ASSUME CorrectionAnswered PROVE FALSE
  BY <1>1, <1>10, RespondsQueue DEF CorrectionAnswered
<1>11. ASSUME Interrupted PROVE FALSE
  <2>1. queue' = Released(queue)
    BY <1>11 DEF Interrupted
  <2> QED BY <1>1, <1>2, <2>1, ReleasedStands
<1>12. ASSUME BeginRequest PROVE FALSE
  <2>1. queue' = Claimed(queue)
    BY <1>12 DEF BeginRequest
  <2>2. PICK k \in DOMAIN queue : queue[k].input = i
    BY <1>1 DEF Waits
  <2>3. k \in DOMAIN queue' /\ queue'[k].input = i
    BY <1>1, <2>1, <2>2, ClaimedIs
  <2> QED BY <1>2, <2>3 DEF Waits
<1>13. ASSUME Breaks PROVE FALSE
  BY <1>5, <1>13 DEF Breaks
<1>14. \/ FlushPending \/ BeginRequest \/ PrepareFails \/ Breaks \/ AttemptFails \/ ObserveFails
       \/ RequestAnswered \/ CorrectionAnswered \/ Interrupted
  BY <1>1 DEF EngineStep, OpenTurn, NeverOpened, NextStep, OutOfSteps, Admit, Prepared, AttemptFailsOnce, BackoffEnds,
     AttemptRetried, ImageRejected, Observed, ToolsFinish, HintsFail, HintsFinish, StopRedirects, StopAllows, Close
<1> QED BY <1>3, <1>6, <1>7, <1>8, <1>9, <1>10, <1>11, <1>12, <1>13, <1>14

LEMMA EnvironmentDelivers ==
  ASSUME TurnInv, DeliveryInv, Environment, NEW i, Queued(i), ~Queued(i)', pc' # "down"
  PROVE  Placed(i)'
<1>1. /\ Waits(i, queue) /\ queue \in Seq(QueueItems) /\ queue' # queue
  BY DEF Queued, Waits, TurnInv, Types
<1>2. PICK k \in DOMAIN queue : queue[k].input = i
  BY <1>1 DEF Waits
<1>3. ~Waits(i, queue')
  BY DEF Queued, Waits
<1>4. Len(queue) \in Nat /\ DOMAIN queue = 1..Len(queue) /\ pc # "down"
  BY <1>1, <1>2 DEF DeliveryInv
<1>5. ASSUME NEW j \in Inputs, Enqueue(j) PROVE FALSE
  <2>1. PICK held \in BOOLEAN : queue' = Append(queue, [input |-> j, held |-> held, inflight |-> FALSE])
    BY <1>5 DEF Enqueue
  <2> DEFINE item == [input |-> j, held |-> held, inflight |-> FALSE]
  <2>2. item \in QueueItems
    BY DEF QueueItems
  <2>3. queue' = Append(queue, item)
    BY <2>1
  <2> HIDE DEF item
  <2>4. k \in DOMAIN queue' /\ queue'[k] = queue[k]
    <3>1. DOMAIN queue' = 1..(Len(queue) + 1) /\ \A n \in 1..Len(queue) : queue'[n] = queue[n]
      BY <1>1, <2>2, <2>3, Appended
    <3> QED BY <1>2, <1>4, <3>1
  <2> QED BY <1>2, <1>3, <2>4 DEF Waits
<1>6. ASSUME Recall PROVE Placed(i)'
  <2> DEFINE rest == SubSeq(queue, 1, Len(queue) - 1)
  <2>1. queue' \in {rest, Released(rest)} /\ queue[Len(queue)].input \in recalled'
    BY <1>6 DEF Recall
  <2>2. rest \in Seq(QueueItems) /\ \A n \in 1..(Len(queue) - 1) : n \in DOMAIN rest /\ rest[n] = queue[n]
    BY <1>1, <1>4
  <2> HIDE DEF rest
  <2>3. ~Waits(i, rest)
    <3>1. Waits(i, Released(rest)) <=> Waits(i, rest)
      BY <2>2, ReleasedStands
    <3>2. ~Waits(i, rest) \/ ~Waits(i, Released(rest))
      BY <1>3, <2>1
    <3> QED BY <3>1, <3>2
  <2>4. k \notin 1..(Len(queue) - 1)
    BY <1>2, <2>2, <2>3 DEF Waits
  <2>5. k = Len(queue)
    BY <1>4, <2>4
  <2> QED BY <1>2, <2>1, <2>5 DEF Placed
<1>7. Recall \/ \E j \in Inputs : Enqueue(j)
  BY <1>1, <1>4 DEF Environment, SubmitIdle, Cancel, OtherSave, ChildSettles, Crash, Resume
<1> QED BY <1>5, <1>6, <1>7

LEMMA QueueDelivers ==
  ASSUME TurnInv, DeliveryInv, [Next]_vars, NEW i, Queued(i), ~Queued(i)', pc' # "down"
  PROVE  \/ InTurn(i)' \/ InHistory(i)'
         \/ i \in recalled' \/ opening' = i \/ i \in refused'
<1>1. ASSUME UNCHANGED vars PROVE FALSE
  BY <1>1 DEF vars, Queued
<1>2. Placed(i)'
  BY <1>1, EngineDelivers, EnvironmentDelivers DEF Next
<1> QED BY <1>2 DEF Placed

\* Nothing that was queued and nothing that a provider has accepted gets lost.  An input leaves
\* the queue (claim_user_inputs, acknowledge_user_inputs, recall_pending_input) only into a turn
\* or history, back to the editor, or refused; within a turn the accepted list only grows
\* (request_step adopts what was prepared), and a turn that ends after the agent has spoken keeps
\* all of it (finish_turn, settle_interrupted_turn, the failure of _run_turn).
THEOREM NothingDropped == Spec => NothingIsDropped
<1>1. TurnInv /\ [Next]_vars => [sent' # sent /\ sent' # <<>> => Extends(sent', sent)]_vars
  BY SentGrows, SentChanges
<1>2. TurnInv /\ [Next]_vars => [EndsTurn /\ spoke => Extends(history', history \o sent)]_vars
  BY SpokenTurnsSettle
<1>3. TurnInv /\ DeliveryInv /\ [Next]_vars =>
        [\A i \in Inputs : Queued(i) /\ ~Queued(i)' /\ pc' # "down" =>
           \/ InTurn(i)' \/ InHistory(i)'
           \/ i \in recalled' \/ opening' = i \/ i \in refused']_vars
  BY QueueDelivers
<1> QED BY <1>1, <1>2, <1>3, TurnInvariant, DeliveryInvariant, PTL
        DEF Spec, NothingIsDropped, QueuedInputsAreDelivered, ProviderSeesOnePrefix, SentIsSettled
=============================================================================
