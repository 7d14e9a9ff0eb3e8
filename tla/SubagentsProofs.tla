-------------------------- MODULE SubagentsProofs --------------------------
(***************************************************************************)
(* Proofs about Subagents: that the family is accounted for at every await *)
(* (GroupIsAccounted), and that a stop holds and a live child keeps its    *)
(* parent (WordIsKept), for any number of children, any limit and any      *)
(* bound on inputs and crashes.                                            *)
(*                                                                         *)
(* The inductive invariant GroupInv is made of facts about one child each  *)
(* (its inbox, its consumer, its stop) and of facts about the operation    *)
(* that holds the admission lock.                                          *)
(***************************************************************************)
EXTENDS Subagents, FiniteSetTheorems, TLAPS

\* The input a frontend holds until the group takes it.
Held(c) == IF c \in sending /\ ~(lock # None /\ lock.op = "send" /\ lock.by = None /\ c \in lock.of) THEN 1 ELSE 0

\* Every input in an inbox, in a log or with a frontend was given to somebody.
InputsAreCounted ==
  \A c \in Children : inbox[c] + Held(c) <= inputs /\ (log[c] # None => log[c].inbox <= inputs)

\* Whoever was once attached has a parent, who was attached before.
Lineage ==
  /\ \A c \in attached : parent[c] # None
  /\ \A c \in sending : parent[c] # None
  /\ \A c \in Children : parent[c] \in Children => parent[parent[c]] # None
  /\ \A c \in Children : rootLog[c] # "absent" => parent[c] # None
  /\ \A c \in Children : manifest[c] # "absent" => parent[c] # None

\* A log exists before anything names it.
LogsComeFirst ==
  /\ \A c \in Children : manifest[c] # "absent" => log[c] # None
  /\ lock # None => \A c \in Children : lock.previous[c] # "absent" => log[c] # None /\ parent[c] # None

\* Where a consumer stands tells how its last turn went.
TurnsAreJudged ==
  \A c \in Children :
    /\ at[c] \in {"settling", "boundary"} => status[c] \in Ended \cup {"completed"}
    /\ at[c] = "paused" => status[c] \in Ended

\* A stop is on its way, or it has been taken in.
StopsAreKept ==
  \A c \in stopped :
    /\ ~restart[c]
    /\ ~cancel[c] => at[c] \in {"none", "settling", "boundary", "paused", "dead"}
    /\ ~cancel[c] /\ at[c] \in {"settling", "boundary"} => status[c] \in Ended

\* Children with a slot once the operation in progress has ended.
Slots == IF lock.held THEN (Consumers \cup lock.of) \ byUser ELSE (Consumers \ byUser) \cup lock.of

Starting == lock # None /\ lock.op \in {"spawn", "send"} /\ lock.start /\ lock.by # None

SlotsAreCounted ==
  /\ Cardinality(Consumers \ byUser) <= limit
  /\ Starting => Cardinality(Slots) <= limit

\* What the operation that holds the lock may rely on.
SpawnHolds ==
  lock # None /\ lock.op = "spawn" =>
    /\ lock.by # None /\ lock.start /\ ~lock.held
    /\ \E c \in attached : lock.of = {c}
    /\ lock.stage = "begun" =>
         /\ inputs > 0
         /\ lock.of \cap (sending \cup Consumers) = {}
         /\ \A d \in attached : parent[d] \notin lock.of

SendHolds ==
  lock # None /\ lock.op = "send" =>
    /\ lock.stage = "begun"
    /\ \E c \in attached : lock.of = {c}

ArchiveHolds ==
  lock # None /\ lock.op = "archive" =>
    /\ lock.by = Root
    /\ lock.stage = "begun" => \A d \in attached : parent[d] \in lock.of => d \in lock.of
    /\ lock.stage # "begun" =>
         /\ lock.of \cap Consumers = {}
         /\ \A d \in attached : parent[d] \in lock.of => manifest[d] # "live"

CloseHolds ==
  lock # None /\ lock.op = "close" => closed /\ attached \subseteq lock.of

\* The caller of an operation waits for it, the consumers are attached.
CallersWait ==
  /\ lock # None /\ lock.by \in Children => at[lock.by] = "calling"
  /\ Consumers \subseteq attached
  /\ closed => (lock # None /\ lock.op = "close") \/ (lock = None /\ Consumers = {})

GroupInv ==
  /\ TypeOK
  /\ InputsAreCounted
  /\ Lineage
  /\ LogsComeFirst
  /\ ManifestNamesLogs
  /\ TurnsAreJudged
  /\ StopsAreKept
  /\ SlotsAreCounted
  /\ SpawnHolds
  /\ SendHolds
  /\ ArchiveHolds
  /\ CloseHolds
  /\ CallersWait
  /\ NothingIsStranded

-----------------------------------------------------------------------------
(* The consumer of one inbox.                                              *)

LEMMA Bounds ==
  /\ MaxInputs \in Nat /\ MaxCrashes \in Nat /\ Limits \subseteq Nat
  /\ Root \notin Children /\ None \notin Children /\ Root # None
BY GroupConstants

\* What every step of c's consumer leaves to the rest of the family.
Moves(c) ==
  /\ UNCHANGED consumerRest
  /\ Consumers' \subseteq Consumers
  /\ \A d \in Children \ {c} :
       /\ at'[d] = at[d] /\ cancel'[d] = cancel[d] /\ restart'[d] = restart[d]
       /\ status'[d] = status[d] /\ inbox'[d] = inbox[d] /\ log'[d] = log[d]
  /\ lock # None /\ lock.by = c => at'[c] = at[c]
  /\ inbox'[c] \in 0..inbox[c]
  /\ log'[c] # log[c] => log'[c] # None /\ log'[c].inbox <= inbox[c]

LEMMA TakesNextTypes ==
  ASSUME TypeOK, NEW c \in Children, TakesNext(c)
  PROVE  /\ inbox' \in [Children -> 0..MaxInputs]
         /\ restart' \in [Children -> BOOLEAN]
         /\ status' \in [Children -> Statuses]
         /\ at' \in [Children -> Locations]
<1> USE Bounds DEF TypeOK, Statuses, Locations
<1>1. CASE inbox[c] > 0
  <2>1. inbox[c] - 1 \in 0..MaxInputs
    BY <1>1
  <2>2. inbox' = [inbox EXCEPT ![c] = inbox[c] - 1]
    BY <1>1 DEF TakesNext
  <2>3. inbox' \in [Children -> 0..MaxInputs]
    BY <2>1, <2>2
  <2> QED
    BY ZenonT(60), <1>1, <2>3 DEF TakesNext, Goes
<1>2. CASE ~(inbox[c] > 0)
  BY <1>2 DEF TakesNext, Goes
<1> QED
  BY <1>1, <1>2

LEMMA ConsumerTypes ==
  ASSUME TypeOK, NEW c \in Children, Consumer(c)
  PROVE  TypeOK'
<1> USE Bounds DEF TypeOK, Locations, Statuses, Ended, consumerRest, entryVars, taskVars, gateVars, startVars, countVars
<1>1. CASE Runs(c)
  BY <1>1, TakesNextTypes DEF Runs
<1>2. CASE Opens(c)
  BY <1>2 DEF Opens, Goes, Saved, Logs
<1>3. CASE TakesFollowUps(c)
  BY <1>3 DEF TakesFollowUps, Saved, Logs
<1>4. CASE Calls(c) \/ CallReturns(c)
  BY <1>4 DEF Calls, CallReturns, Goes
<1>5. CASE TurnEnds(c)
  BY <1>5 DEF TurnEnds, Goes
<1>6. CASE TurnInterrupted(c)
  BY <1>6 DEF TurnInterrupted, Goes
<1>7. CASE Settles(c)
  BY <1>7 DEF Settles, Goes, Logs
<1>8. CASE SettleFails(c)
  BY <1>8 DEF SettleFails, Goes
<1>9. CASE PassesBoundary(c)
  BY <1>9, TakesNextTypes DEF PassesBoundary, Goes
<1>10. CASE BoundaryCancelled(c)
  BY <1>10 DEF BoundaryCancelled, Goes
<1>11. CASE NeverRuns(c)
  BY <1>11 DEF NeverRuns, Goes
<1>12. CASE Finishes(c)
  BY ZenonT(60), <1>12 DEF Finishes, Created, Goes, Logs
<1>13. CASE FinishFails(c)
  BY <1>13 DEF FinishFails, Goes
<1>14. CASE FinishCancelled(c)
  BY <1>14 DEF FinishCancelled, Goes, Saved, Logs
<1>15. CASE Buried(c)
  BY <1>15 DEF Buried, Goes
<1> QED
  BY <1>1, <1>2, <1>3, <1>4, <1>5, <1>6, <1>7, <1>8, <1>9, <1>10, <1>11, <1>12, <1>13, <1>14, <1>15 DEF Consumer

LEMMA ConsumerMoves ==
  ASSUME TypeOK, CallersWait, NEW c \in Children, Consumer(c)
  PROVE  Moves(c)
<1> USE Bounds, NoneIsNothing DEF TypeOK, Moves, CallersWait, Consumers, Active, consumerRest, taskVars
<1>1. CASE Runs(c)
  BY <1>1 DEF Runs, TakesNext, Goes
<1>2. CASE Opens(c)
  BY <1>2 DEF Opens, Goes, Saved, Logs
<1>3. CASE TakesFollowUps(c)
  BY <1>3 DEF TakesFollowUps, Saved, Logs
<1>4. CASE Calls(c) \/ CallReturns(c)
  BY <1>4 DEF Calls, CallReturns, Goes
<1>5. CASE TurnEnds(c)
  BY <1>5 DEF TurnEnds, Goes
<1>6. CASE TurnInterrupted(c)
  BY <1>6 DEF TurnInterrupted, Goes
<1>7. CASE Settles(c)
  BY <1>7 DEF Settles, Goes, Logs
<1>8. CASE SettleFails(c)
  BY <1>8 DEF SettleFails, Goes
<1>9. CASE PassesBoundary(c)
  BY <1>9 DEF PassesBoundary, TakesNext, Goes
<1>10. CASE BoundaryCancelled(c)
  BY <1>10 DEF BoundaryCancelled, Goes
<1>11. CASE NeverRuns(c)
  BY <1>11 DEF NeverRuns, Goes
<1>12. CASE Finishes(c)
  BY <1>12 DEF Finishes, Created, Goes, Logs
<1>13. CASE FinishFails(c)
  BY <1>13 DEF FinishFails, Goes
<1>14. CASE FinishCancelled(c)
  BY <1>14 DEF FinishCancelled, Goes, Saved, Logs
<1>15. CASE Buried(c)
  BY <1>15 DEF Buried, Goes
<1> QED
  BY <1>1, <1>2, <1>3, <1>4, <1>5, <1>6, <1>7, <1>8, <1>9, <1>10, <1>11, <1>12, <1>13, <1>14, <1>15 DEF Consumer

LEMMA ConsumerJudged ==
  ASSUME NEW c \in Children, TypeOK, TurnsAreJudged, Consumer(c)
  PROVE  TurnsAreJudged'
<1> USE DEF TypeOK, TurnsAreJudged, Ended, consumerRest, taskVars, entryVars, startVars, gateVars
<1>1. CASE Runs(c)
  BY <1>1 DEF Runs, TakesNext, Goes
<1>2. CASE Opens(c)
  BY <1>2 DEF Opens, Goes, Saved
<1>3. CASE TakesFollowUps(c)
  BY <1>3 DEF TakesFollowUps, Saved
<1>4. CASE Calls(c) \/ CallReturns(c)
  BY <1>4 DEF Calls, CallReturns, Goes
<1>5. CASE TurnEnds(c)
  BY <1>5 DEF TurnEnds, Goes
<1>6. CASE TurnInterrupted(c)
  BY <1>6 DEF TurnInterrupted, Goes
<1>7. CASE Settles(c)
  BY <1>7 DEF Settles, Goes
<1>8. CASE SettleFails(c)
  BY <1>8 DEF SettleFails, Goes
<1>9. CASE PassesBoundary(c)
  BY <1>9 DEF PassesBoundary, TakesNext, Goes
<1>10. CASE BoundaryCancelled(c)
  BY <1>10 DEF BoundaryCancelled, Goes
<1>11. CASE NeverRuns(c)
  BY <1>11 DEF NeverRuns, Goes
<1>12. CASE Finishes(c)
  BY <1>12 DEF Finishes, Created, Goes
<1>13. CASE FinishFails(c)
  BY <1>13 DEF FinishFails, Goes
<1>14. CASE FinishCancelled(c)
  BY <1>14 DEF FinishCancelled, Goes, Saved
<1>15. CASE Buried(c)
  BY <1>15 DEF Buried, Goes
<1> QED
  BY <1>1, <1>2, <1>3, <1>4, <1>5, <1>6, <1>7, <1>8, <1>9, <1>10, <1>11, <1>12, <1>13, <1>14, <1>15 DEF Consumer

LEMMA ConsumerStops ==
  ASSUME NEW c \in Children, TypeOK, StopsAreKept, TurnsAreJudged, Consumer(c)
  PROVE  StopsAreKept'
<1> USE DEF TypeOK, StopsAreKept, TurnsAreJudged, Ended, consumerRest, taskVars, entryVars, startVars, gateVars
<1>1. CASE Runs(c)
  BY <1>1 DEF Runs, TakesNext, Goes
<1>2. CASE Opens(c)
  BY <1>2 DEF Opens, Goes, Saved
<1>3. CASE TakesFollowUps(c)
  BY <1>3 DEF TakesFollowUps, Saved
<1>4. CASE Calls(c) \/ CallReturns(c)
  BY <1>4 DEF Calls, CallReturns, Goes
<1>5. CASE TurnEnds(c)
  BY <1>5 DEF TurnEnds, Goes
<1>6. CASE TurnInterrupted(c)
  BY <1>6 DEF TurnInterrupted, Goes
<1>7. CASE Settles(c)
  BY <1>7 DEF Settles, Goes
<1>8. CASE SettleFails(c)
  BY <1>8 DEF SettleFails, Goes
<1>9. CASE PassesBoundary(c)
  BY <1>9 DEF PassesBoundary, TakesNext, Goes
<1>10. CASE BoundaryCancelled(c)
  BY <1>10 DEF BoundaryCancelled, Goes
<1>11. CASE NeverRuns(c)
  BY <1>11 DEF NeverRuns, Goes
<1>12. CASE Finishes(c)
  BY <1>12 DEF Finishes, Created, Goes
<1>13. CASE FinishFails(c)
  BY <1>13 DEF FinishFails, Goes
<1>14. CASE FinishCancelled(c)
  BY <1>14 DEF FinishCancelled, Goes, Saved
<1>15. CASE Buried(c)
  BY <1>15 DEF Buried, Goes
<1> QED
  BY <1>1, <1>2, <1>3, <1>4, <1>5, <1>6, <1>7, <1>8, <1>9, <1>10, <1>11, <1>12, <1>13, <1>14, <1>15 DEF Consumer

LEMMA ConsumerStrands ==
  ASSUME NEW c \in Children, TypeOK, NothingIsStranded, TurnsAreJudged, Consumer(c)
  PROVE  NothingIsStranded'
<1> USE DEF TypeOK, NothingIsStranded, TurnsAreJudged, Ended, consumerRest, taskVars, entryVars, startVars, gateVars
<1>1. CASE Runs(c)
  BY <1>1 DEF Runs, TakesNext, Goes
<1>2. CASE Opens(c)
  BY <1>2 DEF Opens, Goes, Saved
<1>3. CASE TakesFollowUps(c)
  BY <1>3 DEF TakesFollowUps, Saved
<1>4. CASE Calls(c) \/ CallReturns(c)
  BY <1>4 DEF Calls, CallReturns, Goes
<1>5. CASE TurnEnds(c)
  BY <1>5 DEF TurnEnds, Goes
<1>6. CASE TurnInterrupted(c)
  BY <1>6 DEF TurnInterrupted, Goes
<1>7. CASE Settles(c)
  BY <1>7 DEF Settles, Goes
<1>8. CASE SettleFails(c)
  BY <1>8 DEF SettleFails, Goes
<1>9. CASE PassesBoundary(c)
  BY <1>9 DEF PassesBoundary, TakesNext, Goes
<1>10. CASE BoundaryCancelled(c)
  BY <1>10 DEF BoundaryCancelled, Goes
<1>11. CASE NeverRuns(c)
  BY <1>11 DEF NeverRuns, Goes
<1>12. CASE Finishes(c)
  BY <1>12 DEF Finishes, Created, Goes
<1>13. CASE FinishFails(c)
  BY <1>13 DEF FinishFails, Goes
<1>14. CASE FinishCancelled(c)
  BY <1>14 DEF FinishCancelled, Goes, Saved
<1>15. CASE Buried(c)
  BY <1>15 DEF Buried, Goes
<1> QED
  BY <1>1, <1>2, <1>3, <1>4, <1>5, <1>6, <1>7, <1>8, <1>9, <1>10, <1>11, <1>12, <1>13, <1>14, <1>15 DEF Consumer

LEMMA ConsumerKeepsInputs ==
  ASSUME TypeOK, TypeOK', InputsAreCounted, NEW c \in Children, Moves(c)
  PROVE  InputsAreCounted'
<1> SUFFICES ASSUME NEW d \in Children
             PROVE  inbox'[d] + Held(d)' <= inputs' /\ (log'[d] # None => log'[d].inbox <= inputs')
  BY DEF InputsAreCounted
<1>1. Held(d)' = Held(d) /\ Held(d) \in {0, 1} /\ inputs' = inputs
  BY DEF Held, Moves, consumerRest, countVars
<1>2. inbox[d] \in Nat /\ inputs \in Nat /\ inbox[d] + Held(d) <= inputs
  BY Bounds DEF TypeOK, InputsAreCounted
<1>3. inbox[d] <= inputs
  BY <1>1, <1>2
<1>4. CASE d # c
  BY <1>1, <1>2, <1>4 DEF Moves, InputsAreCounted
<1>5. CASE d = c
  <2>1. inbox'[c] \in 0..inbox[c]
    BY DEF Moves
  <2>2. inbox'[d] + Held(d)' <= inputs'
    BY <1>1, <1>2, <1>5, <2>1
  <2>3. CASE log'[d] = log[d]
    BY <1>1, <2>2, <2>3 DEF InputsAreCounted
  <2>4. CASE log'[d] # log[d]
    <3>1. log'[d].inbox <= inbox[d]
      BY <1>5, <2>4 DEF Moves
    <3>2. log'[d] # None => log'[d].inbox \in Nat
      BY Bounds DEF TypeOK, Logs
    <3> QED
      BY <1>1, <1>2, <1>3, <2>2, <3>1, <3>2
  <2> QED
    BY <2>3, <2>4
<1> QED
  BY <1>4, <1>5

LEMMA ConsumerKeepsLineage ==
  ASSUME Lineage, LogsComeFirst, ManifestNamesLogs, NEW c \in Children, Moves(c)
  PROVE  Lineage' /\ LogsComeFirst' /\ ManifestNamesLogs'
BY DEF Lineage, LogsComeFirst, ManifestNamesLogs, Moves, consumerRest, entryVars

LEMMA ConsumerKeepsLock ==
  ASSUME SpawnHolds, SendHolds, ArchiveHolds, CloseHolds, CallersWait, NEW c \in Children, Moves(c)
  PROVE  SpawnHolds' /\ SendHolds' /\ ArchiveHolds' /\ CloseHolds' /\ CallersWait'
<1> USE DEF Moves, consumerRest, entryVars, gateVars, countVars
<1>1. SpawnHolds'
  BY DEF SpawnHolds
<1>2. SendHolds' /\ CloseHolds'
  BY DEF SendHolds, CloseHolds
<1>3. ArchiveHolds'
  BY DEF ArchiveHolds
<1>4. CallersWait'
  BY DEF CallersWait
<1> QED
  BY <1>1, <1>2, <1>3, <1>4

LEMMA FewerChildren ==
  ASSUME NEW T \in SUBSET Children, NEW S \in SUBSET T
  PROVE  /\ Cardinality(S) \in Nat /\ Cardinality(T) \in Nat
         /\ Cardinality(S) <= Cardinality(T)
<1>1. IsFiniteSet(T)
  BY GroupConstants, FS_Subset
<1>2. IsFiniteSet(S)
  BY <1>1, FS_Subset
<1> QED
  BY <1>1, <1>2, FS_Subset, FS_CardinalityType

LEMMA OneMoreChild ==
  ASSUME NEW T \in SUBSET Children, NEW c \in Children
  PROVE  /\ Cardinality(T) \in Nat /\ Cardinality(T \cup {c}) \in Nat
         /\ Cardinality(T \cup {c}) <= Cardinality(T) + 1
<1>1. IsFiniteSet(T)
  BY GroupConstants, FS_Subset
<1>2. Cardinality(T) \in Nat
  BY <1>1, FS_CardinalityType
<1>3. Cardinality(T \cup {c}) = IF c \in T THEN Cardinality(T) ELSE Cardinality(T) + 1
  BY <1>1, FS_AddElement
<1> QED
  BY <1>2, <1>3

\* Nothing but a start takes a slot.
LEMMA SlotsOnlyShrink ==
  ASSUME SlotsAreCounted, TypeOK, Consumers' \subseteq Consumers,
         byUser' = byUser, limit' = limit, lock' = lock \/ lock' = None
  PROVE  SlotsAreCounted'
<1>1. limit \in Nat
  BY Bounds DEF TypeOK
<1>2. Consumers \subseteq Children
  BY DEF Consumers
<1>3. Cardinality(Consumers' \ byUser') <= limit'
  <2>1. /\ Cardinality(Consumers' \ byUser') \in Nat /\ Cardinality(Consumers \ byUser) \in Nat
        /\ Cardinality(Consumers' \ byUser') <= Cardinality(Consumers \ byUser)
    BY <1>2, FewerChildren
  <2> QED
    BY <1>1, <2>1 DEF SlotsAreCounted
<1>4. ASSUME Starting'
      PROVE  Cardinality(Slots') <= limit'
  <2>1. lock' = lock /\ Starting
    BY <1>4 DEF Starting
  <2>2. lock.of \subseteq Children
    BY <2>1 DEF TypeOK, Operations, Starting
  <2>3. Slots' \subseteq Slots /\ Slots \subseteq Children
    BY <1>2, <2>1, <2>2 DEF Slots
  <2>4. /\ Cardinality(Slots') \in Nat /\ Cardinality(Slots) \in Nat
        /\ Cardinality(Slots') <= Cardinality(Slots)
    BY <2>3, FewerChildren
  <2> QED
    BY <1>1, <2>1, <2>4 DEF SlotsAreCounted
<1> QED
  BY <1>3, <1>4 DEF SlotsAreCounted

LEMMA ConsumerKeeps ==
  ASSUME GroupInv, NEW c \in Children, Consumer(c)
  PROVE  GroupInv'
<1> USE DEF GroupInv
<1>1. TypeOK'
  BY ConsumerTypes
<1>2. Moves(c)
  BY ConsumerMoves
<1>3. InputsAreCounted'
  BY <1>1, <1>2, ConsumerKeepsInputs
<1>4. Lineage' /\ LogsComeFirst' /\ ManifestNamesLogs'
  BY <1>2, ConsumerKeepsLineage
<1>5. TurnsAreJudged' /\ StopsAreKept' /\ NothingIsStranded'
  BY ConsumerJudged, ConsumerStops, ConsumerStrands
<1>6. SlotsAreCounted'
  BY <1>2, SlotsOnlyShrink DEF Moves, consumerRest, startVars, countVars
<1>7. SpawnHolds' /\ SendHolds' /\ ArchiveHolds' /\ CloseHolds' /\ CallersWait'
  BY <1>2, ConsumerKeepsLock
<1> QED
  BY <1>1, <1>3, <1>4, <1>5, <1>6, <1>7

-----------------------------------------------------------------------------
(* Stops, the flags, and the user.                                         *)

LEMMA StopKeeps ==
  ASSUME GroupInv, NEW c \in Children, Stop(c)
  PROVE  GroupInv'
<1> USE DEF Stop, Stopped, entryVars, gateVars, diskVars, countVars
<1>1. TypeOK'
  BY DEF GroupInv, TypeOK
<1>2. Consumers' = Consumers /\ \A d \in Children : Active(d)' = Active(d)
  BY DEF Consumers, Active
<1>3. InputsAreCounted' /\ Lineage'
  BY DEF GroupInv, InputsAreCounted, Held, Lineage
<1>4. LogsComeFirst' /\ ManifestNamesLogs' /\ TurnsAreJudged'
  BY DEF GroupInv, LogsComeFirst, ManifestNamesLogs, TurnsAreJudged
<1>5. StopsAreKept'
  BY DEF GroupInv, TypeOK, StopsAreKept, Active
<1>6. SlotsAreCounted'
  BY <1>2, SlotsOnlyShrink DEF GroupInv
<1>7. SpawnHolds' /\ SendHolds' /\ ArchiveHolds' /\ CloseHolds' /\ CallersWait' /\ NothingIsStranded'
  BY <1>2 DEF GroupInv, SpawnHolds, SendHolds, ArchiveHolds, CloseHolds, CallersWait, NothingIsStranded
<1> QED
  BY <1>1, <1>3, <1>4, <1>5, <1>6, <1>7 DEF GroupInv

LEMMA FlagKeeps ==
  ASSUME GroupInv, ArchiveRefused \/ Shutdown \/ RootSaves \/ \E c \in Children : Archive(c)
  PROVE  GroupInv'
<1> USE DEF entryVars, taskVars, gateVars, diskVars, startVars, countVars
<1>1. /\ UNCHANGED <<entryVars, inbox, taskVars, sending, lock, closed, manifest, log, startVars, countVars>>
      /\ rootLog' = rootLog \/ rootLog' = manifest
  BY DEF ArchiveRefused, Shutdown, RootSaves, Archive
<1>2. TypeOK'
  BY <1>1 DEF GroupInv, TypeOK, ArchiveRefused, Shutdown, RootSaves, Archive, Branch
<1>3. Consumers' = Consumers
  BY <1>1 DEF Consumers, Active
<1>4. InputsAreCounted' /\ Lineage'
  BY <1>1 DEF GroupInv, InputsAreCounted, Held, Lineage
<1>5. LogsComeFirst' /\ ManifestNamesLogs' /\ TurnsAreJudged' /\ StopsAreKept'
  BY <1>1 DEF GroupInv, LogsComeFirst, ManifestNamesLogs, TurnsAreJudged, StopsAreKept
<1>6. SlotsAreCounted'
  BY <1>1, <1>3, SlotsOnlyShrink DEF GroupInv
<1>7. SpawnHolds' /\ SendHolds' /\ ArchiveHolds' /\ CloseHolds' /\ CallersWait' /\ NothingIsStranded'
  BY <1>1, <1>3 DEF GroupInv, SpawnHolds, SendHolds, ArchiveHolds, CloseHolds, CallersWait, NothingIsStranded
<1> QED
  BY <1>2, <1>4, <1>5, <1>6, <1>7 DEF GroupInv

LEMMA UserSubmitsKeeps ==
  ASSUME GroupInv, NEW c \in Children, UserSubmits(c)
  PROVE  GroupInv'
<1> USE DEF UserSubmits, entryVars, gateVars, startVars
<1>1. inputs \in Nat /\ inputs' \in 0..MaxInputs /\ inputs' = inputs + 1 /\ inbox[c] \in Nat /\ inbox[c] <= inputs
  BY Bounds DEF GroupInv, TypeOK, InputsAreCounted, Held
<1>2. Consumers' = Consumers
  BY DEF Consumers, Active
<1>3. TypeOK'
  BY <1>1, Bounds DEF GroupInv, TypeOK, Saved, Logs, FrontendTurn, TurnActive
<1>4. InputsAreCounted'
  BY <1>1, <1>3, Bounds DEF GroupInv, TypeOK, Logs, InputsAreCounted, Held, Saved
<1>5. Lineage'
  BY DEF GroupInv, Lineage, HasFrontend
<1>6. LogsComeFirst' /\ ManifestNamesLogs' /\ TurnsAreJudged' /\ StopsAreKept'
  BY <1>3, NoneIsNothing DEF GroupInv, TypeOK, LogsComeFirst, ManifestNamesLogs, TurnsAreJudged, StopsAreKept, Saved, Logs
<1>7. SlotsAreCounted'
  BY <1>2, SlotsOnlyShrink DEF GroupInv
<1>8. SpawnHolds'
  BY <1>1, <1>2 DEF GroupInv, SpawnHolds, HasFrontend, At
<1>9. SendHolds' /\ ArchiveHolds' /\ CloseHolds' /\ CallersWait'
  BY <1>2 DEF GroupInv, SendHolds, ArchiveHolds, CloseHolds, CallersWait
<1>10. NothingIsStranded'
  BY DEF GroupInv, TypeOK, NothingIsStranded, FrontendTurn, TurnActive
<1> QED
  BY <1>3, <1>4, <1>5, <1>6, <1>7, <1>8, <1>9, <1>10 DEF GroupInv

-----------------------------------------------------------------------------
(* Operations under the admission lock.                                    *)

LEMMA OperationType ==
  ASSUME TypeOK, NEW op \in {"spawn", "send", "archive", "close"}, NEW by \in Children \cup {Root, None},
         NEW of \in SUBSET Children
  PROVE  /\ Operation(op, by, of) \in Operations
         /\ Operation(op, by, of) # None
<1>1. manifest \in Manifests
  BY DEF TypeOK
<1>2. Operation(op, by, of) \in Operations
  BY <1>1 DEF Operation, Operations
<1> QED
  BY <1>2, NoneIsNothing

\* Below the limit there is room for one more.
LEMMA SlotForOne ==
  ASSUME NEW c \in Children, NEW S \in SUBSET (Consumers \cup {c}), limit \in Nat, Cardinality(Consumers) < limit
  PROVE  Cardinality(S) <= limit
<1>1. Consumers \in SUBSET Children /\ Consumers \cup {c} \in SUBSET Children
  BY DEF Consumers
<1>2. /\ Cardinality(Consumers) \in Nat /\ Cardinality(Consumers \cup {c}) \in Nat
      /\ Cardinality(Consumers \cup {c}) <= Cardinality(Consumers) + 1
  BY <1>1, OneMoreChild
<1>3. Cardinality(S) \in Nat /\ Cardinality(S) <= Cardinality(Consumers \cup {c})
  BY <1>1, FewerChildren
<1> QED
  BY <1>2, <1>3

LEMMA SpawnKeeps ==
  ASSUME GroupInv, NEW c \in Children, NEW p \in Children \cup {Root}, Spawn(p, c)
  PROVE  GroupInv'
<1> USE DEF Spawn, taskVars, gateVars, diskVars, startVars
<1>1. /\ p \in attached \cup {Root} /\ parent[c] = None /\ c \notin attached
      /\ p # None /\ p # c
      /\ inputs' = inputs + 1 /\ inputs \in Nat /\ inputs' \in 0..MaxInputs
      /\ attached' = attached \cup {c} /\ parent' = [parent EXCEPT ![c] = p]
  BY Bounds DEF GroupInv, TypeOK, Lineage, Models
<1>2. /\ lock = None /\ lock' = Operation("spawn", p, {c}) /\ lock' \in Operations /\ lock' # None
      /\ lock'.op = "spawn" /\ lock'.by = p /\ lock'.of = {c} /\ lock'.stage = "begun"
      /\ lock'.start /\ ~lock'.held /\ lock'.previous = manifest
  BY OperationType DEF GroupInv, Operation
<1>3. Consumers' = Consumers /\ c \notin Consumers
  BY <1>1 DEF GroupInv, CallersWait, Consumers, Active
<1>4. TypeOK'
  BY <1>1, <1>2 DEF GroupInv, TypeOK
<1>5. InputsAreCounted'
  BY <1>1, <1>2, <1>4, Bounds DEF GroupInv, TypeOK, InputsAreCounted, Held, Logs
<1>6. Lineage'
  BY <1>1, Bounds DEF GroupInv, TypeOK, Lineage
<1>7. LogsComeFirst' /\ ManifestNamesLogs' /\ TurnsAreJudged' /\ StopsAreKept'
  BY <1>1, <1>2 DEF GroupInv, TypeOK, Lineage, LogsComeFirst, ManifestNamesLogs, TurnsAreJudged, StopsAreKept
<1>8. SlotsAreCounted'
  <2>1. Cardinality(Consumers) < limit /\ limit \in Nat
    BY Bounds DEF Admissible, GroupInv, TypeOK
  <2>2. (Consumers \ byUser) \cup {c} \subseteq Consumers \cup {c} /\ Consumers \cup {c} \subseteq Children
    BY DEF Consumers
  <2>3. Cardinality((Consumers \ byUser) \cup {c}) <= limit
    BY <2>1, <2>2, SlotForOne
  <2>4. Slots' = (Consumers \ byUser) \cup {c}
    BY <1>2, <1>3 DEF Slots
  <2> QED
    BY <1>3, <2>3, <2>4 DEF GroupInv, SlotsAreCounted
<1>9. SpawnHolds'
  <2>1. c \notin sending
    BY <1>1 DEF GroupInv, Lineage
  <2>2. \A d \in attached' : parent'[d] # c
    BY <1>1, Bounds DEF GroupInv, TypeOK, Lineage
  <2>3. inputs' > 0 /\ parent'[c] # None
    BY <1>1 DEF GroupInv, TypeOK
  <2>4. lock'.of \cap (sending' \cup Consumers') = {}
    BY <1>2, <1>3, <2>1
  <2> QED
    BY <1>1, <1>2, <2>2, <2>3, <2>4 DEF SpawnHolds
<1>10. SendHolds' /\ ArchiveHolds' /\ CloseHolds'
  BY <1>2 DEF SendHolds, ArchiveHolds, CloseHolds
<1>11. CallersWait'
  BY <1>1, <1>2, <1>3, Bounds DEF GroupInv, CallersWait, Models
<1>12. NothingIsStranded'
  BY <1>1, <1>2 DEF GroupInv, TypeOK, NothingIsStranded
<1> QED
  BY <1>4, <1>5, <1>6, <1>7, <1>8, <1>9, <1>10, <1>11, <1>12 DEF GroupInv

LEMMA SendKeeps ==
  ASSUME GroupInv, NEW c \in Children, NEW p \in Children \cup {Root, None}, NEW start \in BOOLEAN,
         Send(p, c, start)
  PROVE  GroupInv'
<1> USE DEF Send, entryVars, taskVars, gateVars, diskVars, startVars
<1>1. /\ inputs \in Nat /\ inputs' \in 0..MaxInputs /\ c \in attached
      /\ inputs' = IF p = None THEN inputs ELSE inputs + 1
      /\ inbox' = [inbox EXCEPT ![c] = inbox[c] + 1] /\ inbox[c] \in Nat
      /\ p = None => start
  BY Bounds DEF GroupInv, TypeOK
<1>2. /\ lock = None /\ lock' \in Operations /\ lock' # None
      /\ lock'.op = "send" /\ lock'.by = p /\ lock'.of = {c} /\ lock'.stage = "begun"
      /\ lock'.start = start /\ lock'.held = Active(c) /\ lock'.previous = manifest
  <2> DEFINE o == [Operation("send", p, {c}) EXCEPT !.start = start, !.held = Active(c)]
  <2>1. manifest \in Manifests /\ Active(c) \in BOOLEAN
    BY DEF GroupInv, TypeOK, Active
  <2>2. o \in Operations
    BY <2>1 DEF Operation, Operations
  <2>3. /\ o.op = "send" /\ o.by = p /\ o.of = {c} /\ o.stage = "begun"
        /\ o.start = start /\ o.held = Active(c) /\ o.previous = manifest
    BY DEF Operation
  <2>4. lock = None /\ lock' = o
    OBVIOUS
  <2> QED
    BY <2>2, <2>3, <2>4, NoneIsNothing
<1>3. Consumers' = Consumers
  BY DEF Consumers, Active
<1>4. /\ inbox[c] + 1 + Held(c)' <= inputs' /\ inbox[c] + 1 \in 0..MaxInputs
      /\ \A d \in Children \ {c} : Held(d)' = Held(d)
  <2>1. inbox[c] + Held(c) <= inputs /\ sending' = sending
    BY DEF GroupInv, InputsAreCounted
  <2>2. ASSUME p = None
        PROVE  inbox[c] + 1 + Held(c)' <= inputs'
    <3>1. Held(c) = 1 /\ Held(c)' = 0
      BY <1>2, <2>1, <2>2 DEF Held
    <3> QED
      BY <1>1, <2>1, <2>2, <3>1
  <2>3. ASSUME p # None
        PROVE  inbox[c] + 1 + Held(c)' <= inputs'
    <3>1. Held(c)' = Held(c) /\ Held(c) \in {0, 1}
      BY <1>2, <2>1, <2>3 DEF Held
    <3> QED
      BY <1>1, <2>1, <2>3, <3>1
  <2>4. \A d \in Children \ {c} : Held(d)' = Held(d)
    BY <1>2, <2>1 DEF Held
  <2>5. inbox[c] + 1 + Held(c)' <= inputs' /\ Held(c)' \in {0, 1}
    BY <2>2, <2>3 DEF Held
  <2> QED
    BY <1>1, <2>4, <2>5, Bounds
<1>5. TypeOK'
  BY <1>1, <1>2, <1>4 DEF GroupInv, TypeOK
<1>6. InputsAreCounted'
  BY <1>1, <1>4, <1>5, Bounds DEF GroupInv, TypeOK, InputsAreCounted, Held, Logs
<1>7. Lineage'
  BY <1>1 DEF GroupInv, Lineage
<1>8. LogsComeFirst' /\ ManifestNamesLogs' /\ TurnsAreJudged' /\ StopsAreKept'
  BY <1>1, <1>2 DEF GroupInv, Lineage, LogsComeFirst, ManifestNamesLogs, TurnsAreJudged, StopsAreKept
<1>9. SlotsAreCounted'
  <2>1. limit \in Nat /\ Consumers \subseteq Children
    BY Bounds DEF GroupInv, TypeOK, Consumers
  <2>2. Cardinality(Consumers \ byUser) <= limit
    BY DEF GroupInv, SlotsAreCounted
  <2>3. ASSUME Starting'
        PROVE  Cardinality(Slots') <= limit
    <3>1. p # None /\ (Active(c) \/ Admissible)
      BY <1>2, <2>3 DEF Starting
    <3>2. CASE Active(c)
      <4>1. Slots' = Consumers \ byUser
        BY <1>2, <1>3, <3>2 DEF Slots, Consumers
      <4> QED
        BY <2>2, <4>1
    <3>3. CASE Admissible
      <4>1. Slots' \subseteq Consumers \cup {c} /\ Consumers \cup {c} \subseteq Children
        BY <1>2, <1>3, <2>1 DEF Slots
      <4>2. Cardinality(Consumers) < limit
        BY <3>3 DEF Admissible
      <4> QED
        BY <2>1, <4>1, <4>2, SlotForOne
    <3> QED
      BY <3>1, <3>2, <3>3
  <2> QED
    BY <1>3, <2>2, <2>3 DEF SlotsAreCounted
<1>10. SpawnHolds' /\ SendHolds' /\ ArchiveHolds' /\ CloseHolds'
  BY <1>2 DEF SpawnHolds, SendHolds, ArchiveHolds, CloseHolds
<1>11. CallersWait'
  BY <1>1, <1>2, <1>3, Bounds DEF GroupInv, CallersWait, Models
<1>12. NothingIsStranded'
  BY <1>1, <1>2 DEF GroupInv, TypeOK, NothingIsStranded
<1> QED
  BY <1>5, <1>6, <1>7, <1>8, <1>9, <1>10, <1>11, <1>12 DEF GroupInv

\* An operation ends for its caller, whose turn goes on or settles.
Unwound ==
  /\ at' \in [Children -> Locations] /\ cancel' \in [Children -> BOOLEAN] /\ status' \in [Children -> Statuses]
  /\ \A d \in Children : d # lock.by => at'[d] = at[d] /\ cancel'[d] = cancel[d] /\ status'[d] = status[d]
  /\ lock.by \in Children =>
       \/ at'[lock.by] = "turn" /\ cancel'[lock.by] = cancel[lock.by] /\ status'[lock.by] = status[lock.by]
       \/ at'[lock.by] = "settling" /\ ~cancel'[lock.by] /\ status'[lock.by] = "interrupted"

LEMMA CallerUnwinds ==
  ASSUME TypeOK, lock # None, Cancelled \/ (at' = Returned /\ UNCHANGED <<cancel, status>>)
  PROVE  Unwound
<1>1. lock.by \in Children \cup {Root, None}
  BY DEF TypeOK, Operations
<1>2. CASE Cancelled
  <2>1. CASE lock.by = Root /\ UNCHANGED <<at, cancel, status>>
    BY <2>1, Bounds DEF TypeOK, Unwound
  <2>2. CASE /\ lock.by \in Children
             /\ at' = [at EXCEPT ![lock.by] = "settling"]
             /\ cancel' = [cancel EXCEPT ![lock.by] = FALSE]
             /\ status' = [status EXCEPT ![lock.by] = "interrupted"]
    BY <2>2 DEF TypeOK, Unwound, Locations, Statuses
  <2> QED
    BY <1>2, <2>1, <2>2 DEF Cancelled
<1>3. CASE at' = Returned /\ UNCHANGED <<cancel, status>>
  BY <1>1, <1>3, Bounds DEF TypeOK, Unwound, Returned, Locations, Statuses
<1> QED
  BY <1>2, <1>3

LEMMA UnwoundKeeps ==
  ASSUME TypeOK, lock # None, CallersWait, TurnsAreJudged, StopsAreKept, Unwound,
         restart' = restart, stopped' = stopped
  PROVE  Consumers' = Consumers /\ TurnsAreJudged' /\ StopsAreKept'
<1>1. lock.by \in Children => at[lock.by] = "calling"
  BY DEF CallersWait
<1>2. Consumers' = Consumers
  BY <1>1 DEF Consumers, Active, Unwound
<1>3. TurnsAreJudged'
  BY <1>1 DEF TurnsAreJudged, Unwound, Ended
<1>4. StopsAreKept'
  BY <1>1 DEF TypeOK, StopsAreKept, Unwound, Ended
<1> QED
  BY <1>2, <1>3, <1>4

LEMMA UnwoundStrands ==
  ASSUME TypeOK, lock # None, CallersWait, NothingIsStranded, Unwound,
         inbox' = inbox, attached' \subseteq attached, closed' = closed, parked \subseteq parked',
         lock' = lock \/ \A c \in attached' : c \in lock.of => c \in parked'
  PROVE  NothingIsStranded'
<1>1. lock.by \in Children => at[lock.by] = "calling"
  BY DEF CallersWait
<1> QED
  BY <1>1 DEF TypeOK, NothingIsStranded, Unwound

LEMMA SpawnDetachedKeeps ==
  ASSUME GroupInv, SpawnDetached
  PROVE  GroupInv'
<1> USE DEF SpawnDetached, gateVars, diskVars, startVars, countVars
<1>1. lock # None /\ lock.op = "spawn" /\ lock.stage = "begun" /\ lock' = None /\ attached' = attached \ lock.of
  BY DEF At
<1>2. Unwound
  BY <1>1, CallerUnwinds DEF GroupInv
<1>3. Consumers' = Consumers /\ TurnsAreJudged' /\ StopsAreKept'
  BY <1>1, <1>2, UnwoundKeeps DEF GroupInv
<1>4. TypeOK'
  BY <1>1, <1>2 DEF GroupInv, TypeOK, Unwound
<1>5. InputsAreCounted'
  BY <1>1 DEF GroupInv, SpawnHolds, InputsAreCounted, Held
<1>6. Lineage' /\ LogsComeFirst' /\ ManifestNamesLogs'
  BY <1>1 DEF GroupInv, Lineage, LogsComeFirst, ManifestNamesLogs
<1>7. SlotsAreCounted'
  BY <1>1, <1>3, SlotsOnlyShrink DEF GroupInv
<1>8. SpawnHolds' /\ SendHolds' /\ ArchiveHolds' /\ CloseHolds'
  BY <1>1 DEF SpawnHolds, SendHolds, ArchiveHolds, CloseHolds
<1>9. CallersWait'
  BY <1>1, <1>3 DEF GroupInv, CallersWait, SpawnHolds
<1>10. NothingIsStranded'
  BY <1>1, <1>2, UnwoundStrands DEF GroupInv
<1> QED
  BY <1>3, <1>4, <1>5, <1>6, <1>7, <1>8, <1>9, <1>10 DEF GroupInv

LEMMA SpawnAttachedKeeps ==
  ASSUME GroupInv, NEW c \in Children, SpawnAttached(c)
  PROVE  GroupInv'
<1> USE DEF SpawnAttached, entryVars, taskVars, gateVars, diskVars, startVars, countVars
<1>1. /\ lock # None /\ lock.op = "spawn" /\ lock.stage = "begun" /\ lock.of = {c} /\ lock.by # None
      /\ inbox' = [inbox EXCEPT ![c] = 1] /\ inputs \in 1..MaxInputs
      /\ c \notin sending /\ c \notin Consumers
  BY Bounds DEF Proceeds, At, GroupInv, SpawnHolds, TypeOK
<1>2. lock' = [lock EXCEPT !.stage = "child"] /\ lock \in Operations
  BY <1>1 DEF GroupInv, TypeOK
<1>3. /\ lock' \in Operations /\ lock' # None /\ lock'.op = "spawn" /\ lock'.stage = "child"
      /\ lock'.of = {c} /\ lock'.by = lock.by /\ lock'.start = lock.start /\ lock'.held = lock.held
      /\ lock'.previous = lock.previous
  BY <1>1, <1>2, NoneIsNothing DEF Operations
<1>4. Consumers' = Consumers
  BY DEF Consumers, Active
<1>5. TypeOK'
  BY <1>1, <1>3, Bounds DEF GroupInv, TypeOK
<1>6. InputsAreCounted'
  BY <1>1, <1>3, <1>5, Bounds DEF GroupInv, TypeOK, InputsAreCounted, Held
<1>7. Lineage' /\ LogsComeFirst' /\ ManifestNamesLogs' /\ TurnsAreJudged' /\ StopsAreKept'
  BY <1>1, <1>3 DEF GroupInv, Lineage, LogsComeFirst, ManifestNamesLogs, TurnsAreJudged, StopsAreKept
<1>8. SlotsAreCounted'
  BY <1>1, <1>3, <1>4 DEF GroupInv, SlotsAreCounted, Starting, Slots
<1>9. SpawnHolds' /\ SendHolds' /\ ArchiveHolds' /\ CloseHolds'
  BY <1>1, <1>3 DEF GroupInv, SpawnHolds, SendHolds, ArchiveHolds, CloseHolds
<1>10. CallersWait'
  BY <1>1, <1>3, <1>4 DEF GroupInv, CallersWait
<1>11. NothingIsStranded'
  BY <1>1, <1>3 DEF GroupInv, TypeOK, NothingIsStranded
<1> QED
  BY <1>5, <1>6, <1>7, <1>8, <1>9, <1>10, <1>11 DEF GroupInv

LEMMA SpawnChildSavedKeeps ==
  ASSUME GroupInv, NEW c \in Children, SpawnChildSaved(c)
  PROVE  GroupInv'
<1> USE DEF SpawnChildSaved, entryVars, taskVars, gateVars, startVars, countVars
<1>1. /\ lock # None /\ lock.op = "spawn" /\ lock.stage = "child" /\ lock.of = {c} /\ lock.by # None
      /\ log' = [log EXCEPT ![c] = [inbox |-> inbox[c], status |-> status[c]]]
      /\ manifest' = [manifest EXCEPT ![c] = "live"] /\ parent[c] # None
  BY DEF Proceeds, At, GroupInv, SpawnHolds, Saved, Lineage
<1>2. lock' = [lock EXCEPT !.stage = "root"] /\ lock \in Operations
  BY <1>1 DEF GroupInv, TypeOK
<1>3. /\ lock' \in Operations /\ lock' # None /\ lock'.op = "spawn" /\ lock'.stage = "root"
      /\ lock'.of = {c} /\ lock'.by = lock.by /\ lock'.start = lock.start /\ lock'.held = lock.held
      /\ lock'.previous = lock.previous
  BY <1>1, <1>2, NoneIsNothing DEF Operations
<1>4. Consumers' = Consumers
  BY DEF Consumers, Active
<1>5. TypeOK'
  BY <1>1, <1>3, Bounds DEF GroupInv, TypeOK, Logs, Manifests
<1>6. InputsAreCounted'
  BY <1>1, <1>3, <1>5, Bounds DEF GroupInv, TypeOK, InputsAreCounted, Held, Logs
<1>7. Lineage' /\ LogsComeFirst' /\ ManifestNamesLogs'
  BY <1>1, <1>3, <1>5, NoneIsNothing DEF GroupInv, TypeOK, Manifests, Lineage, LogsComeFirst, ManifestNamesLogs, Logs
<1>8. TurnsAreJudged' /\ StopsAreKept'
  BY DEF GroupInv, TurnsAreJudged, StopsAreKept
<1>9. SlotsAreCounted'
  BY <1>1, <1>3, <1>4 DEF GroupInv, SlotsAreCounted, Starting, Slots
<1>10. SpawnHolds' /\ SendHolds' /\ ArchiveHolds' /\ CloseHolds'
  BY <1>1, <1>3 DEF GroupInv, SpawnHolds, SendHolds, ArchiveHolds, CloseHolds
<1>11. CallersWait'
  BY <1>1, <1>3, <1>4 DEF GroupInv, CallersWait
<1>12. NothingIsStranded'
  BY <1>1, <1>3 DEF GroupInv, TypeOK, NothingIsStranded
<1> QED
  BY <1>5, <1>6, <1>7, <1>8, <1>9, <1>10, <1>11, <1>12 DEF GroupInv

\* What a start does to the tasks, when the caller's tool call returns with it.
Begun(c) ==
  /\ at' \in [Children -> Locations] /\ cancel' \in [Children -> BOOLEAN]
  /\ restart' \in [Children -> BOOLEAN] /\ status' \in [Children -> Statuses]
  /\ stopped' \subseteq stopped
  /\ Consumers' = Consumers \cup {c}
  /\ at'[c] # "none"
  /\ \A d \in Children \ {c} : (at'[d] = "none") = (at[d] = "none") /\ status'[d] = status[d]

LEMMA StartedBegins ==
  ASSUME TypeOK, lock # None, CallersWait, NEW c \in Children, Started(c, Returned)
  PROVE  Begun(c)
<1>1. lock.by \in Children \cup {Root, None} /\ (lock.by \in Children => at[lock.by] = "calling")
  BY DEF TypeOK, Operations, CallersWait
<1>2. /\ Returned \in [Children -> Locations]
      /\ \A d \in Children : Returned[d] = IF d = lock.by THEN "turn" ELSE at[d]
  BY <1>1, Bounds DEF TypeOK, Returned, Locations
<1> HIDE DEF Returned
<1>3. CASE Active(c)
  <2>1. /\ at' = Returned /\ UNCHANGED <<cancel, status>> /\ stopped' \subseteq stopped
        /\ restart' \in [Children -> BOOLEAN]
    BY <1>3 DEF Started, TypeOK
  <2>2. Consumers' = Consumers \cup {c}
    BY <1>1, <1>2, <1>3, <2>1 DEF Consumers, Active
  <2> QED
    BY <1>1, <1>2, <1>3, <2>1, <2>2 DEF Begun, TypeOK, Active
<1>4. CASE ~Active(c)
  <2>1. /\ at' = [Returned EXCEPT ![c] = "created"] /\ cancel' = [cancel EXCEPT ![c] = FALSE]
        /\ restart' = [restart EXCEPT ![c] = FALSE]
        /\ status' = [status EXCEPT ![c] = IF inbox'[c] > 0 THEN "running" ELSE status[c]]
        /\ stopped' = stopped \ {c}
    BY <1>4 DEF Started, Created
  <2>2. Consumers' = Consumers \cup {c}
    BY <1>1, <1>2, <1>4, <2>1 DEF Consumers, Active
  <2>3. at' \in [Children -> Locations] /\ status' \in [Children -> Statuses]
    BY <1>2, <2>1 DEF TypeOK, Locations, Statuses
  <2> QED
    BY <1>1, <1>2, <1>4, <2>1, <2>2, <2>3 DEF Begun, TypeOK, Active
<1> QED
  BY <1>3, <1>4

LEMMA StartedStops ==
  ASSUME TypeOK, lock # None, CallersWait, TurnsAreJudged, StopsAreKept, NEW c \in Children, Started(c, Returned)
  PROVE  TurnsAreJudged' /\ StopsAreKept'
<1>1. lock.by \in Children \cup {Root, None} /\ (lock.by \in Children => at[lock.by] = "calling")
  BY DEF TypeOK, Operations, CallersWait
<1>2. /\ Returned \in [Children -> Locations]
      /\ \A d \in Children : Returned[d] = IF d = lock.by THEN "turn" ELSE at[d]
  BY <1>1, Bounds DEF TypeOK, Returned, Locations
<1> HIDE DEF Returned
<1>3. CASE Active(c)
  <2>1. at' = Returned /\ UNCHANGED <<cancel, status>>
    BY <1>3 DEF Started
  <2>2. \A d \in stopped' : d \in stopped /\ ~restart'[d]
    BY <1>3 DEF Started, TypeOK, StopsAreKept
  <2>3. TurnsAreJudged'
    BY <1>1, <1>2, <2>1 DEF TypeOK, TurnsAreJudged, Ended
  <2>4. StopsAreKept'
    BY <1>1, <1>2, <2>1, <2>2 DEF TypeOK, StopsAreKept, Ended
  <2> QED
    BY <2>3, <2>4
<1>4. CASE ~Active(c)
  <2>1. /\ at' = [Returned EXCEPT ![c] = "created"] /\ cancel' = [cancel EXCEPT ![c] = FALSE]
        /\ restart' = [restart EXCEPT ![c] = FALSE]
        /\ status' = [status EXCEPT ![c] = IF inbox'[c] > 0 THEN "running" ELSE status[c]]
        /\ stopped' = stopped \ {c}
    BY <1>4 DEF Started, Created
  <2>2. TurnsAreJudged'
    BY <1>1, <1>2, <2>1 DEF TypeOK, TurnsAreJudged, Ended
  <2>3. StopsAreKept'
    BY <1>1, <1>2, <2>1 DEF TypeOK, StopsAreKept, Ended
  <2> QED
    BY <2>2, <2>3
<1> QED
  BY <1>3, <1>4

LEMMA SpawnRootSavedKeeps ==
  ASSUME GroupInv, NEW c \in Children, SpawnRootSaved(c)
  PROVE  GroupInv'
<1> USE DEF SpawnRootSaved, entryVars, gateVars, countVars
<1>1. /\ lock # None /\ lock.op = "spawn" /\ lock.stage = "root" /\ lock.of = {c} /\ lock.by # None
      /\ lock' = None /\ lock.start /\ ~lock.held /\ c \in attached
  BY DEF Proceeds, At, GroupInv, SpawnHolds
<1>2. Begun(c)
  BY <1>1, StartedBegins DEF GroupInv
<1>3. TurnsAreJudged' /\ StopsAreKept'
  BY <1>1, StartedStops DEF GroupInv
<1>4. TypeOK'
  BY <1>1, <1>2 DEF GroupInv, TypeOK, Begun
<1>5. InputsAreCounted'
  BY <1>1 DEF GroupInv, InputsAreCounted, Held
<1>6. Lineage' /\ LogsComeFirst' /\ ManifestNamesLogs'
  BY <1>1 DEF GroupInv, Lineage, LogsComeFirst, ManifestNamesLogs
<1>7. SlotsAreCounted'
  <2>1. Cardinality(Slots) <= limit /\ Consumers' \ byUser' \subseteq Slots /\ Slots \subseteq Children
    BY <1>1, <1>2 DEF GroupInv, SlotsAreCounted, Starting, Slots, Begun, Consumers
  <2>2. limit \in Nat
    BY Bounds DEF GroupInv, TypeOK
  <2>3. Cardinality(Consumers' \ byUser') <= limit'
    BY <2>1, <2>2, FewerChildren
  <2> QED
    BY <1>1, <2>3 DEF SlotsAreCounted, Starting
<1>8. SpawnHolds' /\ SendHolds' /\ ArchiveHolds' /\ CloseHolds'
  BY <1>1 DEF SpawnHolds, SendHolds, ArchiveHolds, CloseHolds
<1>9. CallersWait'
  BY <1>1, <1>2 DEF GroupInv, CallersWait, Begun
<1>10. NothingIsStranded'
  BY <1>1, <1>2 DEF GroupInv, TypeOK, NothingIsStranded, Begun
<1> QED
  BY <1>3, <1>4, <1>5, <1>6, <1>7, <1>8, <1>9, <1>10 DEF GroupInv

LEMMA SendSavedKeeps ==
  ASSUME GroupInv, NEW c \in Children, SendSaved(c)
  PROVE  GroupInv'
<1> USE DEF SendSaved, entryVars, gateVars, countVars
<1>1. /\ lock # None /\ lock.op = "send" /\ lock.of = {c} /\ lock' = None /\ c \in attached
      /\ lock.by \in Children \cup {Root, None} /\ inbox' = inbox
      /\ sending' = IF lock.by = None THEN sending \ {c} ELSE sending
  BY DEF Proceeds, At, GroupInv, SendHolds, TypeOK, Operations
<1>2. ASSUME lock.start
      PROVE  Begun(c) /\ TurnsAreJudged' /\ StopsAreKept'
  BY <1>1, <1>2, StartedBegins, StartedStops DEF GroupInv
<1>3. ASSUME ~lock.start
      PROVE  Unwound /\ Consumers' = Consumers /\ TurnsAreJudged' /\ StopsAreKept'
  <2>1. at' = Returned /\ UNCHANGED <<cancel, restart, status, byUser, stopped>>
    BY <1>3
  <2>2. Unwound
    BY <1>1, <2>1, CallerUnwinds DEF GroupInv
  <2> QED
    BY <1>1, <2>1, <2>2, UnwoundKeeps DEF GroupInv
<1>4. log' = [log EXCEPT ![c] = [inbox |-> inbox[c], status |-> status'[c]]]
  BY <1>1 DEF Saved
<1>5. TypeOK'
  <2>1. /\ at' \in [Children -> Locations] /\ cancel' \in [Children -> BOOLEAN]
        /\ restart' \in [Children -> BOOLEAN] /\ status' \in [Children -> Statuses]
        /\ stopped' \subseteq stopped
    <3>1. CASE lock.start
      BY <1>2, <3>1 DEF Begun
    <3>2. CASE ~lock.start
      BY <1>3, <3>2 DEF Unwound, GroupInv, TypeOK
    <3> QED
      BY <3>1, <3>2
  <2>2. log' \in [Children -> Logs \cup {None}]
    BY <1>4, <2>1 DEF GroupInv, TypeOK, Logs
  <2>3. byUser' \subseteq Children /\ parked' \subseteq Children
    BY DEF GroupInv, TypeOK
  <2> QED
    BY <1>1, <2>1, <2>2, <2>3 DEF GroupInv, TypeOK
<1>6. InputsAreCounted'
  <2>1. \A d \in Children : Held(d)' = Held(d)
    BY <1>1 DEF Held
  <2>2. \A d \in Children : inbox[d] \in Nat /\ inputs \in Nat /\ Held(d) \in {0, 1} /\ inbox[d] + Held(d) <= inputs
    BY Bounds DEF GroupInv, TypeOK, InputsAreCounted, Held
  <2>3. \A d \in Children : log'[d] # None => log'[d].inbox <= inputs
    BY <1>4, <2>2 DEF GroupInv, TypeOK, InputsAreCounted
  <2> QED
    BY <1>1, <2>1, <2>2, <2>3 DEF InputsAreCounted
<1>7. Lineage' /\ LogsComeFirst' /\ ManifestNamesLogs'
  <2>1. \A d \in Children : log[d] # None => log'[d] # None
    BY <1>4, <1>5, NoneIsNothing DEF TypeOK, GroupInv, Logs
  <2> QED
    BY <1>1, <2>1 DEF GroupInv, Lineage, LogsComeFirst, ManifestNamesLogs
<1>8. SlotsAreCounted'
  <2>1. limit \in Nat /\ Consumers \subseteq Children /\ Cardinality(Consumers \ byUser) <= limit
    BY Bounds DEF GroupInv, TypeOK, Consumers, SlotsAreCounted
  <2>2. CASE ~lock.start
    BY <1>1, <1>3, <2>1, <2>2 DEF SlotsAreCounted, Starting
  <2>3. CASE lock.start /\ (lock.by = None \/ Active(c))
    <3>1. Consumers' \ byUser' \subseteq Consumers \ byUser \/ (lock.by # None /\ Consumers' \ byUser' \subseteq Slots)
      BY <1>1, <1>2, <2>3 DEF Begun, Consumers, Slots
    <3>2. lock.by # None => Cardinality(Slots) <= limit /\ Slots \subseteq Children
      BY <1>1, <2>1, <2>3 DEF GroupInv, SlotsAreCounted, Starting, Slots
    <3>3. Cardinality(Consumers' \ byUser') <= limit
      BY <2>1, <3>1, <3>2, FewerChildren
    <3> QED
      BY <1>1, <3>3 DEF SlotsAreCounted, Starting
  <2>4. CASE lock.start /\ lock.by # None /\ ~Active(c)
    <3>1. Consumers' \ byUser' \subseteq Slots /\ Slots \subseteq Children /\ Cardinality(Slots) <= limit
      BY <1>1, <1>2, <2>1, <2>4 DEF Begun, Slots, GroupInv, SlotsAreCounted, Starting
    <3>2. Cardinality(Consumers' \ byUser') <= limit
      BY <2>1, <3>1, FewerChildren
    <3> QED
      BY <1>1, <3>2 DEF SlotsAreCounted, Starting
  <2> QED
    BY <2>2, <2>3, <2>4
<1>9. SpawnHolds' /\ SendHolds' /\ ArchiveHolds' /\ CloseHolds'
  BY <1>1 DEF SpawnHolds, SendHolds, ArchiveHolds, CloseHolds
<1>10. CallersWait'
  BY <1>1, <1>2, <1>3 DEF GroupInv, CallersWait, Begun
<1>11. NothingIsStranded'
  <2>1. CASE lock.start
    BY <1>1, <1>2, <2>1 DEF GroupInv, TypeOK, NothingIsStranded, Begun
  <2>2. CASE ~lock.start
    <3>1. parked' = parked \cup {c}
      BY <2>2
    <3> QED
      BY <1>1, <1>3, <2>2, <3>1, UnwoundStrands DEF GroupInv
  <2> QED
    BY <2>1, <2>2
<1> QED
  BY <1>2, <1>3, <1>5, <1>6, <1>7, <1>8, <1>9, <1>10, <1>11 DEF GroupInv

LEMMA AbandonedKeeps ==
  ASSUME GroupInv, Abandoned
  PROVE  GroupInv'
<1> USE DEF Abandoned, entryVars, countVars
<1>1. /\ lock # None /\ lock.op \in {"spawn", "send"} /\ lock' = None /\ inbox' = inbox
      /\ lock.of \subseteq Children /\ lock.by \in Children \cup {Root, None}
      /\ parked' = parked \cup lock.of /\ (lock.op = "spawn" => lock.by # None)
  BY DEF At, GroupInv, TypeOK, Operations, SpawnHolds
<1>2. Unwound
  BY <1>1, CallerUnwinds DEF GroupInv, Raised
<1>3. Consumers' = Consumers /\ TurnsAreJudged' /\ StopsAreKept'
  BY <1>1, <1>2, UnwoundKeeps DEF GroupInv
<1>4. /\ \A d \in Children : log'[d] = log[d] \/ (d \in lock.of /\ log'[d] = [inbox |-> inbox[d], status |-> status'[d]])
      /\ log' \in [Children -> Logs \cup {None}]
      /\ rootLog' = rootLog \/ rootLog' = manifest
  <2>1. status' \in [Children -> Statuses]
    BY <1>2 DEF Unwound
  <2> QED
    BY <1>1, <2>1 DEF GroupInv, TypeOK, Saved, Raised, diskVars, Logs
<1>5. sending' = (IF lock.by = None THEN sending \ lock.of ELSE sending) /\ closing' \in BOOLEAN
  BY <1>1, Bounds DEF Raised, Cancelled, GroupInv, TypeOK
<1>6. TypeOK'
  BY <1>1, <1>2, <1>4, <1>5 DEF GroupInv, TypeOK, Unwound
<1>7. InputsAreCounted'
  <2>1. \A d \in Children : Held(d)' = Held(d)
    BY <1>1, <1>5 DEF Held
  <2>2. \A d \in Children : inbox[d] \in Nat /\ inputs \in Nat /\ Held(d) \in {0, 1} /\ inbox[d] + Held(d) <= inputs
    BY Bounds DEF GroupInv, TypeOK, InputsAreCounted, Held
  <2>3. \A d \in Children : log'[d] # None => log'[d].inbox <= inputs
    BY <1>4, <2>2 DEF GroupInv, TypeOK, InputsAreCounted
  <2> QED
    BY <1>1, <2>1, <2>2, <2>3 DEF InputsAreCounted
<1>8. Lineage' /\ LogsComeFirst' /\ ManifestNamesLogs'
  <2>1. \A d \in Children : log[d] # None => log'[d] # None
    BY <1>4, <1>6, NoneIsNothing DEF TypeOK, GroupInv, Logs
  <2> QED
    BY <1>1, <1>4, <1>5, <2>1 DEF GroupInv, Lineage, LogsComeFirst, ManifestNamesLogs
<1>9. SlotsAreCounted'
  BY <1>1, <1>3, SlotsOnlyShrink DEF GroupInv
<1>10. SpawnHolds' /\ SendHolds' /\ ArchiveHolds' /\ CloseHolds'
  BY <1>1 DEF SpawnHolds, SendHolds, ArchiveHolds, CloseHolds
<1>11. CallersWait'
  BY <1>1, <1>3 DEF GroupInv, CallersWait
<1>12. NothingIsStranded'
  BY <1>1, <1>2, UnwoundStrands DEF GroupInv
<1> QED
  BY <1>3, <1>6, <1>7, <1>8, <1>9, <1>10, <1>11, <1>12 DEF GroupInv

-----------------------------------------------------------------------------
(* Archives, the end of the group, and a restart.                          *)

LEMMA BranchHasOffspring ==
  ASSUME attached \subseteq Children, NEW c \in Children, NEW d \in attached,
         d = c \/ parent[d] \in Branch(c)
  PROVE  d \in Branch(c)
<1> SUFFICES ASSUME NEW S \in SUBSET Children, c \in S, Offspring(S) \subseteq S
             PROVE  d \in S
  BY DEF Branch
<1>1. CASE d = c
  BY <1>1
<1>2. CASE parent[d] \in Branch(c)
  <2>1. parent[d] \in S
    BY <1>2 DEF Branch
  <2> QED
    BY <2>1 DEF Offspring
<1> QED
  BY <1>1, <1>2

\* An operation that stops children as it takes the lock.
LEMMA StoppingKeeps ==
  ASSUME GroupInv, NEW C \in SUBSET Children, Stopped(C), lock = None,
         stopped' \subseteq stopped \cup {c \in C : Active(c)},
         lock' \in Operations, lock' # None, lock'.by \in {Root, None}, lock'.op \in {"archive", "close"},
         lock'.previous = manifest, lock'.op = "close" => lock'.by = None /\ C = attached /\ lock'.of = attached /\ closed',
         lock'.op = "archive" =>
           /\ ~closed' /\ lock'.by = Root /\ lock'.stage = "begun"
           /\ \A d \in attached : parent[d] \in lock'.of => d \in lock'.of,
         closed' \in BOOLEAN, closed => closed',
         UNCHANGED <<entryVars, inbox, at, status, sending, retiring, closing, manifest, diskVars, byUser, parked, countVars>>
  PROVE  GroupInv'
<1> USE DEF entryVars, diskVars, countVars
<1>1. Consumers' = Consumers
  BY DEF Consumers, Active
<1>2. cancel' \in [Children -> BOOLEAN] /\ restart' \in [Children -> BOOLEAN]
  BY DEF Stopped, GroupInv, TypeOK, Active
<1>3. TypeOK'
  BY <1>2 DEF GroupInv, TypeOK
<1>4. InputsAreCounted'
  BY Bounds DEF GroupInv, TypeOK, InputsAreCounted, Held
<1>5. Lineage' /\ LogsComeFirst' /\ ManifestNamesLogs' /\ TurnsAreJudged'
  BY DEF GroupInv, Lineage, LogsComeFirst, ManifestNamesLogs, TurnsAreJudged
<1>6. StopsAreKept'
  BY DEF GroupInv, TypeOK, StopsAreKept, Stopped, Active
<1>7. SlotsAreCounted'
  BY <1>1 DEF GroupInv, SlotsAreCounted, Starting
<1>8. SpawnHolds' /\ SendHolds' /\ CloseHolds' /\ ArchiveHolds'
  BY DEF SpawnHolds, SendHolds, CloseHolds, ArchiveHolds
<1>9. CallersWait'
  BY <1>1, Bounds DEF GroupInv, CallersWait
<1>10. NothingIsStranded'
  BY DEF GroupInv, NothingIsStranded
<1> QED
  BY <1>3, <1>4, <1>5, <1>6, <1>7, <1>8, <1>9, <1>10 DEF GroupInv

LEMMA ArchiveAdmittedKeeps ==
  ASSUME GroupInv, ArchiveAdmitted
  PROVE  GroupInv'
<1> USE DEF ArchiveAdmitted
<1>1. retiring \in SUBSET Children /\ attached \subseteq Children
  BY DEF GroupInv, TypeOK
<1>2. /\ lock' \in Operations /\ lock' # None /\ lock'.op = "archive" /\ lock'.by = Root
      /\ lock'.of = retiring /\ lock'.stage = "begun" /\ lock'.previous = manifest
  BY <1>1, OperationType DEF GroupInv, Operation
<1>3. ASSUME NEW d \in attached, parent[d] \in retiring
      PROVE  d \in retiring
  <2>1. parent[d] \in Branch(parent[d])
    BY <1>1, <1>3, BranchHasOffspring
  <2> QED
    BY <1>1, <1>3, <2>1, BranchHasOffspring
<1> QED
  BY <1>1, <1>2, <1>3, StoppingKeeps DEF GroupInv, TypeOK, gateVars

LEMMA CloseKeeps ==
  ASSUME GroupInv, Close
  PROVE  GroupInv'
<1> USE DEF Close
<1>1. attached \in SUBSET Children
  BY DEF GroupInv, TypeOK
<1>2. /\ lock' \in Operations /\ lock' # None /\ lock'.op = "close" /\ lock'.by = None
      /\ lock'.of = attached /\ lock'.stage = "begun" /\ lock'.previous = manifest
  BY <1>1, OperationType DEF GroupInv, Operation
<1>3. Consumers \subseteq {c \in attached : Active(c)}
  BY DEF GroupInv, CallersWait, Consumers
<1> QED
  BY <1>1, <1>2, <1>3, StoppingKeeps

LEMMA ArchiveJoinedKeeps ==
  ASSUME GroupInv, ArchiveJoined
  PROVE  GroupInv'
<1> USE DEF ArchiveJoined, entryVars, taskVars, gateVars, startVars, countVars
<1>1. /\ lock # None /\ lock.op = "archive" /\ lock.stage = "begun" /\ lock \in Operations
      /\ lock.of \in SUBSET Children /\ lock.of \cap Consumers = {} /\ lock.by = Root
  BY DEF At, GroupInv, TypeOK, Operations, Consumers, ArchiveHolds
<1>2. /\ lock' \in Operations /\ lock' # None /\ lock'.op = "archive" /\ lock'.stage = "root"
      /\ lock'.of = lock.of /\ lock'.by = lock.by /\ lock'.start = lock.start /\ lock'.held = lock.held
      /\ lock'.previous = lock.previous
  BY <1>1, NoneIsNothing DEF Operations
<1>3. Consumers' = Consumers
  BY DEF Consumers, Active
<1>4. TypeOK'
  BY <1>1, <1>2, Bounds DEF GroupInv, TypeOK, Logs, Manifests
<1>5. InputsAreCounted'
  <2>1. \A d \in Children : Held(d)' = Held(d)
    BY <1>1, <1>2, Bounds DEF Held
  <2>2. \A d \in Children : inbox[d] \in Nat /\ inputs \in Nat /\ Held(d) \in {0, 1} /\ inbox[d] + Held(d) <= inputs
    BY Bounds DEF GroupInv, TypeOK, InputsAreCounted, Held
  <2>3. ASSUME NEW d \in Children
        PROVE  inbox'[d] + Held(d)' <= inputs' /\ (log'[d] # None => log'[d].inbox <= inputs')
    BY <1>1, <2>1, <2>2 DEF GroupInv, InputsAreCounted
  <2> QED
    BY <2>3 DEF InputsAreCounted
<1>6. Lineage' /\ LogsComeFirst' /\ ManifestNamesLogs'
  <2>1. \A d \in Children : /\ log[d] # None => log'[d] # None
                            /\ manifest'[d] # "absent" => manifest[d] # "absent"
    BY <1>4, NoneIsNothing DEF TypeOK, GroupInv, Logs
  <2> QED
    BY <1>1, <1>2, <2>1 DEF GroupInv, Lineage, LogsComeFirst, ManifestNamesLogs
<1>7. TurnsAreJudged' /\ StopsAreKept'
  BY DEF GroupInv, TurnsAreJudged, StopsAreKept
<1>8. SlotsAreCounted'
  BY <1>1, <1>2, <1>3 DEF GroupInv, SlotsAreCounted, Starting
<1>9. ArchiveHolds'
  <2>1. ASSUME NEW d \in attached, parent[d] \in lock.of
        PROVE  manifest'[d] # "live"
    BY <1>1, <2>1 DEF GroupInv, TypeOK, Manifests, ArchiveHolds
  <2> QED
    BY <1>1, <1>2, <1>3, <2>1 DEF ArchiveHolds
<1>10. SpawnHolds' /\ SendHolds' /\ CloseHolds'
  BY <1>2 DEF SpawnHolds, SendHolds, CloseHolds
<1>11. CallersWait'
  BY <1>1, <1>2, <1>3, Bounds DEF GroupInv, CallersWait
<1>12. NothingIsStranded'
  BY <1>1, <1>2 DEF GroupInv, TypeOK, NothingIsStranded
<1> QED
  BY <1>4, <1>5, <1>6, <1>7, <1>8, <1>9, <1>10, <1>11, <1>12 DEF GroupInv

LEMMA ArchiveSavedKeeps ==
  ASSUME GroupInv, ArchiveSaved
  PROVE  GroupInv'
<1> USE DEF ArchiveSaved, entryVars, taskVars, gateVars, startVars, countVars
<1>1. /\ lock # None /\ lock.op = "archive" /\ lock.stage = "root" /\ lock \in Operations /\ lock.by = Root
  BY DEF At, GroupInv, TypeOK, ArchiveHolds
<1>2. /\ lock' \in Operations /\ lock' # None /\ lock'.op = "archive" /\ lock'.stage = "dispose"
      /\ lock'.of = lock.of /\ lock'.by = lock.by /\ lock'.start = lock.start /\ lock'.held = lock.held
      /\ lock'.previous = lock.previous
  BY <1>1, NoneIsNothing DEF Operations
<1>3. Consumers' = Consumers
  BY DEF Consumers, Active
<1>4. TypeOK'
  BY <1>2 DEF GroupInv, TypeOK
<1>5. InputsAreCounted'
  BY <1>1, <1>2 DEF GroupInv, InputsAreCounted, Held
<1>6. Lineage' /\ LogsComeFirst' /\ ManifestNamesLogs'
  BY <1>1, <1>2 DEF GroupInv, Lineage, LogsComeFirst, ManifestNamesLogs
<1>7. TurnsAreJudged' /\ StopsAreKept'
  BY DEF GroupInv, TurnsAreJudged, StopsAreKept
<1>8. SlotsAreCounted'
  BY <1>1, <1>2, <1>3 DEF GroupInv, SlotsAreCounted, Starting
<1>9. ArchiveHolds' /\ SpawnHolds' /\ SendHolds' /\ CloseHolds'
  BY <1>1, <1>2, <1>3 DEF GroupInv, ArchiveHolds, SpawnHolds, SendHolds, CloseHolds
<1>10. CallersWait' /\ NothingIsStranded'
  BY <1>1, <1>2, <1>3 DEF GroupInv, CallersWait, NothingIsStranded
<1> QED
  BY <1>4, <1>5, <1>6, <1>7, <1>8, <1>9, <1>10 DEF GroupInv

LEMMA ArchiveDisposedKeeps ==
  ASSUME GroupInv, NEW c \in Children, ArchiveDisposed(c)
  PROVE  GroupInv'
<1> USE DEF ArchiveDisposed, taskVars, diskVars, startVars, countVars
<1>1. /\ lock # None /\ lock.op = "archive" /\ lock.stage = "dispose" /\ lock \in Operations /\ lock.by = Root
      /\ c \in lock.of /\ lock.of \in SUBSET Children /\ attached' = attached \ {c}
  BY DEF At, GroupInv, TypeOK, ArchiveHolds, Operations
<1>2. \/ lock' = None /\ lock.of = {c}
      \/ /\ lock' \in Operations /\ lock' # None /\ lock'.op = "archive" /\ lock'.stage = "dispose"
         /\ lock'.of = lock.of \ {c} /\ lock'.by = lock.by /\ lock'.start = lock.start /\ lock'.held = lock.held
         /\ lock'.previous = lock.previous
  <2>1. CASE lock' = [lock EXCEPT !.of = lock.of \ {c}]
    <3>1. lock' \in Operations
      BY <1>1, <2>1 DEF Operations
    <3>2. /\ lock'.op = "archive" /\ lock'.stage = "dispose"
          /\ lock'.of = lock.of \ {c} /\ lock'.by = lock.by /\ lock'.start = lock.start /\ lock'.held = lock.held
          /\ lock'.previous = lock.previous
      BY <1>1, <2>1 DEF Operations
    <3> QED
      BY <3>1, <3>2, NoneIsNothing
  <2> QED
    BY <2>1
<1>3. retiring' \subseteq Children
  BY DEF GroupInv, TypeOK
<1>4. Consumers' = Consumers /\ c \notin Consumers
  BY <1>1 DEF Consumers, Active, GroupInv, ArchiveHolds
<1>5. TypeOK'
  BY <1>2, <1>3 DEF GroupInv, TypeOK
<1>6. InputsAreCounted'
  BY <1>1, <1>2, Bounds DEF GroupInv, InputsAreCounted, Held
<1>7. Lineage' /\ LogsComeFirst' /\ ManifestNamesLogs'
  BY <1>1, <1>2 DEF GroupInv, Lineage, LogsComeFirst, ManifestNamesLogs
<1>8. TurnsAreJudged' /\ StopsAreKept'
  BY DEF GroupInv, TurnsAreJudged, StopsAreKept
<1>9. SlotsAreCounted'
  BY <1>1, <1>2, <1>4 DEF GroupInv, SlotsAreCounted, Starting
<1>10. ArchiveHolds' /\ SpawnHolds' /\ SendHolds' /\ CloseHolds'
  BY <1>1, <1>2, <1>4 DEF GroupInv, ArchiveHolds, SpawnHolds, SendHolds, CloseHolds
<1>11. CallersWait'
  BY <1>1, <1>2, <1>4, Bounds DEF GroupInv, CallersWait
<1>12. NothingIsStranded'
  BY <1>1, <1>2 DEF GroupInv, NothingIsStranded
<1> QED
  BY <1>5, <1>6, <1>7, <1>8, <1>9, <1>10, <1>11, <1>12 DEF GroupInv

LEMMA ArchiveUnsavedKeeps ==
  ASSUME GroupInv, ArchiveUnsaved
  PROVE  GroupInv'
<1> USE DEF entryVars, taskVars, startVars, countVars
<1>1. /\ lock # None /\ lock.op = "archive" /\ lock.of \in SUBSET Children /\ lock.by = Root /\ lock' = None
      /\ retiring' = {}
      /\ UNCHANGED <<entryVars, taskVars, sending, closing, closed, manifest, rootLog, startVars, countVars>>
  BY DEF ArchiveUnsaved, At, GroupInv, TypeOK, Operations, ArchiveHolds
<1>2. /\ \E D \in SUBSET Children : inbox' = [d \in Children |-> IF d \in D THEN 0 ELSE inbox[d]]
      /\ \E W \in SUBSET Children :
           log' = [d \in Children |-> IF d \in W THEN [inbox |-> 0, status |-> status[d]] ELSE log[d]]
  <2>1. PICK S \in SUBSET lock.of : \E c \in lock.of \ S :
          /\ inbox' = [d \in Children |-> IF d \in S \cup {c} THEN 0 ELSE inbox[d]]
          /\ \E W \in {S : f \in Faults \cap {"save"}} \cup {S \cup {c} : f \in Faults \cap {"cancel"}} :
               log' = [d \in Children |-> IF d \in W THEN [inbox |-> 0, status |-> status[d]] ELSE log[d]]
    BY DEF ArchiveUnsaved
  <2>2. PICK c \in lock.of \ S :
          /\ inbox' = [d \in Children |-> IF d \in S \cup {c} THEN 0 ELSE inbox[d]]
          /\ \E W \in {S : f \in Faults \cap {"save"}} \cup {S \cup {c} : f \in Faults \cap {"cancel"}} :
               log' = [d \in Children |-> IF d \in W THEN [inbox |-> 0, status |-> status[d]] ELSE log[d]]
    BY <2>1
  <2>3. S \cup {c} \in SUBSET Children /\ S \in SUBSET Children
    BY <1>1
  <2> QED
    BY <2>2, <2>3
<1>3. /\ inbox' \in [Children -> 0..MaxInputs] /\ log' \in [Children -> Logs \cup {None}]
      /\ \A d \in Children : /\ inbox'[d] \in {0, inbox[d]}
                             /\ log'[d] \in {log[d], [inbox |-> 0, status |-> status[d]]}
  BY <1>2, Bounds DEF GroupInv, TypeOK, Logs
<1>4. Consumers' = Consumers
  BY <1>1 DEF Consumers, Active
<1>5. TypeOK'
  BY <1>1, <1>3 DEF GroupInv, TypeOK
<1>6. InputsAreCounted'
  <2>1. \A d \in Children : Held(d)' = Held(d)
    BY <1>1, Bounds DEF Held
  <2>2. \A d \in Children : inbox[d] \in Nat /\ inputs \in Nat /\ Held(d) \in {0, 1} /\ inbox[d] + Held(d) <= inputs
    BY Bounds DEF GroupInv, TypeOK, InputsAreCounted, Held
  <2>3. \A d \in Children : inbox'[d] + Held(d)' <= inputs'
    BY <1>1, <1>3, <2>1, <2>2
  <2>4. \A d \in Children : log'[d] # None => log'[d].inbox <= inputs'
    BY <1>1, <1>3, <2>2 DEF GroupInv, InputsAreCounted
  <2> QED
    BY <2>3, <2>4 DEF InputsAreCounted
<1>7. Lineage' /\ LogsComeFirst' /\ ManifestNamesLogs'
  <2>1. \A d \in Children : log[d] # None => log'[d] # None
    BY <1>3, Bounds, NoneIsNothing DEF GroupInv, TypeOK, Logs
  <2> QED
    BY <1>1, <2>1 DEF GroupInv, Lineage, LogsComeFirst, ManifestNamesLogs
<1>8. TurnsAreJudged' /\ StopsAreKept'
  BY <1>1 DEF GroupInv, TurnsAreJudged, StopsAreKept
<1>9. SlotsAreCounted'
  BY <1>1, <1>4 DEF GroupInv, SlotsAreCounted, Starting
<1>10. ArchiveHolds' /\ SpawnHolds' /\ SendHolds' /\ CloseHolds'
  BY <1>1 DEF ArchiveHolds, SpawnHolds, SendHolds, CloseHolds
<1>11. CallersWait'
  BY <1>1, <1>4 DEF GroupInv, CallersWait
<1>12. NothingIsStranded'
  BY <1>1, <1>3 DEF GroupInv, TypeOK, NothingIsStranded
<1> QED
  BY <1>5, <1>6, <1>7, <1>8, <1>9, <1>10, <1>11, <1>12 DEF GroupInv

LEMMA ArchiveAbandonedKeeps ==
  ASSUME GroupInv, ArchiveAbandoned
  PROVE  GroupInv'
<1> USE DEF ArchiveAbandoned, entryVars, taskVars, startVars, countVars
<1>1. /\ lock # None /\ lock.op = "archive" /\ lock.by = Root /\ lock' = None
      /\ manifest' \in {manifest, lock.previous} /\ rootLog' \in {rootLog, manifest}
      /\ lock.previous \in Manifests
  BY DEF GroupInv, TypeOK, Operations, ArchiveHolds
<1>2. Consumers' = Consumers
  BY DEF Consumers, Active
<1>3. TypeOK'
  BY <1>1 DEF GroupInv, TypeOK
<1>4. InputsAreCounted'
  BY <1>1, Bounds DEF GroupInv, InputsAreCounted, Held
<1>5. Lineage' /\ LogsComeFirst' /\ ManifestNamesLogs'
  BY <1>1 DEF GroupInv, Lineage, LogsComeFirst, ManifestNamesLogs
<1>6. TurnsAreJudged' /\ StopsAreKept'
  BY DEF GroupInv, TurnsAreJudged, StopsAreKept
<1>7. SlotsAreCounted'
  BY <1>1, <1>2 DEF GroupInv, SlotsAreCounted, Starting
<1>8. ArchiveHolds' /\ SpawnHolds' /\ SendHolds' /\ CloseHolds'
  BY <1>1 DEF ArchiveHolds, SpawnHolds, SendHolds, CloseHolds
<1>9. CallersWait'
  BY <1>1, <1>2 DEF GroupInv, CallersWait
<1>10. NothingIsStranded'
  BY <1>1 DEF GroupInv, NothingIsStranded
<1> QED
  BY <1>3, <1>4, <1>5, <1>6, <1>7, <1>8, <1>9, <1>10 DEF GroupInv

LEMMA CloseJoinedKeeps ==
  ASSUME GroupInv, CloseJoined
  PROVE  GroupInv'
<1> USE DEF entryVars, taskVars, gateVars, startVars, countVars
<1>1. /\ lock # None /\ lock.op = "close" /\ lock' = None /\ closed
      /\ UNCHANGED <<entryVars, inbox, taskVars, sending, gateVars, manifest, rootLog, startVars, countVars>>
      /\ Consumers = {}
  BY DEF CloseJoined, At, GroupInv, CloseHolds, CallersWait, Consumers
<1>2. /\ log' \in [Children -> Logs \cup {None}]
      /\ \A d \in Children : log'[d] \in {log[d], [inbox |-> inbox[d], status |-> status[d]]}
  BY DEF CloseJoined, GroupInv, TypeOK, Logs
<1>3. Consumers' = Consumers
  BY <1>1 DEF Consumers, Active
<1>4. TypeOK'
  BY <1>1, <1>2 DEF GroupInv, TypeOK
<1>5. InputsAreCounted'
  <2>1. \A d \in Children : Held(d)' <= Held(d) /\ Held(d)' \in {0, 1}
    BY <1>1 DEF Held
  <2>2. \A d \in Children : inbox[d] \in Nat /\ inputs \in Nat /\ Held(d) \in {0, 1} /\ inbox[d] + Held(d) <= inputs
    BY Bounds DEF GroupInv, TypeOK, InputsAreCounted, Held
  <2>3. \A d \in Children : inbox'[d] + Held(d)' <= inputs'
    BY <1>1, <2>1, <2>2
  <2>4. \A d \in Children : log'[d] # None => log'[d].inbox <= inputs'
    BY <1>1, <1>2, <2>2 DEF GroupInv, InputsAreCounted
  <2> QED
    BY <2>3, <2>4 DEF InputsAreCounted
<1>6. Lineage' /\ LogsComeFirst' /\ ManifestNamesLogs'
  <2>1. \A d \in Children : log[d] # None => log'[d] # None
    BY <1>2, NoneIsNothing DEF GroupInv, TypeOK, Logs
  <2> QED
    BY <1>1, <2>1 DEF GroupInv, Lineage, LogsComeFirst, ManifestNamesLogs
<1>7. TurnsAreJudged' /\ StopsAreKept'
  BY <1>1 DEF GroupInv, TurnsAreJudged, StopsAreKept
<1>8. SlotsAreCounted'
  BY <1>1, <1>3 DEF GroupInv, SlotsAreCounted, Starting
<1>9. ArchiveHolds' /\ SpawnHolds' /\ SendHolds' /\ CloseHolds'
  BY <1>1 DEF ArchiveHolds, SpawnHolds, SendHolds, CloseHolds
<1>10. CallersWait'
  BY <1>1, <1>3 DEF GroupInv, CallersWait
<1>11. NothingIsStranded'
  BY <1>1 DEF GroupInv, NothingIsStranded
<1> QED
  BY <1>4, <1>5, <1>6, <1>7, <1>8, <1>9, <1>10, <1>11 DEF GroupInv

LEMMA RestartKeeps ==
  ASSUME GroupInv, Restart
  PROVE  GroupInv'
<1> USE DEF Restart, diskVars
<1>1. /\ attached' = {c \in Children : rootLog[c] = "live" /\ log[c] # None}
      /\ lock' = None /\ sending' = {} /\ stopped' = {} /\ byUser' = {} /\ closed' = FALSE
      /\ at' = [c \in Children |-> "none"]
  OBVIOUS
<1>2. Consumers' = {}
  BY <1>1 DEF Consumers, Active
<1>3. TypeOK'
  <2>1. \A c \in attached' : log[c] \in Logs
    BY <1>1 DEF GroupInv, TypeOK
  <2>2. inbox' \in [Children -> 0..MaxInputs]
    BY <2>1, Bounds DEF Logs
  <2>3. status' \in [Children -> Statuses]
    BY <2>1 DEF Logs, Statuses
  <2>4. crashes' \in 0..MaxCrashes
    BY Bounds DEF GroupInv, TypeOK
  <2> QED
    BY <1>1, <2>2, <2>3, <2>4 DEF GroupInv, TypeOK, Locations
<1>4. InputsAreCounted'
  BY <1>1, Bounds DEF GroupInv, TypeOK, InputsAreCounted, Held, Logs
<1>5. Lineage' /\ LogsComeFirst' /\ ManifestNamesLogs'
  BY <1>1 DEF GroupInv, Lineage, LogsComeFirst, ManifestNamesLogs
<1>6. TurnsAreJudged' /\ StopsAreKept'
  BY <1>1 DEF TurnsAreJudged, StopsAreKept
<1>7. SlotsAreCounted'
  BY <1>1, <1>2, FS_EmptySet, Bounds DEF GroupInv, TypeOK, SlotsAreCounted, Starting
<1>8. ArchiveHolds' /\ SpawnHolds' /\ SendHolds' /\ CloseHolds'
  BY <1>1 DEF ArchiveHolds, SpawnHolds, SendHolds, CloseHolds
<1>9. CallersWait'
  BY <1>1, <1>2 DEF CallersWait
<1>10. NothingIsStranded'
  BY <1>1 DEF NothingIsStranded
<1> QED
  BY <1>3, <1>4, <1>5, <1>6, <1>7, <1>8, <1>9, <1>10 DEF GroupInv

-----------------------------------------------------------------------------
(* The theorems.                                                           *)

LEMMA InitHolds ==
  ASSUME Init
  PROVE  GroupInv
<1> USE DEF Init
<1>1. Consumers = {}
  BY DEF Consumers, Active
<1>2. TypeOK
  <2>1. inbox \in [Children -> 0..MaxInputs] /\ log \in [Children -> Logs \cup {None}]
    BY Bounds
  <2>2. manifest \in Manifests /\ rootLog \in Manifests
    BY DEF Manifests
  <2>3. at \in [Children -> Locations] /\ status \in [Children -> Statuses]
    BY DEF Locations, Statuses
  <2>4. inputs \in 0..MaxInputs /\ crashes \in 0..MaxCrashes
    BY Bounds
  <2>5. parent \in [Children -> Children \cup {Root, None}]
    OBVIOUS
  <2> QED
    BY <2>1, <2>2, <2>3, <2>4, <2>5 DEF TypeOK
<1>3. SlotsAreCounted
  BY <1>1, FS_EmptySet, Bounds DEF SlotsAreCounted, Starting
<1>4. InputsAreCounted
  BY DEF InputsAreCounted, Held
<1>5. Lineage /\ LogsComeFirst /\ ManifestNamesLogs
  BY Bounds DEF Lineage, LogsComeFirst, ManifestNamesLogs
<1> QED
  BY <1>1, <1>2, <1>3, <1>4, <1>5
  DEF GroupInv, TurnsAreJudged, StopsAreKept, SpawnHolds, SendHolds, ArchiveHolds, CloseHolds, CallersWait, NothingIsStranded

LEMMA StutterKeeps ==
  ASSUME GroupInv, UNCHANGED vars
  PROVE  GroupInv'
<1> USE DEF vars, entryVars, taskVars, gateVars, diskVars, startVars, countVars
<1>1. Consumers' = Consumers
  BY DEF Consumers, Active
<1>2. TypeOK' /\ InputsAreCounted' /\ Lineage' /\ LogsComeFirst' /\ ManifestNamesLogs'
  BY DEF GroupInv, TypeOK, InputsAreCounted, Held, Lineage, LogsComeFirst, ManifestNamesLogs
<1>3. TurnsAreJudged' /\ StopsAreKept' /\ NothingIsStranded'
  BY DEF GroupInv, TurnsAreJudged, StopsAreKept, NothingIsStranded
<1>4. SlotsAreCounted'
  BY <1>1, SlotsOnlyShrink DEF GroupInv
<1>5. SpawnHolds' /\ SendHolds' /\ ArchiveHolds' /\ CloseHolds' /\ CallersWait'
  BY <1>1 DEF GroupInv, SpawnHolds, SendHolds, ArchiveHolds, CloseHolds, CallersWait
<1> QED
  BY <1>2, <1>3, <1>4, <1>5 DEF GroupInv

\* Every step of the family keeps the invariant.
LEMMA StepKeeps ==
  ASSUME GroupInv, [Next]_vars
  PROVE  GroupInv'
<1>1. ASSUME NEW c \in Children, Consumer(c)
      PROVE  GroupInv'
  BY <1>1, ConsumerKeeps
<1>2. ASSUME NEW c \in Children, GroupStep(c)
      PROVE  GroupInv'
  BY <1>2, SpawnAttachedKeeps, SpawnChildSavedKeeps, SpawnRootSavedKeeps, SendSavedKeeps, ArchiveDisposedKeeps
  DEF GroupStep
<1>3. ASSUME NEW c \in Children, Stop(c) \/ UserSubmits(c)
      PROVE  GroupInv'
  BY <1>3, StopKeeps, UserSubmitsKeeps
<1>4. ASSUME NEW c \in Children, NEW p \in Children \cup {Root}, Spawn(p, c)
      PROVE  GroupInv'
  BY <1>4, SpawnKeeps
<1>5. ASSUME NEW c \in Children, NEW p \in Children \cup {Root, None}, NEW start \in BOOLEAN, Send(p, c, start)
      PROVE  GroupInv'
  BY <1>5, SendKeeps
<1>6. CASE ArchiveRefused \/ Shutdown \/ RootSaves \/ \E c \in Children : Archive(c)
  BY <1>6, FlagKeeps
<1>7. CASE SpawnDetached \/ Abandoned
  BY <1>7, SpawnDetachedKeeps, AbandonedKeeps
<1>8. CASE ArchiveAdmitted \/ ArchiveJoined \/ ArchiveSaved \/ ArchiveUnsaved \/ ArchiveAbandoned
  BY <1>8, ArchiveAdmittedKeeps, ArchiveJoinedKeeps, ArchiveSavedKeeps, ArchiveUnsavedKeeps, ArchiveAbandonedKeeps
<1>9. CASE Close \/ CloseJoined \/ Restart
  BY <1>9, CloseKeeps, CloseJoinedKeeps, RestartKeeps
<1>10. CASE UNCHANGED vars
  BY <1>10, StutterKeeps
<1> QED
  BY <1>1, <1>2, <1>3, <1>4, <1>5, <1>6, <1>7, <1>8, <1>9, <1>10 DEF Next

\* The inductive invariant of the family.
THEOREM GroupInvariant == Spec => []GroupInv
<1>1. Init => GroupInv
  BY InitHolds
<1>2. GroupInv /\ [Next]_vars => GroupInv'
  BY StepKeeps
<1> QED
  BY <1>1, <1>2, PTL DEF Spec

\* Children, slots, logs and inboxes are accounted for together at every await of the group's operations
\* (agent/subagents.py): model starts stay within the limit, a manifest never names a log that is missing, no
\* input is left in an inbox that nobody will come to, and a closed group is quiet.
THEOREM GroupStaysAccounted == Spec => []GroupIsAccounted
<1>1. GroupInv => GroupIsAccounted
  BY DEF GroupInv, GroupIsAccounted, SlotsAreCounted, ModelStartsWithinLimit, CallersWait, ClosedIsQuiet
<1> QED
  BY <1>1, GroupInvariant, PTL


\* What a step of the family does to stopped children and to parents.
StopIsKept == \A c \in stopped : at'[c] # "opening" \/ at[c] = "opening"
ParentIsKept ==
  crashes' = crashes =>
    \A c \in attached' : manifest'[c] = "live" /\ parent[c] \in attached => parent[c] \in attached'

\* A consumer turns to the next input before it has run, or after a turn that ended well.
LEMMA ConsumerOpens ==
  ASSUME NEW c \in Children, TypeOK, at'[c] = "opening", at[c] # "opening", Consumer(c)
  PROVE  ~cancel[c] /\ (at[c] = "created" \/ (at[c] = "boundary" /\ status[c] = "completed"))
<1> USE DEF TypeOK, taskVars
<1>1. CASE Runs(c)
  BY <1>1 DEF Runs, TakesNext, Goes
<1>2. CASE Opens(c)
  BY <1>2 DEF Opens, Goes, Saved
<1>3. CASE TakesFollowUps(c)
  BY <1>3 DEF TakesFollowUps, Saved
<1>4. CASE Calls(c) \/ CallReturns(c)
  BY <1>4 DEF Calls, CallReturns, Goes
<1>5. CASE TurnEnds(c)
  BY <1>5 DEF TurnEnds, Goes
<1>6. CASE TurnInterrupted(c)
  BY <1>6 DEF TurnInterrupted, Goes
<1>7. CASE Settles(c)
  BY <1>7 DEF Settles, Goes
<1>8. CASE SettleFails(c)
  BY <1>8 DEF SettleFails, Goes
<1>9. CASE PassesBoundary(c)
  BY <1>9 DEF PassesBoundary, TakesNext, Goes
<1>10. CASE BoundaryCancelled(c)
  BY <1>10 DEF BoundaryCancelled, Goes
<1>11. CASE NeverRuns(c)
  BY <1>11 DEF NeverRuns, Goes
<1>12. CASE Finishes(c)
  BY <1>12 DEF Finishes, Created, Goes
<1>13. CASE FinishFails(c)
  BY <1>13 DEF FinishFails, Goes
<1>14. CASE FinishCancelled(c)
  BY <1>14 DEF FinishCancelled, Goes, Saved
<1>15. CASE Buried(c)
  BY <1>15 DEF Buried, Goes
<1> QED
  BY <1>1, <1>2, <1>3, <1>4, <1>5, <1>6, <1>7, <1>8, <1>9, <1>10, <1>11, <1>12, <1>13, <1>14, <1>15 DEF Consumer

LEMMA OperationsOpenNothing ==
  ASSUME TypeOK, NEW s \in Children, at'[s] = "opening", at[s] # "opening",
         \/ SpawnDetached \/ Abandoned
         \/ \E c \in Children : SpawnRootSaved(c) \/ SendSaved(c)
  PROVE  FALSE
<1>1. \A d \in Children : Returned[d] \in {at[d], "turn"}
  BY DEF TypeOK, Returned
<1>2. Returned \in [Children -> Locations]
  BY DEF TypeOK, Returned, Locations
<1> HIDE DEF Returned
<1>3. Cancelled => at'[s] \in {at[s], "settling"}
  BY DEF TypeOK, Cancelled
<1>4. ASSUME NEW c \in Children, Started(c, Returned)
      PROVE  at'[s] \in {Returned[s], "created"}
  BY <1>2, <1>4 DEF Started, Created
<1>5. CASE SpawnDetached \/ Abandoned
  BY <1>1, <1>3, <1>5 DEF SpawnDetached, Abandoned, Raised
<1>6. ASSUME NEW c \in Children, SpawnRootSaved(c) \/ SendSaved(c)
      PROVE  FALSE
  BY <1>1, <1>4, <1>6 DEF SpawnRootSaved, SendSaved
<1> QED
  BY <1>5, <1>6

LEMMA StepKeepsStops ==
  ASSUME GroupInv, [Next]_vars
  PROVE  StopIsKept
<1> SUFFICES ASSUME NEW s \in stopped, at'[s] = "opening", at[s] # "opening"
             PROVE  FALSE
  BY DEF StopIsKept
<1>1. TypeOK /\ CallersWait /\ s \in Children
  BY DEF GroupInv, TypeOK
<1>2. ASSUME NEW c \in Children, Consumer(c)
      PROVE  FALSE
  <2>1. c = s
    BY <1>1, <1>2, ConsumerMoves DEF Moves
  <2>2. ~cancel[s] /\ (at[s] = "created" \/ (at[s] = "boundary" /\ status[s] = "completed"))
    BY <1>1, <1>2, <2>1, ConsumerOpens
  <2> QED
    BY <2>2 DEF GroupInv, StopsAreKept, Ended
<1>3. CASE \/ SpawnDetached \/ Abandoned
           \/ \E c \in Children : SpawnRootSaved(c) \/ SendSaved(c)
  BY <1>1, <1>3, OperationsOpenNothing
<1>4. at' = at \/ at' = [c \in Children |-> "none"]
      \/ SpawnDetached \/ Abandoned \/ \E c \in Children : Consumer(c) \/ SpawnRootSaved(c) \/ SendSaved(c)
  <2>1. ASSUME NEW c \in Children,
               \/ SpawnAttached(c) \/ SpawnChildSaved(c) \/ ArchiveDisposed(c)
               \/ Stop(c) \/ UserSubmits(c) \/ Archive(c)
               \/ \E p \in Children \cup {Root} : Spawn(p, c)
               \/ \E p \in Children \cup {Root, None}, start \in BOOLEAN : Send(p, c, start)
        PROVE  at' = at
    BY <2>1 DEF SpawnAttached, SpawnChildSaved, ArchiveDisposed, Stop, UserSubmits, Archive, Spawn, Send, taskVars
  <2>2. ASSUME \/ ArchiveRefused \/ ArchiveAdmitted \/ ArchiveJoined \/ ArchiveSaved
               \/ ArchiveUnsaved \/ ArchiveAbandoned \/ Shutdown \/ Close \/ CloseJoined \/ RootSaves
        PROVE  at' = at
    BY <2>2 DEF ArchiveRefused, ArchiveAdmitted, ArchiveJoined, ArchiveSaved, ArchiveUnsaved,
                ArchiveAbandoned, Shutdown, Close, CloseJoined, RootSaves, taskVars
  <2>3. Restart => at' = [c \in Children |-> "none"]
    BY DEF Restart
  <2>4. UNCHANGED vars => at' = at
    BY DEF vars, taskVars
  <2> QED
    BY <2>1, <2>2, <2>3, <2>4 DEF Next, GroupStep
<1> QED
  BY <1>1, <1>2, <1>3, <1>4

LEMMA StepKeepsParents ==
  ASSUME GroupInv, [Next]_vars
  PROVE  ParentIsKept
<1> SUFFICES ASSUME crashes' = crashes, NEW d \in attached', manifest'[d] = "live",
                    parent[d] \in attached, parent[d] \notin attached'
             PROVE  FALSE
  BY DEF ParentIsKept
<1>1. SpawnDetached \/ Restart \/ \E c \in Children : ArchiveDisposed(c)
  <2>1. ASSUME NEW c \in Children, Consumer(c)
        PROVE  attached' = attached
    BY <2>1 DEF Consumer, entryVars, consumerRest, Runs, Opens, TakesFollowUps, Calls, CallReturns, TurnEnds,
                TurnInterrupted, Settles, SettleFails, PassesBoundary, BoundaryCancelled, NeverRuns, Finishes,
                FinishFails, FinishCancelled, Buried
  <2>2. ASSUME NEW c \in Children,
               \/ SpawnAttached(c) \/ SpawnChildSaved(c) \/ SpawnRootSaved(c) \/ SendSaved(c)
               \/ Stop(c) \/ UserSubmits(c) \/ Archive(c)
               \/ \E p \in Children \cup {Root} : Spawn(p, c)
               \/ \E p \in Children \cup {Root, None}, start \in BOOLEAN : Send(p, c, start)
        PROVE  attached \subseteq attached'
    BY <2>2 DEF SpawnAttached, SpawnChildSaved, SpawnRootSaved, SendSaved, Stop, UserSubmits, Archive, Spawn, Send,
                entryVars
  <2>3. ASSUME \/ Abandoned \/ ArchiveRefused \/ ArchiveAdmitted \/ ArchiveJoined \/ ArchiveSaved
               \/ ArchiveUnsaved \/ ArchiveAbandoned \/ Shutdown \/ Close \/ CloseJoined \/ RootSaves
        PROVE  attached' = attached
    BY <2>3 DEF Abandoned, ArchiveRefused, ArchiveAdmitted, ArchiveJoined, ArchiveSaved, ArchiveUnsaved,
                ArchiveAbandoned, Shutdown, Close, CloseJoined, RootSaves, entryVars
  <2>4. UNCHANGED vars => attached' = attached
    BY DEF vars, entryVars
  <2> QED
    BY <2>1, <2>2, <2>3, <2>4 DEF Next, GroupStep
<1>2. CASE SpawnDetached
  BY <1>2 DEF SpawnDetached, At, GroupInv, SpawnHolds
<1>3. CASE Restart
  BY <1>3, Bounds DEF Restart, GroupInv, TypeOK
<1>4. ASSUME NEW c \in Children, ArchiveDisposed(c)
      PROVE  FALSE
  BY <1>4 DEF ArchiveDisposed, At, GroupInv, ArchiveHolds
<1> QED
  BY <1>1, <1>2, <1>3, <1>4

\* A stopped child stays stopped until somebody starts it anew, and a live child keeps its parent for as long
\* as the process lives, whatever the rest of the family does meanwhile (agent/subagents.py).
THEOREM WordStaysKept == Spec => WordIsKept
<1>1. GroupInv /\ [Next]_vars => [StopIsKept]_vars /\ [ParentIsKept]_vars
  BY StepKeepsStops, StepKeepsParents
<1>2. Spec => [][StopIsKept]_vars /\ [][ParentIsKept]_vars
  BY <1>1, GroupInvariant, PTL DEF Spec
<1> QED
  BY <1>2 DEF WordIsKept, StopHolds, ParentsStay, StopIsKept, ParentIsKept
=============================================================================
