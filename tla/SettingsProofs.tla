--------------------------- MODULE SettingsProofs ---------------------------
(***************************************************************************)
(* Theorems of MCSettings.                                                 *)
(***************************************************************************)
EXTENDS MCSettings, TLAPS

(***************************************************************************)
(* Session families: who owns what, and what an open session knows.        *)
(***************************************************************************)

\* No uid, no process.
Nobody == Store!None
\* The two steps of an opening and of the judgement of a family, before the first and between them.
ToOpen == {<<"acquire", "decode">>, <<"decode">>}
ToJudge == {<<"lease", "age">>, <<"age">>}

\* What main may be doing.
RunState ==
    [at : {"off", "start", "open", "live", "closing"}, uid : Sessions \cup {Nobody, "new", "latest"},
     steps : ToOpen \cup {<<>>}, base : Nat, save : {Nobody, "exit", "handoff"},
     held : Sessions \cup {Nobody}, next : Sessions \cup {Nobody}, lent : Sessions \cup {Nobody}]
\* What a retention pass may be doing.
PassState ==
    [at : {"off", "family", "delete"}, todo : SUBSET Sessions, members : SUBSET (Sessions \X {"root", "kid"}),
     family : Sessions \cup {Nobody}, steps : ToJudge \cup {<<>>}, there : BOOLEAN, due : BOOLEAN, stale : BOOLEAN]

\* A run that is not live reserves nothing but the next session; what was lent to it is what it opens.
RunFits(r) ==
    /\ r.at \in {"off", "start", "open"} => r.save = Nobody /\ r.held = Nobody /\ r.next = Nobody
    /\ r.at = "off" => r.lent = Nobody
    /\ r.at = "start" => r.lent \in {Nobody, r.uid}
    /\ r.at = "open" => r.uid \in Sessions /\ r.steps \in ToOpen /\ r.lent \in {Nobody, r.uid}
    /\ r.at \in {"live", "closing"} => r.uid \in Sessions /\ r.lent = Nobody
    /\ r.at = "live" => (r.held # Nobody <=> r.save = "handoff")
    /\ r.at = "closing" => r.save = Nobody /\ r.held = Nobody

\* The pass has its family's lease.
Sweeping(s) == s.at = "delete" \/ (s.at = "family" /\ s.steps = <<"age">>)
\* A pass runs while the session is open, and has a family while it judges or deletes.
PassFits(r, s) ==
    /\ s.at # "off" => r.at \in {"live", "closing"}
    /\ s.at = "delete" \/ (s.at = "family" /\ s.steps # <<>>) => s.family \in Sessions

\* What one process owns, it owns once: the session it runs, the one it has reserved, the one it hands on to and
\* the family it sweeps are four.
OwnsOnce(r, s) ==
    /\ r.held # Nobody => r.held # r.uid /\ r.held # r.next
    /\ r.next # Nobody => r.next # r.uid
    /\ Sweeping(s) => s.family # r.uid /\ s.family # r.held /\ s.family # r.next
\* Run r and pass s of one process go together.
Fits(r, s) == r \in RunState /\ s \in PassState /\ RunFits(r) /\ PassFits(r, s) /\ OwnsOnce(r, s)

\* A process with run r and pass s owns family u.
Owns(r, s, u) ==
    \/ r.at \in {"live", "closing"} /\ r.uid = u
    \/ r.at = "open" /\ r.uid = u /\ (r.lent = u \/ r.steps = <<"decode">>)
    \/ u = r.held \/ u = r.next \/ u = r.lent
    \/ Sweeping(s) /\ s.family = u

\* A live session knows how many records its log has, and that it is there.
Knows(r, ls, n) == r.at = "live" => r.base = n[r.uid] /\ (r.base > 0 => <<r.uid, "root">> \in ls)
\* A family that is to go is past the retention time, as long as its root is there.
IsDue(s, ls, a) == s.at = "delete" /\ s.due /\ <<s.family, "root">> \in ls => s.family \in a

\* What the storage may be.
StorageIs(ls, a, n, l) ==
    /\ ls \subseteq Sessions \X {"root", "kid"} /\ a \subseteq Sessions /\ n \in [Sessions -> Nat]
    /\ l \in [Sessions -> Procs \cup {Nobody}]
\* Process p owns what its run and its pass say.
Accounts(p, r, s, l) == \A u \in Sessions : l[u] = p <=> Owns(r, s, u)

\* The inductive invariant of the session families.
StoreInv ==
    /\ StorageIs(logs, aged, saves, storeLease)
    /\ run \in [Procs -> RunState] /\ pass \in [Procs -> PassState]
    /\ \A p \in Procs : Fits(run[p], pass[p]) /\ Accounts(p, run[p], pass[p], storeLease)
    /\ \A p \in Procs : Knows(run[p], logs, saves) /\ IsDue(pass[p], logs, aged)

-----------------------------------------------------------------------------
(* What a step of one process does.                                        *)

\* Process p runs r and sweeps s after the step, the others what they did.
Becomes(p, r, s) ==
    /\ run' = [q \in Procs |-> run'[q]] /\ pass' = [q \in Procs |-> pass'[q]]
    /\ run'[p] = r /\ pass'[p] = s
    /\ \A q \in Procs \ {p} : run'[q] = run[q] /\ pass'[q] = pass[q]

LEMMA Turns ==
  ASSUME StoreInv, NEW p \in Procs, NEW r, NEW s,
         run' = [run EXCEPT ![p] = r] \/ (run' = run /\ r = run[p]),
         pass' = [pass EXCEPT ![p] = s] \/ (pass' = pass /\ s = pass[p])
  PROVE  Becomes(p, r, s)
  <1>1. run = [q \in Procs |-> run[q]] /\ pass = [q \in Procs |-> pass[q]]
    BY DEF StoreInv
  <1>2. run' = [q \in Procs |-> run'[q]] /\ run'[p] = r /\ \A q \in Procs \ {p} : run'[q] = run[q]
    BY <1>1
  <1>3. pass' = [q \in Procs |-> pass'[q]] /\ pass'[p] = s /\ \A q \in Procs \ {p} : pass'[q] = pass[q]
    BY <1>1
  <1> QED BY <1>2, <1>3 DEF Becomes

\* The leases p holds after the step are those r and s say, and no other process's have changed.
Leases(p, r, s, m) ==
    /\ m \in [Sessions -> Procs \cup {Nobody}]
    /\ Accounts(p, r, s, m)
    /\ \A q \in Procs \ {p}, u \in Sessions : m[u] = q <=> storeLease[u] = q

\* p takes a family nobody else has.
LEMMA Takes ==
  ASSUME StoreInv, NEW p \in Procs, NEW r, NEW s, NEW x \in Sessions, storeLease[x] \in {Nobody, p},
         \A u \in Sessions : Owns(r, s, u) <=> Owns(run[p], pass[p], u) \/ u = x
  PROVE  Leases(p, r, s, [storeLease EXCEPT ![x] = p])
  <1> DEFINE m == [storeLease EXCEPT ![x] = p]
  <1>1. storeLease \in [Sessions -> Procs \cup {Nobody}] /\ Accounts(p, run[p], pass[p], storeLease)
    BY DEF StoreInv, StorageIs
  <1>2. m \in [Sessions -> Procs \cup {Nobody}] /\ m[x] = p /\ \A u \in Sessions \ {x} : m[u] = storeLease[u]
    BY <1>1
  <1> HIDE DEF m
  <1>3. Accounts(p, r, s, m)
    BY <1>1, <1>2 DEF Accounts
  <1>4. Nobody \notin Procs
    BY StoreConstants DEF Nobody, Store!None
  <1> QED BY <1>2, <1>3, <1>4 DEF Leases, m

\* p gives one of its families up.
LEMMA GivesUp ==
  ASSUME StoreInv, NEW p \in Procs, NEW r, NEW s, NEW x \in Sessions, Owns(run[p], pass[p], x),
         \A u \in Sessions : Owns(r, s, u) <=> Owns(run[p], pass[p], u) /\ u # x
  PROVE  Leases(p, r, s, [storeLease EXCEPT ![x] = Nobody])
  <1> DEFINE m == [storeLease EXCEPT ![x] = Nobody]
  <1>1. storeLease \in [Sessions -> Procs \cup {Nobody}] /\ Accounts(p, run[p], pass[p], storeLease)
    BY DEF StoreInv, StorageIs
  <1>2. m \in [Sessions -> Procs \cup {Nobody}] /\ m[x] = Nobody /\ \A u \in Sessions \ {x} : m[u] = storeLease[u]
    BY <1>1
  <1> HIDE DEF m
  <1>3. Nobody \notin Procs /\ storeLease[x] = p
    BY <1>1, StoreConstants DEF Nobody, Store!None, Accounts
  <1>4. Accounts(p, r, s, m)
    BY <1>1, <1>2, <1>3 DEF Accounts
  <1> QED BY <1>2, <1>3, <1>4 DEF Leases, m

\* p keeps what it has.
LEMMA KeepsLeases ==
  ASSUME StoreInv, NEW p \in Procs, NEW r, NEW s,
         \A u \in Sessions : Owns(r, s, u) <=> Owns(run[p], pass[p], u)
  PROVE  Leases(p, r, s, storeLease)
  BY DEF StoreInv, StorageIs, Leases, Accounts

\* What a step leaves of the storage of the sessions other processes have open or sweep.
LEMMA StoreMoves ==
  ASSUME StoreInv, NEW p \in Procs, NEW r, NEW s, Becomes(p, r, s), Fits(r, s), Leases(p, r, s, storeLease'),
         StorageIs(logs', aged', saves', storeLease'),
         Knows(r, logs', saves'), IsDue(s, logs', aged'),
         \A q \in Procs \ {p} : Knows(run[q], logs', saves') /\ IsDue(pass[q], logs', aged')
  PROVE  StoreInv'
  <1>1. \A q \in Procs : Fits(run'[q], pass'[q])
    BY DEF StoreInv, Becomes
  <1>2. run' \in [Procs -> RunState] /\ pass' \in [Procs -> PassState]
    BY <1>1 DEF Becomes, Fits
  <1>3. \A q \in Procs : Accounts(q, run'[q], pass'[q], storeLease')
    <2>1. Accounts(p, run'[p], pass'[p], storeLease')
      BY DEF Leases, Becomes
    <2>2. ASSUME NEW q \in Procs \ {p} PROVE Accounts(q, run'[q], pass'[q], storeLease')
      <3>1. Accounts(q, run[q], pass[q], storeLease) /\ run'[q] = run[q] /\ pass'[q] = pass[q]
        BY DEF StoreInv, Becomes
      <3> QED BY <3>1 DEF Leases, Accounts
    <2> QED BY <2>1, <2>2
  <1>4. \A q \in Procs : Knows(run'[q], logs', saves') /\ IsDue(pass'[q], logs', aged')
    BY DEF Becomes
  <1> QED BY <1>1, <1>2, <1>3, <1>4 DEF StoreInv

\* The same, when the storage rests.
LEMMA StoreRests ==
  ASSUME StoreInv, NEW p \in Procs, NEW r, NEW s, Becomes(p, r, s), Fits(r, s), Leases(p, r, s, storeLease'),
         logs' = logs, aged' = aged, saves' = saves,
         Knows(r, logs, saves), IsDue(s, logs, aged)
  PROVE  StoreInv'
  <1>1. StorageIs(logs', aged', saves', storeLease')
    BY DEF StoreInv, StorageIs, Leases
  <1>2. Knows(r, logs', saves') /\ IsDue(s, logs', aged')
    BY DEF Knows, IsDue
  <1>3. \A q \in Procs \ {p} : Knows(run[q], logs', saves') /\ IsDue(pass[q], logs', aged')
    BY DEF StoreInv, Knows, IsDue
  <1> QED BY <1>1, <1>2, <1>3, StoreMoves

-----------------------------------------------------------------------------
(* Openings.                                                               *)

\* The one run with these fields, and the one pass.
RunOf(a, u, t, b, v, h, n, l) ==
    [at : {a}, uid : {u}, steps : {t}, base : {b}, save : {v}, held : {h}, next : {n}, lent : {l}]
PassOf(a, d, m, f, t, h, e, l) ==
    [at : {a}, todo : {d}, members : {m}, family : {f}, steps : {t}, there : {h}, due : {e}, stale : {l}]

LEMMA RunIs ==
  ASSUME NEW a, NEW u, NEW t, NEW b, NEW v, NEW h, NEW n, NEW l, NEW r \in RunOf(a, u, t, b, v, h, n, l)
  PROVE  /\ r.at = a /\ r.uid = u /\ r.steps = t /\ r.base = b /\ r.save = v /\ r.held = h /\ r.next = n /\ r.lent = l
         /\ /\ a \in {"off", "start", "open", "live", "closing"} /\ u \in Sessions \cup {Nobody, "new", "latest"}
            /\ t \in ToOpen \cup {<<>>} /\ b \in Nat /\ v \in {Nobody, "exit", "handoff"}
            /\ h \in Sessions \cup {Nobody} /\ n \in Sessions \cup {Nobody} /\ l \in Sessions \cup {Nobody}
            => r \in RunState
  BY DEF RunOf, RunState

LEMMA PassIs ==
  ASSUME NEW a, NEW d, NEW m, NEW f, NEW t, NEW h, NEW e, NEW l, NEW s \in PassOf(a, d, m, f, t, h, e, l)
  PROVE  /\ s.at = a /\ s.todo = d /\ s.members = m /\ s.family = f /\ s.steps = t /\ s.there = h /\ s.due = e
         /\ s.stale = l
         /\ /\ a \in {"off", "family", "delete"} /\ d \in SUBSET Sessions
            /\ m \in SUBSET (Sessions \X {"root", "kid"}) /\ f \in Sessions \cup {Nobody}
            /\ t \in ToJudge \cup {<<>>} /\ h \in BOOLEAN /\ e \in BOOLEAN /\ l \in BOOLEAN
            => s \in PassState
  BY DEF PassOf, PassState

\* The fields of a process that stands well.
LEMMA StoreOf ==
  ASSUME StoreInv, NEW p \in Procs
  PROVE  LET r == run[p]
             s == pass[p]
         IN  /\ r \in RunState /\ s \in PassState /\ RunFits(r) /\ PassFits(r, s) /\ OwnsOnce(r, s)
             /\ Knows(r, logs, saves) /\ IsDue(s, logs, aged)
             /\ \A u \in Sessions : storeLease[u] = p <=> Owns(r, s, u)
  BY DEF StoreInv, Fits, Accounts

LEMMA RunFields ==
  ASSUME NEW r \in RunState
  PROVE  /\ r.at \in {"off", "start", "open", "live", "closing"}
         /\ r.uid \in Sessions \cup {Nobody, "new", "latest"}
         /\ r.steps \in {<<"acquire", "decode">>, <<"decode">>, <<>>} /\ r.base \in Nat
         /\ r.save \in {Nobody, "exit", "handoff"} /\ r.held \in Sessions \cup {Nobody}
         /\ r.next \in Sessions \cup {Nobody} /\ r.lent \in Sessions \cup {Nobody}
         /\ r \in RunOf(r.at, r.uid, r.steps, r.base, r.save, r.held, r.next, r.lent)
  BY DEF RunState, ToOpen, RunOf

LEMMA PassFields ==
  ASSUME NEW s \in PassState
  PROVE  /\ s.at \in {"off", "family", "delete"} /\ s.todo \in SUBSET Sessions
         /\ s.members \in SUBSET (Sessions \X {"root", "kid"}) /\ s.family \in Sessions \cup {Nobody}
         /\ s.steps \in {<<"lease", "age">>, <<"age">>, <<>>}
         /\ s.there \in BOOLEAN /\ s.due \in BOOLEAN /\ s.stale \in BOOLEAN
         /\ s \in PassOf(s.at, s.todo, s.members, s.family, s.steps, s.there, s.due, s.stale)
  BY DEF PassState, ToJudge, PassOf

\* A uid is not nobody and not a word of the command line.
LEMMA Uids ==
  /\ \A u \in Sessions : u # Nobody /\ u # "new" /\ u # "latest"
  /\ Nobody = "none" /\ Nobody \notin Procs
  BY StoreConstants DEF Nobody, Store!None

\* The heads and tails of the steps.
LEMMA Steps ==
  /\ Head(<<"acquire", "decode">>) = "acquire" /\ Tail(<<"acquire", "decode">>) = <<"decode">>
  /\ Head(<<"decode">>) = "decode" /\ Len(<<"acquire", "decode">>) = 2 /\ Len(<<"decode">>) = 1
  /\ Head(<<"lease", "age">>) = "lease" /\ Tail(<<"lease", "age">>) = <<"age">>
  /\ Head(<<"age">>) = "age" /\ Len(<<"lease", "age">>) = 2 /\ Len(<<"age">>) = 1
  /\ <<"lease", "age">> # <<"age">> /\ <<>> # <<"age">> /\ <<"acquire", "decode">> # <<"decode">> /\ <<>> # <<"decode">>
  /\ <<>> # <<"lease", "age">> /\ <<>> # <<"acquire", "decode">>
  OBVIOUS

LEMMA OffIs == Store!Off \in RunOf("off", Nobody, <<>>, 0, Nobody, Nobody, Nobody, Nobody)
  BY DEF Store!Off, Nobody, RunOf

LEMMA NoPassIs == Store!NoPass \in PassOf("off", {}, {}, Nobody, <<>>, FALSE, FALSE, FALSE)
  BY DEF Store!NoPass, Nobody, PassOf

\* A run that has ended, and no pass.
LEMMA OffFits ==
  /\ Fits(Store!Off, Store!NoPass)
  /\ \A u \in Sessions : ~Owns(Store!Off, Store!NoPass, u)
  /\ \A ls, n, a : Knows(Store!Off, ls, n) /\ IsDue(Store!NoPass, ls, a)
  <1> DEFINE r == Store!Off
             s == Store!NoPass
  <1>1. /\ r.at = "off" /\ r.uid = Nobody /\ r.steps = <<>> /\ r.save = Nobody /\ r.held = Nobody /\ r.next = Nobody
        /\ r.lent = Nobody /\ r \in RunState
    BY OffIs, RunIs
  <1>2. s.at = "off" /\ s \in PassState
    BY NoPassIs DEF PassOf, PassState
  <1> HIDE DEF r, s
  <1>3. Fits(r, s)
    BY <1>1, <1>2 DEF Fits, RunFits, PassFits, OwnsOnce, Sweeping
  <1>4. \A u \in Sessions : ~Owns(r, s, u)
    BY <1>1, <1>2, Uids DEF Owns, Sweeping
  <1>5. \A ls, n, a : Knows(r, ls, n) /\ IsDue(s, ls, a)
    BY <1>1, <1>2 DEF Knows, IsDue
  <1> QED BY <1>3, <1>4, <1>5 DEF r, s

\* main's finally blocks, or a death.
LEMMA ExitKeeps ==
  ASSUME StoreInv, NEW p \in Procs, Store!Exit(p), logs' = logs, aged' = aged, saves' = saves
  PROVE  StoreInv'
  <1> DEFINE m == [u \in Sessions |-> IF storeLease[u] = p THEN Nobody ELSE storeLease[u]]
  <1>1. Becomes(p, Store!Off, Store!NoPass)
    BY Turns DEF Store!Exit, Store!SetRun, Store!SetPass
  <1>2. storeLease' = m
    BY DEF Store!Exit, Store!Without, Nobody
  <1>3. storeLease \in [Sessions -> Procs \cup {Nobody}] /\ Nobody \notin Procs
    BY StoreConstants DEF StoreInv, StorageIs, Nobody, Store!None
  <1>4. /\ m \in [Sessions -> Procs \cup {Nobody}]
        /\ \A u \in Sessions : m[u] # p /\ \A q \in Procs \ {p} : m[u] = q <=> storeLease[u] = q
    BY <1>3
  <1> HIDE DEF m
  <1>5. Leases(p, Store!Off, Store!NoPass, m)
    BY <1>4, OffFits DEF Leases, Accounts
  <1> QED BY <1>1, <1>2, <1>5, OffFits, StoreRests

\* A process that starts has nothing yet.
LEMMA StartKeeps ==
  ASSUME StoreInv, NEW p \in Procs, Store!Start(p)
  PROVE  StoreInv'
  <1>1. PICK want \in {"new", "latest"} \cup Store!Rooted : run' = [run EXCEPT ![p] = [Store!Off EXCEPT !.at = "start", !.uid = want]]
    BY DEF Store!Start, Store!SetRun
  <1> DEFINE r == [Store!Off EXCEPT !.at = "start", !.uid = want]
             s == pass[p]
  <1>2. r \in RunOf("start", want, <<>>, 0, Nobody, Nobody, Nobody, Nobody)
    BY OffIs DEF RunOf
  <1>3. want \in Sessions \cup {Nobody, "new", "latest"} /\ Nobody \notin Sessions
    BY <1>1, StoreConstants DEF Nobody, Store!None, Store!Rooted
  <1>4. /\ run[p] \in RunState /\ s \in PassState /\ run[p].at = "off" /\ s.at = "off" /\ RunFits(run[p])
    BY DEF StoreInv, Fits, PassFits, Store!Start
  <1> HIDE DEF r, s
  <1>a. /\ r.at = "start" /\ r.uid = want /\ r.steps = <<>> /\ r.save = Nobody /\ r.held = Nobody /\ r.next = Nobody
        /\ r.lent = Nobody /\ r \in RunState
    BY <1>2, <1>3, RunIs
  <1>5. Fits(r, s)
    BY <1>a, <1>4 DEF Fits, RunFits, PassFits, OwnsOnce, Sweeping
  <1>6. \A u \in Sessions : Owns(r, s, u) <=> Owns(run[p], pass[p], u)
    BY <1>a, <1>3, <1>4 DEF Owns, Sweeping, RunFits, s
  <1>7. Becomes(p, r, s)
    BY <1>1, Turns DEF Store!Start, r, s
  <1>8. Leases(p, r, s, storeLease)
    BY <1>6, KeepsLeases
  <1>9. Knows(r, logs, saves) /\ IsDue(s, logs, aged)
    BY <1>a, <1>4 DEF Knows, IsDue
  <1> QED BY <1>5, <1>7, <1>8, <1>9, StoreRests DEF Store!Start, Store!Storage

\* create_session and ensure_ownership: a uid nobody has used.
LEMMA CreateKeeps ==
  ASSUME StoreInv, NEW p \in Procs, Store!Create(p)
  PROVE  StoreInv'
  <1>1. PICK u \in Sessions :
          /\ saves[u] = 0 /\ storeLease[u] = Nobody
          /\ storeLease' = [storeLease EXCEPT ![u] = p]
          /\ run' = [run EXCEPT ![p] = [Store!Off EXCEPT !.at = "live", !.uid = u]]
    BY DEF Store!Create, Store!SetRun, Nobody
  <1> DEFINE r == [Store!Off EXCEPT !.at = "live", !.uid = u]
             s == pass[p]
  <1>2. r \in RunOf("live", u, <<>>, 0, Nobody, Nobody, Nobody, Nobody)
    BY OffIs DEF RunOf
  <1>3. /\ run[p] \in RunState /\ s \in PassState /\ run[p].at = "start" /\ run[p].uid = "new" /\ RunFits(run[p])
        /\ PassFits(run[p], s) /\ run[p].lent \in Sessions \cup {Nobody}
    BY StoreOf, RunFields DEF Store!Create
  <1>4. run[p].lent = Nobody /\ s.at = "off" /\ run[p].held = Nobody /\ run[p].next = Nobody
    BY <1>3, Uids, PassFields DEF RunFits, PassFits
  <1>5. Becomes(p, r, s)
    BY <1>1, Turns DEF Store!Create
  <1> HIDE DEF r, s
  <1>6. /\ r.at = "live" /\ r.uid = u /\ r.steps = <<>> /\ r.base = 0 /\ r.save = Nobody /\ r.held = Nobody
        /\ r.next = Nobody /\ r.lent = Nobody /\ r \in RunState
    BY <1>2, RunIs
  <1>7. Fits(r, s)
    BY <1>3, <1>4, <1>6, Uids DEF Fits, RunFits, PassFits, OwnsOnce, Sweeping
  <1>8. \A v \in Sessions : Owns(r, s, v) <=> Owns(run[p], pass[p], v) \/ v = u
    BY <1>3, <1>4, <1>6, Uids DEF Owns, Sweeping, s
  <1>9. Leases(p, r, s, storeLease')
    BY <1>1, <1>8, Takes
  <1>10. Knows(r, logs, saves) /\ IsDue(s, logs, aged)
    BY <1>1, <1>4, <1>6 DEF Knows, IsDue
  <1> QED BY <1>5, <1>7, <1>9, <1>10, StoreRests DEF Store!Create, Store!Storage

\* resolve_uid: a session that was lent is the one that is opened.
LEMMA LocateKeeps ==
  ASSUME StoreInv, NEW p \in Procs, Store!Locate(p)
  PROVE  StoreInv'
  <1>1. PICK u \in Store!Named(run[p].uid) :
          IF u \in Store!Rooted
          THEN /\ run' = [run EXCEPT ![p] = [run[p] EXCEPT !.at = "open", !.uid = u, !.steps = Store!OpenOrder]]
               /\ storeLease' = storeLease /\ pass' = pass
          ELSE Store!Exit(p)
    BY DEF Store!Locate, Store!SetRun
  <1>2. logs' = logs /\ aged' = aged /\ saves' = saves /\ run[p].at = "start"
    BY DEF Store!Locate, Store!Storage
  <1>3. CASE u \notin Store!Rooted
    BY <1>1, <1>2, <1>3, ExitKeeps
  <1>4. CASE u \in Store!Rooted
    <2> DEFINE o == run[p]
               r == [o EXCEPT !.at = "open", !.uid = u, !.steps = Store!OpenOrder]
               s == pass[p]
    <2>1. /\ o \in RunState /\ s \in PassState /\ o.at = "start" /\ RunFits(o) /\ PassFits(o, s)
          /\ o.lent \in Sessions \cup {Nobody} /\ o.base \in Nat
          /\ o \in RunOf(o.at, o.uid, o.steps, o.base, o.save, o.held, o.next, o.lent)
      BY <1>2, StoreOf, RunFields
    <2>2. u \in Sessions
      BY <1>4 DEF Store!Rooted
    <2>3. o.lent \in {Nobody, u}
      BY <1>1, <2>1, Uids DEF RunFits, Store!Named
    <2>4. s.at = "off" /\ o.held = Nobody /\ o.next = Nobody /\ o.save = Nobody
      BY <2>1, PassFields DEF RunFits, PassFits
    <2>5. Becomes(p, r, s)
      BY <1>1, <1>4, Turns
    <2>6. r \in RunOf("open", u, <<"acquire", "decode">>, o.base, o.save, o.held, o.next, o.lent)
      <3> HIDE DEF o
      <3> QED BY <2>1 DEF RunOf, Store!OpenOrder
    <2> HIDE DEF r, s, o
    <2>7. /\ r.at = "open" /\ r.uid = u /\ r.steps = <<"acquire", "decode">> /\ r.base = o.base /\ r.save = Nobody
          /\ r.held = Nobody /\ r.next = Nobody /\ r.lent = o.lent /\ r \in RunState
      <3>1. <<"acquire", "decode">> \in ToOpen \cup {<<>>}
        BY DEF ToOpen
      <3> QED BY <2>1, <2>2, <2>4, <2>6, <3>1, RunIs
    <2>8. Fits(r, s)
      BY <2>1, <2>2, <2>3, <2>4, <2>7, Uids DEF Fits, RunFits, PassFits, OwnsOnce, Sweeping, ToOpen
    <2>9. \A v \in Sessions : Owns(r, s, v) <=> Owns(o, s, v)
      BY <2>1, <2>3, <2>4, <2>7, Uids, Steps DEF Owns, Sweeping
    <2>10. Leases(p, r, s, storeLease)
      BY <2>9, KeepsLeases DEF o, s
    <2>11. Knows(r, logs, saves) /\ IsDue(s, logs, aged)
      BY <2>4, <2>7 DEF Knows, IsDue
    <2> QED BY <1>1, <1>2, <1>4, <2>5, <2>8, <2>10, <2>11, StoreRests
  <1> QED BY <1>3, <1>4

\* The steps that are left are as the order says.
LEMMA AtStep ==
  ASSUME StoreInv, NEW p \in Procs, NEW step \in {"acquire", "decode"}, Store!Opening(p, step)
  PROVE  LET r == run[p] IN
         /\ r.at = "open" /\ r.steps = (IF step = "acquire" THEN <<"acquire", "decode">> ELSE <<"decode">>)
         /\ r.uid \in Sessions /\ r.lent \in {Nobody, r.uid} /\ r.save = Nobody /\ r.held = Nobody /\ r.next = Nobody
         /\ pass[p].at = "off" /\ r \in RunState /\ pass[p] \in PassState /\ r.base \in Nat
         /\ r \in RunOf(r.at, r.uid, r.steps, r.base, r.save, r.held, r.next, r.lent)
  <1>1. /\ run[p].at = "open" /\ Head(run[p].steps) = step /\ RunFits(run[p]) /\ PassFits(run[p], pass[p])
        /\ run[p] \in RunState /\ pass[p] \in PassState
    BY StoreOf DEF Store!Opening
  <1>2. run[p].steps \in ToOpen
    BY <1>1 DEF RunFits
  <1> QED BY <1>1, <1>2, Steps, RunFields, PassFields DEF RunFits, PassFits, ToOpen

\* acquire_lease, or the lease the previous run reserved.
LEMMA AcquireKeeps ==
  ASSUME StoreInv, NEW p \in Procs, Store!Acquire(p)
  PROVE  StoreInv'
  <1> DEFINE o == run[p]
             u == o.uid
             s == pass[p]
             r == Store!Opened(o)
  <1>1. /\ IF o.lent = u \/ storeLease[u] = Nobody
           THEN storeLease' = [storeLease EXCEPT ![u] = p] /\ run' = [run EXCEPT ![p] = r] /\ pass' = pass
           ELSE Store!Exit(p)
        /\ Store!Opening(p, "acquire") /\ logs' = logs /\ aged' = aged /\ saves' = saves
    BY DEF Store!Acquire, Store!SetRun, Store!Storage, Nobody
  <1>2. CASE ~(o.lent = u \/ storeLease[u] = Nobody)
    BY <1>1, <1>2, ExitKeeps
  <1>3. CASE o.lent = u \/ storeLease[u] = Nobody
    <2>1. /\ o.at = "open" /\ o.steps = <<"acquire", "decode">> /\ u \in Sessions /\ o.lent \in {Nobody, u}
          /\ o.save = Nobody /\ o.held = Nobody /\ o.next = Nobody /\ s.at = "off" /\ s \in PassState /\ o.base \in Nat
          /\ o \in RunOf(o.at, u, o.steps, o.base, o.save, o.held, o.next, o.lent)
      BY <1>1, AtStep
    <2>2. r = [o EXCEPT !.steps = Tail(@)]
      BY <2>1, Steps DEF Store!Opened
    <2>3. Becomes(p, r, s)
      BY <1>1, <1>3, Turns
    <2>4. storeLease[u] \in {Nobody, p}
      <3>1. o.lent = u => Owns(o, s, u)
        BY DEF Owns
      <3> QED BY <1>3, <2>1, <3>1, StoreOf
    <2>5. r \in RunOf("open", u, <<"decode">>, o.base, Nobody, Nobody, Nobody, o.lent)
      <3>1. r = [o EXCEPT !.steps = <<"decode">>]
        BY <2>1, <2>2, Steps
      <3> HIDE DEF r, o, u
      <3> QED BY <2>1, <3>1 DEF RunOf
    <2> HIDE DEF r, o, s, u
    <2>6. /\ r.at = "open" /\ r.uid = u /\ r.steps = <<"decode">> /\ r.base = o.base /\ r.save = Nobody
          /\ r.held = Nobody /\ r.next = Nobody /\ r.lent = o.lent /\ r \in RunState
      <3>1. <<"decode">> \in ToOpen \cup {<<>>} /\ o.lent \in Sessions \cup {Nobody}
        BY <2>1 DEF ToOpen
      <3> QED BY <2>1, <2>5, <3>1, RunIs
    <2>7. Fits(r, s)
      BY <2>1, <2>6, Uids DEF Fits, RunFits, PassFits, OwnsOnce, Sweeping, ToOpen
    <2>8. \A v \in Sessions : Owns(r, s, v) <=> Owns(o, s, v) \/ v = u
      BY <2>1, <2>6, Uids, Steps DEF Owns, Sweeping, u
    <2>9. Leases(p, r, s, storeLease')
      BY <1>1, <1>3, <2>1, <2>4, <2>8, Takes DEF o, s
    <2>10. Knows(r, logs, saves) /\ IsDue(s, logs, aged)
      BY <2>1, <2>6 DEF Knows, IsDue
    <2> QED BY <1>1, <2>3, <2>7, <2>9, <2>10, StoreRests
  <1> QED BY <1>2, <1>3

\* SessionSnapshotStore.load and adopt_ownership, or a log that does not decode.
LEMMA DecodeKeeps ==
  ASSUME StoreInv, NEW p \in Procs, Store!Decode(p) \/ Store!OpenFails(p)
  PROVE  StoreInv'
  <1> DEFINE o == run[p]
             u == o.uid
             s == pass[p]
             w == [o EXCEPT !.base = saves[u]]
             r == Store!Opened(w)
  <1>1. /\ \/ /\ <<u, "root">> \in logs /\ run' = [run EXCEPT ![p] = r] /\ pass' = pass /\ storeLease' = storeLease
           \/ Store!Exit(p)
        /\ Store!Opening(p, "decode") /\ logs' = logs /\ aged' = aged /\ saves' = saves
    BY DEF Store!Decode, Store!OpenFails, Store!SetRun, Store!Storage, Store!HasRoot
  <1>2. CASE Store!Exit(p)
    BY <1>1, <1>2, ExitKeeps
  <1>3. CASE <<u, "root">> \in logs /\ run' = [run EXCEPT ![p] = r] /\ pass' = pass /\ storeLease' = storeLease
    <2>1. /\ o.at = "open" /\ o.steps = <<"decode">> /\ u \in Sessions /\ o.lent \in {Nobody, u}
          /\ o.save = Nobody /\ o.held = Nobody /\ o.next = Nobody /\ s.at = "off" /\ s \in PassState
          /\ o \in RunOf(o.at, u, o.steps, o.base, o.save, o.held, o.next, o.lent)
      BY <1>1, AtStep
    <2>2. saves[u] \in Nat
      BY <2>1 DEF StoreInv, StorageIs
    <2>3. Becomes(p, r, s)
      BY <1>3, Turns
    <2>4. w \in RunOf("open", u, <<"decode">>, saves[u], Nobody, Nobody, Nobody, o.lent)
      <3> HIDE DEF o, u
      <3> QED BY <2>1 DEF RunOf
    <2>5. r = [w EXCEPT !.at = "live", !.steps = <<>>, !.lent = Nobody]
      <3>1. w.steps = <<"decode">>
        <4> HIDE DEF w
        <4> QED BY <2>4, RunIs
      <3> HIDE DEF w
      <3> QED BY <3>1, Steps DEF Store!Opened, Nobody
    <2>6. r \in RunOf("live", u, <<>>, saves[u], Nobody, Nobody, Nobody, Nobody)
      <3> HIDE DEF w, r, o, u
      <3> QED BY <2>4, <2>5 DEF RunOf
    <2> HIDE DEF r, w, o, s, u
    <2>7. /\ r.at = "live" /\ r.uid = u /\ r.steps = <<>> /\ r.base = saves[u] /\ r.save = Nobody
          /\ r.held = Nobody /\ r.next = Nobody /\ r.lent = Nobody /\ r \in RunState
      BY <2>1, <2>2, <2>6, RunIs
    <2>8. Fits(r, s)
      BY <2>1, <2>7, Uids DEF Fits, RunFits, PassFits, OwnsOnce, Sweeping
    <2>9. \A v \in Sessions : Owns(r, s, v) <=> Owns(o, s, v)
      BY <2>1, <2>7, Uids DEF Owns, Sweeping, u
    <2>10. Leases(p, r, s, storeLease)
      BY <2>9, KeepsLeases DEF o, s
    <2>11. Knows(r, logs, saves) /\ IsDue(s, logs, aged)
      BY <1>3, <2>1, <2>7 DEF Knows, IsDue
    <2> QED BY <1>1, <1>3, <2>3, <2>8, <2>10, <2>11, StoreRests
  <1> QED BY <1>1, <1>2, <1>3

-----------------------------------------------------------------------------
(* Saves, the handoff and the end.                                         *)

\* A family has one owner.
LEMMA OneOwner ==
  ASSUME StoreInv, NEW p \in Procs, NEW q \in Procs \ {p}, NEW u \in Sessions, Owns(run[p], pass[p], u)
  PROVE  ~Owns(run[q], pass[q], u)
  BY StoreOf

\* A record is committed under the lease: it disturbs what no other process knows.
LEMMA CommitKeeps ==
  ASSUME StoreInv, NEW p \in Procs, run[p].at = "live", Store!Commit(p)
  PROVE  /\ \A l \in [Sessions -> Procs \cup {Nobody}] : StorageIs(logs', aged', saves', l)
         /\ saves'[run[p].uid] = saves[run[p].uid] + 1 /\ <<run[p].uid, "root">> \in logs'
         /\ IsDue(pass[p], logs', aged')
         /\ \A q \in Procs \ {p} : Knows(run[q], logs', saves') /\ IsDue(pass[q], logs', aged')
  <1> DEFINE u == run[p].uid
  <1>1. /\ logs' = logs \cup {<<u, "root">>} /\ saves' = [saves EXCEPT ![u] = @ + 1] /\ aged' = aged \ {u}
    BY DEF Store!Commit
  <1>2. u \in Sessions /\ Owns(run[p], pass[p], u)
    BY StoreOf DEF RunFits, Owns
  <1> HIDE DEF u
  <1>3. logs \subseteq Sessions \X {"root", "kid"} /\ aged \subseteq Sessions /\ saves \in [Sessions -> Nat]
    BY DEF StoreInv, StorageIs
  <1>4. /\ saves'[u] = saves[u] + 1 /\ saves' \in [Sessions -> Nat] /\ \A w \in Sessions \ {u} : saves'[w] = saves[w]
    BY <1>1, <1>2, <1>3
  <1>5. \A l \in [Sessions -> Procs \cup {Nobody}] : StorageIs(logs', aged', saves', l)
    BY <1>1, <1>2, <1>3, <1>4 DEF StorageIs
  <1>6. ASSUME NEW q \in Procs, q # p \/ u # pass[q].family PROVE IsDue(pass[q], logs', aged')
    <2>1. SUFFICES ASSUME pass[q].at = "delete", pass[q].due, <<pass[q].family, "root">> \in logs'
                   PROVE  pass[q].family \in aged'
      BY DEF IsDue
    <2>2. pass[q].family \in Sessions /\ Owns(run[q], pass[q], pass[q].family)
      BY <2>1, StoreOf DEF PassFits, Owns, Sweeping
    <2>3. pass[q].family # u
      BY <1>2, <1>6, <2>2, OneOwner
    <2>4. <<pass[q].family, "root">> \in logs
      BY <1>1, <2>1, <2>3
    <2>5. IsDue(pass[q], logs, aged)
      BY StoreOf
    <2> QED BY <1>1, <2>1, <2>3, <2>4, <2>5 DEF IsDue
  <1>7. ASSUME NEW q \in Procs \ {p} PROVE Knows(run[q], logs', saves')
    <2>1. SUFFICES ASSUME run[q].at = "live" PROVE Knows(run[q], logs', saves')
      BY DEF Knows
    <2>2. run[q].uid \in Sessions /\ Owns(run[q], pass[q], run[q].uid)
      BY <2>1, StoreOf DEF RunFits, Owns
    <2>3. run[q].uid # u
      BY <1>2, <2>2, OneOwner
    <2>4. Knows(run[q], logs, saves)
      BY StoreOf
    <2> QED BY <1>1, <1>4, <2>2, <2>3, <2>4 DEF Knows
  <1>8. pass[p].at = "delete" => u # pass[p].family
    BY StoreOf DEF OwnsOnce, Sweeping, u
  <1>9. IsDue(pass[p], logs', aged')
    BY <1>6, <1>8 DEF IsDue
  <1>10. <<u, "root">> \in logs'
    BY <1>1
  <1> QED BY <1>4, <1>5, <1>6, <1>7, <1>9, <1>10 DEF u

\* A session that is live.
LEMMA LiveIs ==
  ASSUME StoreInv, NEW p \in Procs, run[p].at = "live" \/ run[p].save # Nobody
  PROVE  LET r == run[p] IN
         /\ r.at = "live" /\ r.uid \in Sessions /\ r.lent = Nobody /\ r.base = saves[r.uid] /\ r.base \in Nat
         /\ (r.base > 0 => <<r.uid, "root">> \in logs)
         /\ (r.held # Nobody <=> r.save = "handoff") /\ r.save \in {Nobody, "exit", "handoff"}
         /\ r.held \in Sessions \cup {Nobody} /\ r.next \in Sessions \cup {Nobody}
         /\ (r.held # Nobody => r.held # r.uid /\ r.held # r.next) /\ (r.next # Nobody => r.next # r.uid)
         /\ (Sweeping(pass[p]) => pass[p].family # r.uid /\ pass[p].family # r.held /\ pass[p].family # r.next)
         /\ r.steps \in ToOpen \cup {<<>>} /\ r \in RunState /\ pass[p] \in PassState /\ PassFits(r, pass[p])
         /\ r \in RunOf(r.at, r.uid, r.steps, r.base, r.save, r.held, r.next, r.lent)
         /\ IsDue(pass[p], logs, aged)
  <1>1. /\ run[p] \in RunState /\ pass[p] \in PassState /\ RunFits(run[p]) /\ PassFits(run[p], pass[p])
        /\ OwnsOnce(run[p], pass[p]) /\ Knows(run[p], logs, saves) /\ IsDue(pass[p], logs, aged)
    BY StoreOf
  <1>2. run[p].at = "live"
    BY <1>1, RunFields DEF RunFits
  <1> QED BY <1>1, <1>2, RunFields DEF RunFits, OwnsOnce, Knows, ToOpen

\* What a pass sweeps beside an open session, and the family it judges.
Beside(s, u, h, n) ==
    /\ s \in PassState
    /\ Sweeping(s) => s.family # u /\ s.family # h /\ s.family # n
    /\ s.at = "delete" \/ (s.at = "family" /\ s.steps # <<>>) => s.family \in Sessions
\* What a live session may have reserved and may hand on to.
Reserves(v, u, h, n) ==
    /\ v \in {Nobody, "exit", "handoff"} /\ h \in Sessions \cup {Nobody} /\ n \in Sessions \cup {Nobody}
    /\ h # Nobody <=> v = "handoff"
    /\ h # Nobody => h # u /\ h # n
    /\ n # Nobody => n # u
\* The sessions an open session and its pass own.
OwnsAll(r, s, u, h, n) == \A w \in Sessions : Owns(r, s, w) <=> w = u \/ w = h \/ w = n \/ (Sweeping(s) /\ s.family = w)

\* r is a live session with these fields, and s its pass.
IsLive(r, s, u, t, b, v, h, n) ==
    /\ r \in RunOf("live", u, t, b, v, h, n, Nobody)
    /\ u \in Sessions /\ t \in ToOpen \cup {<<>>} /\ b \in Nat
    /\ Beside(s, u, h, n) /\ Reserves(v, u, h, n)

\* What a live session with these fields owns.
LEMMA LiveFits ==
  ASSUME NEW u, NEW t, NEW b, NEW v, NEW h, NEW n, NEW s, NEW r, IsLive(r, s, u, t, b, v, h, n)
  PROVE  Fits(r, s) /\ OwnsAll(r, s, u, h, n) /\ r.at = "live" /\ r.uid = u /\ r.base = b
  <1> USE DEF IsLive
  <1>1. /\ r.at = "live" /\ r.uid = u /\ r.steps = t /\ r.base = b /\ r.save = v
        /\ r.held = h /\ r.next = n /\ r.lent = Nobody /\ r \in RunState
    <2>1. Nobody \in Sessions \cup {Nobody} /\ u \in Sessions \cup {Nobody, "new", "latest"}
      OBVIOUS
    <2> QED BY <2>1, RunIs DEF Reserves
  <1>2. RunFits(r) /\ OwnsOnce(r, s)
    BY <1>1 DEF RunFits, OwnsOnce, Beside, Reserves
  <1>3. OwnsAll(r, s, u, h, n)
    BY <1>1, Uids DEF Owns, OwnsAll
  <1>4. PassFits(r, s) /\ s \in PassState
    BY <1>1 DEF PassFits, Beside
  <1> QED BY <1>1, <1>2, <1>3, <1>4 DEF Fits

\* What a live session is, and owns.
LEMMA LiveOwns ==
  ASSUME StoreInv, NEW p \in Procs, run[p].at = "live" \/ run[p].save # Nobody
  PROVE  LET r == run[p]
             s == pass[p]
         IN  /\ OwnsAll(r, s, r.uid, r.held, r.next) /\ Beside(s, r.uid, r.held, r.next)
             /\ Reserves(r.save, r.uid, r.held, r.next)
             /\ r.at = "live" /\ r.lent = Nobody /\ (r.save = Nobody \/ r.save = "exit" => r.held = Nobody)
             /\ r \in RunOf("live", r.uid, r.steps, r.base, r.save, r.held, r.next, Nobody)
  <1>1. /\ run[p].at = "live" /\ run[p].lent = Nobody /\ pass[p] \in PassState /\ PassFits(run[p], pass[p])
        /\ run[p].held # Nobody <=> run[p].save = "handoff"
        /\ Sweeping(pass[p]) => pass[p].family # run[p].uid /\ pass[p].family # run[p].held /\ pass[p].family # run[p].next
        /\ run[p] \in RunOf(run[p].at, run[p].uid, run[p].steps, run[p].base, run[p].save, run[p].held, run[p].next, run[p].lent)
    BY LiveIs
  <1>2. OwnsAll(run[p], pass[p], run[p].uid, run[p].held, run[p].next)
    BY <1>1, Uids DEF Owns, OwnsAll
  <1>3. Beside(pass[p], run[p].uid, run[p].held, run[p].next)
    BY <1>1 DEF Beside, PassFits
  <1>4. run[p].save = Nobody \/ run[p].save = "exit" => run[p].held = Nobody
    BY <1>1, Uids
  <1>5. Reserves(run[p].save, run[p].uid, run[p].held, run[p].next)
    BY LiveIs DEF Reserves
  <1> QED BY <1>1, <1>2, <1>3, <1>4, <1>5

\* The user ends the run.
LEMMA QuitKeeps ==
  ASSUME StoreInv, NEW p \in Procs, Store!Quit(p)
  PROVE  StoreInv'
  <1> DEFINE o == run[p]
             s == pass[p]
             r == [o EXCEPT !.save = "exit"]
  <1>1. /\ o.at = "live" /\ o.save = Nobody /\ run' = [run EXCEPT ![p] = r] /\ pass' = pass
        /\ logs' = logs /\ aged' = aged /\ saves' = saves /\ storeLease' = storeLease
    BY DEF Store!Quit, Store!Idle, Store!SetRun, Store!Storage, Nobody
  <1>2. Becomes(p, r, s)
    BY <1>1, Turns
  <1>3. /\ o.uid \in Sessions /\ o.base = saves[o.uid] /\ o.base \in Nat
        /\ (o.base > 0 => <<o.uid, "root">> \in logs) /\ o.next \in Sessions \cup {Nobody}
        /\ (o.next # Nobody => o.next # o.uid) /\ o.steps \in ToOpen \cup {<<>>} /\ IsDue(s, logs, aged)
    BY <1>1, LiveIs
  <1>4. /\ OwnsAll(o, s, o.uid, Nobody, o.next) /\ Reserves(Nobody, o.uid, Nobody, o.next) /\ Beside(s, o.uid, Nobody, o.next)
        /\ o \in RunOf("live", o.uid, o.steps, o.base, Nobody, Nobody, o.next, Nobody)
    BY <1>1, LiveOwns
  <1>5. r \in RunOf("live", o.uid, o.steps, o.base, "exit", Nobody, o.next, Nobody)
    <2> HIDE DEF o
    <2> QED BY <1>4 DEF RunOf
  <1> HIDE DEF r, o, s
  <1>6. Fits(r, s) /\ OwnsAll(r, s, o.uid, Nobody, o.next) /\ r.at = "live" /\ r.uid = o.uid /\ r.base = o.base
    <2>1. Reserves("exit", o.uid, Nobody, o.next)
      BY <1>4 DEF Reserves
    <2>2. IsLive(r, s, o.uid, o.steps, o.base, "exit", Nobody, o.next)
      BY <1>3, <1>4, <1>5, <2>1 DEF IsLive
    <2> QED BY <2>2, LiveFits
  <1>7. Leases(p, r, s, storeLease)
    <2>1. \A w \in Sessions : Owns(r, s, w) <=> Owns(o, s, w)
      BY <1>4, <1>6 DEF OwnsAll
    <2> QED BY <2>1, KeepsLeases DEF o, s
  <1>8. Knows(r, logs, saves)
    BY <1>3, <1>6 DEF Knows
  <1> QED BY <1>1, <1>2, <1>3, <1>6, <1>7, <1>8, StoreRests

\* What a session that winds up is.
LEMMA ClosingFits ==
  ASSUME NEW u \in Sessions, NEW t \in ToOpen \cup {<<>>}, NEW n, NEW s,
         NEW r \in RunOf("closing", u, t, 0, Nobody, Nobody, n, Nobody), Beside(s, u, Nobody, n), Reserves(Nobody, u, Nobody, n)
  PROVE  Fits(r, s) /\ OwnsAll(r, s, u, Nobody, n) /\ r.at = "closing"
  <1>1. /\ r.at = "closing" /\ r.uid = u /\ r.save = Nobody
        /\ r.held = Nobody /\ r.next = n /\ r.lent = Nobody /\ r \in RunState
    <2>1. Nobody \in Sessions \cup {Nobody} /\ u \in Sessions \cup {Nobody, "new", "latest"}
      OBVIOUS
    <2>2. n \in Sessions \cup {Nobody} /\ Nobody \in {Nobody, "exit", "handoff"} /\ 0 \in Nat
      BY DEF Reserves
    <2> QED BY <2>1, <2>2, RunIs
  <1>2. RunFits(r) /\ OwnsOnce(r, s)
    BY <1>1 DEF RunFits, OwnsOnce, Beside, Reserves
  <1>3. OwnsAll(r, s, u, Nobody, n)
    BY <1>1, Uids DEF Owns, OwnsAll
  <1>4. PassFits(r, s) /\ s \in PassState
    BY <1>1 DEF PassFits, Beside
  <1> QED BY <1>1, <1>2, <1>3, <1>4 DEF Fits

\* What the storage is after a save of p, or after none.
Stored(p) ==
    /\ \A l \in [Sessions -> Procs \cup {Nobody}] : StorageIs(logs', aged', saves', l)
    /\ IsDue(pass[p], logs', aged')
    /\ \A q \in Procs \ {p} : Knows(run[q], logs', saves') /\ IsDue(pass[q], logs', aged')

LEMMA StoredByAll ==
  ASSUME StoreInv, NEW p \in Procs, logs' = logs, aged' = aged, saves' = saves
  PROVE  Stored(p)
  <1>1. \A l \in [Sessions -> Procs \cup {Nobody}] : StorageIs(logs', aged', saves', l)
    BY DEF StoreInv, StorageIs
  <1>2. \A q \in Procs : Knows(run[q], logs', saves') /\ IsDue(pass[q], logs', aged')
    BY StoreOf
  <1> QED BY <1>1, <1>2 DEF Stored

\* A step of a process whose pass rests.
LEMMA RunMoves ==
  ASSUME StoreInv, NEW p \in Procs, NEW r, run' = [run EXCEPT ![p] = r], pass' = pass, Stored(p),
         Fits(r, pass[p]), Leases(p, r, pass[p], storeLease'), Knows(r, logs', saves')
  PROVE  StoreInv'
  <1>1. Becomes(p, r, pass[p])
    BY Turns
  <1>2. StorageIs(logs', aged', saves', storeLease') /\ IsDue(pass[p], logs', aged')
    BY DEF Stored, Leases
  <1>3. \A q \in Procs \ {p} : Knows(run[q], logs', saves') /\ IsDue(pass[q], logs', aged')
    BY DEF Stored
  <1> QED BY <1>1, <1>2, <1>3, StoreMoves

\* A save of a session that goes on.
LEMMA SaveKeeps ==
  ASSUME StoreInv, NEW p \in Procs, Store!Save(p)
  PROVE  StoreInv'
  <1> DEFINE o == run[p]
             s == pass[p]
             r == [o EXCEPT !.base = @ + 1]
             b == o.base + 1
  <1>1. /\ o.at = "live" /\ o.save = Nobody /\ run' = [run EXCEPT ![p] = r] /\ pass' = pass /\ storeLease' = storeLease
        /\ Store!Commit(p)
    BY DEF Store!Save, Store!Idle, Store!SetRun, Nobody
  <1>2. Stored(p) /\ saves'[o.uid] = saves[o.uid] + 1 /\ <<o.uid, "root">> \in logs'
    BY <1>1, CommitKeeps DEF Stored
  <1>3. o.uid \in Sessions /\ o.base = saves[o.uid] /\ o.base \in Nat /\ o.steps \in ToOpen \cup {<<>>}
    BY <1>1, LiveIs
  <1>4. /\ OwnsAll(o, s, o.uid, Nobody, o.next) /\ Reserves(Nobody, o.uid, Nobody, o.next) /\ Beside(s, o.uid, Nobody, o.next)
        /\ o \in RunOf("live", o.uid, o.steps, o.base, Nobody, Nobody, o.next, Nobody)
    BY <1>1, LiveOwns
  <1>5. r \in RunOf("live", o.uid, o.steps, b, Nobody, Nobody, o.next, Nobody)
    <2> HIDE DEF o
    <2> QED BY <1>4 DEF RunOf
  <1>a. b \in Nat /\ b = saves'[o.uid] /\ b = o.base + 1
    BY <1>2, <1>3
  <1> HIDE DEF r, o, s, b
  <1>6. Fits(r, s) /\ OwnsAll(r, s, o.uid, Nobody, o.next) /\ r.at = "live" /\ r.uid = o.uid /\ r.base = b
    <2>2. IsLive(r, s, o.uid, o.steps, b, Nobody, Nobody, o.next)
      BY <1>a, <1>3, <1>4, <1>5 DEF IsLive
    <2> QED BY <2>2, LiveFits
  <1>7. Leases(p, r, s, storeLease)
    <2>1. \A w \in Sessions : Owns(r, s, w) <=> Owns(o, s, w)
      BY <1>4, <1>6 DEF OwnsAll
    <2> QED BY <2>1, KeepsLeases DEF o, s
  <1>8. Knows(r, logs', saves')
    BY <1>2, <1>6, <1>a DEF Knows
  <1> QED BY <1>1, <1>2, <1>6, <1>7, <1>8, RunMoves DEF s

\* The handoff is published, or the run winds up, after a save or without one.
LEMMA PublishKeeps ==
  ASSUME StoreInv, NEW p \in Procs, run[p].save # Nobody, NEW b, NEW w, b \in Nat,
         w \in RunOf("live", run[p].uid, run[p].steps, b, run[p].save, run[p].held, run[p].next, Nobody),
         Store!Publish(p, w), pass' = pass, Stored(p),
         b = saves'[run[p].uid], b > 0 => <<run[p].uid, "root">> \in logs'
  PROVE  StoreInv'
  <1> DEFINE o == run[p]
             s == pass[p]
             u == o.uid
             onwards == [w EXCEPT !.save = Nobody, !.next = w.held, !.held = Nobody]
             ending == [w EXCEPT !.save = Nobody, !.at = "closing", !.base = 0]
  <1>1. w.save = o.save /\ w.next = o.next /\ w.held = o.held
    BY RunIs
  <1>2. /\ o.at = "live" /\ u \in Sessions /\ o.steps \in ToOpen \cup {<<>>} /\ o.next \in Sessions \cup {Nobody}
        /\ o.held \in Sessions \cup {Nobody} /\ o.save \in {Nobody, "exit", "handoff"}
    BY LiveIs
  <1>3. OwnsAll(o, s, u, o.held, o.next) /\ Reserves(o.save, u, o.held, o.next) /\ Beside(s, u, o.held, o.next)
    BY LiveOwns
  <1>4. CASE o.save = "handoff"
    <2>1. /\ run' = [run EXCEPT ![p] = onwards]
          /\ storeLease' = IF o.next # Nobody THEN [storeLease EXCEPT ![o.next] = Nobody] ELSE storeLease
      BY <1>1, <1>4 DEF Store!Publish, Store!SetRun, Nobody
    <2>2. onwards \in RunOf("live", u, o.steps, b, Nobody, Nobody, o.held, Nobody)
      <3> HIDE DEF o, u
      <3> QED BY <1>1 DEF RunOf, o, u
    <2> HIDE DEF onwards, o, s, u
    <2>3. Reserves(Nobody, u, Nobody, o.held) /\ Beside(s, u, Nobody, o.held)
      <3>1. Sweeping(s) => s.family # Nobody
        BY <1>3, Uids, Steps DEF Beside, Sweeping
      <3> QED BY <1>2, <1>3, <3>1, Uids DEF Reserves, Beside
    <2>b. IsLive(onwards, s, u, o.steps, b, Nobody, Nobody, o.held)
      BY <1>2, <2>2, <2>3 DEF IsLive
    <2>4. /\ Fits(onwards, s) /\ OwnsAll(onwards, s, u, Nobody, o.held) /\ onwards.at = "live" /\ onwards.uid = u
          /\ onwards.base = b
      BY <2>b, LiveFits
    <2>5. Knows(onwards, logs', saves')
      BY <2>4 DEF Knows, o, u
    <2>6. CASE o.next = Nobody
      <3>1. \A v \in Sessions : Owns(onwards, s, v) <=> Owns(o, s, v)
        BY <1>3, <2>4, <2>6, Uids DEF OwnsAll
      <3>2. Leases(p, onwards, s, storeLease)
        BY <3>1, KeepsLeases DEF o, s
      <3> QED BY <2>1, <2>4, <2>5, <2>6, <3>2, RunMoves DEF s
    <2>7. CASE o.next # Nobody
      <3>1. o.next \in Sessions /\ o.next # u /\ o.next # o.held /\ (Sweeping(s) => s.family # o.next)
        BY <1>2, <1>3, <1>4, <2>7 DEF Reserves, Beside
      <3>2. Owns(o, s, o.next) /\ \A v \in Sessions : Owns(onwards, s, v) <=> Owns(o, s, v) /\ v # o.next
        BY <1>3, <2>4, <3>1, Uids DEF OwnsAll
      <3>3. Leases(p, onwards, s, [storeLease EXCEPT ![o.next] = Nobody])
        BY <3>1, <3>2, GivesUp DEF o, s
      <3> QED BY <2>1, <2>4, <2>5, <2>7, <3>3, RunMoves DEF s
    <2> QED BY <2>6, <2>7
  <1>5. CASE o.save # "handoff"
    <2>1. run' = [run EXCEPT ![p] = ending] /\ storeLease' = storeLease
      BY <1>1, <1>5 DEF Store!Publish, Store!SetRun, Nobody
    <2>a. o.held = Nobody
      BY <1>3, <1>5 DEF Reserves
    <2>2. ending \in RunOf("closing", u, o.steps, 0, Nobody, Nobody, o.next, Nobody)
      <3> HIDE DEF o, u
      <3> QED BY <1>1, <2>a DEF RunOf, o, u
    <2> HIDE DEF ending, o, s, u
    <2>3. Reserves(Nobody, u, Nobody, o.next) /\ Beside(s, u, Nobody, o.next)
      BY <1>3, <2>a, Uids DEF Reserves
    <2>4. Fits(ending, s) /\ OwnsAll(ending, s, u, Nobody, o.next) /\ ending.at = "closing"
      BY ONLY <1>2, <2>2, <2>3, ClosingFits
    <2>5. Knows(ending, logs', saves')
      BY <2>4 DEF Knows
    <2>6. \A v \in Sessions : Owns(ending, s, v) <=> Owns(o, s, v)
      BY <1>3, <2>a, <2>4 DEF OwnsAll
    <2>7. Leases(p, ending, s, storeLease)
      BY <2>6, KeepsLeases DEF o, s
    <2> QED BY <2>1, <2>4, <2>5, <2>7, RunMoves DEF s
  <1> QED BY <1>4, <1>5

\* The last save, or the save before a handoff, with a record or without.
LEMMA LastSaveKeeps ==
  ASSUME StoreInv, NEW p \in Procs, Store!SaveAndPublish(p) \/ Store!NothingToSave(p)
  PROVE  StoreInv'
  <1> DEFINE o == run[p]
             w == [o EXCEPT !.base = @ + 1]
  <1>1. o.save # Nobody /\ pass' = pass
    BY DEF Store!SaveAndPublish, Store!NothingToSave, Nobody
  <1>2. /\ o.at = "live" /\ o.uid \in Sessions /\ o.base = saves[o.uid] /\ o.base \in Nat
        /\ (o.base > 0 => <<o.uid, "root">> \in logs)
    BY <1>1, LiveIs
  <1>3. o \in RunOf("live", o.uid, o.steps, o.base, o.save, o.held, o.next, Nobody)
    BY <1>1, LiveOwns
  <1>4. CASE Store!SaveAndPublish(p)
    <2>1. Store!Commit(p) /\ Store!Publish(p, w)
      BY <1>4 DEF Store!SaveAndPublish
    <2>2. Stored(p) /\ saves'[o.uid] = saves[o.uid] + 1 /\ <<o.uid, "root">> \in logs'
      BY <1>2, <2>1, CommitKeeps DEF Stored
    <2>3. w \in RunOf("live", o.uid, o.steps, o.base + 1, o.save, o.held, o.next, Nobody)
      <3> HIDE DEF o
      <3> QED BY <1>3 DEF RunOf
    <2> HIDE DEF w
    <2>4. o.base + 1 \in Nat /\ o.base + 1 = saves'[o.uid]
      BY <1>2, <2>2
    <2> QED BY <1>1, <2>1, <2>2, <2>3, <2>4, PublishKeeps
  <1>5. CASE Store!NothingToSave(p)
    <2>1. Store!Publish(p, o) /\ logs' = logs /\ aged' = aged /\ saves' = saves
      BY <1>5 DEF Store!NothingToSave, Store!Storage
    <2>2. Stored(p)
      BY <2>1, StoredByAll
    <2> QED BY <1>1, <1>2, <1>3, <2>1, <2>2, PublishKeeps
  <1> QED BY <1>4, <1>5

\* A save that failed ends the run, or releases the target of the handoff.
LEMMA SaveFailsKeeps ==
  ASSUME StoreInv, NEW p \in Procs, Store!SaveFails(p)
  PROVE  StoreInv'
  <1> DEFINE o == run[p]
             s == pass[p]
             r == [o EXCEPT !.save = Nobody, !.held = Nobody]
  <1>1. /\ o.save # Nobody /\ logs' = logs /\ aged' = aged /\ saves' = saves
        /\ \/ Store!Exit(p)
           \/ /\ o.save # "exit" /\ run' = [run EXCEPT ![p] = r] /\ pass' = pass
              /\ storeLease' = IF o.held = Nobody THEN storeLease ELSE [storeLease EXCEPT ![o.held] = Nobody]
    BY DEF Store!SaveFails, Store!SetRun, Store!Storage, Store!Unreserved, Nobody
  <1>2. CASE Store!Exit(p)
    BY <1>1, <1>2, ExitKeeps
  <1>3. CASE ~Store!Exit(p)
    <2>1. /\ o.at = "live" /\ o.uid \in Sessions /\ o.base = saves[o.uid] /\ o.base \in Nat
          /\ (o.base > 0 => <<o.uid, "root">> \in logs) /\ o.steps \in ToOpen \cup {<<>>}
          /\ (o.held # Nobody <=> o.save = "handoff") /\ o.save \in {Nobody, "exit", "handoff"}
          /\ o.held \in Sessions \cup {Nobody}
      BY <1>1, LiveIs
    <2>2. /\ OwnsAll(o, s, o.uid, o.held, o.next) /\ Reserves(o.save, o.uid, o.held, o.next)
          /\ Beside(s, o.uid, o.held, o.next)
          /\ o \in RunOf("live", o.uid, o.steps, o.base, o.save, o.held, o.next, Nobody)
      BY <1>1, LiveOwns
    <2>3. o.held \in Sessions
      BY <1>1, <1>3, <2>1, Uids
    <2>4. r \in RunOf("live", o.uid, o.steps, o.base, Nobody, Nobody, o.next, Nobody)
      <3> HIDE DEF o
      <3> QED BY <2>2 DEF RunOf
    <2>5. Stored(p)
      BY <1>1, StoredByAll
    <2> HIDE DEF r, o, s
    <2>6. Reserves(Nobody, o.uid, Nobody, o.next) /\ Beside(s, o.uid, Nobody, o.next)
      <3>1. Sweeping(s) => s.family # Nobody
        BY <2>2, Uids, Steps DEF Beside, Sweeping
      <3> QED BY <2>2, <3>1, Uids DEF Reserves, Beside
    <2>7. Fits(r, s) /\ OwnsAll(r, s, o.uid, Nobody, o.next) /\ r.at = "live" /\ r.uid = o.uid /\ r.base = o.base
      <3>1. IsLive(r, s, o.uid, o.steps, o.base, Nobody, Nobody, o.next)
        BY <2>1, <2>4, <2>6 DEF IsLive
      <3> QED BY <3>1, LiveFits
    <2>8. o.held # o.uid /\ o.held # o.next /\ (Sweeping(s) => s.family # o.held)
      BY <2>2, <2>3, Uids DEF Reserves, Beside
    <2>9. Owns(o, s, o.held) /\ \A v \in Sessions : Owns(r, s, v) <=> Owns(o, s, v) /\ v # o.held
      BY <2>2, <2>3, <2>7, <2>8, Uids DEF OwnsAll
    <2>10. Leases(p, r, s, [storeLease EXCEPT ![o.held] = Nobody])
      BY <2>3, <2>9, GivesUp DEF o, s
    <2>11. Knows(r, logs', saves')
      BY <1>1, <2>1, <2>7 DEF Knows
    <2>12. o.held # Nobody
      BY <2>3, Uids
    <2> QED BY <1>1, <1>3, <2>5, <2>7, <2>10, <2>11, <2>12, RunMoves DEF s
  <1> QED BY <1>2, <1>3

\* A subagent's log.
LEMMA SaveKidKeeps ==
  ASSUME StoreInv, NEW p \in Procs, Store!SaveKid(p)
  PROVE  StoreInv'
  <1>1. /\ run[p].at = "live" /\ logs' = logs \cup {<<run[p].uid, "kid">>} /\ aged' = aged /\ saves' = saves
        /\ storeLease' = storeLease /\ run' = run /\ pass' = pass
    BY DEF Store!SaveKid, Store!Idle
  <1>2. run[p].uid \in Sessions
    BY <1>1, LiveIs
  <1>3. StorageIs(logs', aged', saves', storeLease')
    BY <1>1, <1>2 DEF StoreInv, StorageIs
  <1>4. \A u : <<u, "root">> \in logs' <=> <<u, "root">> \in logs
    BY <1>1
  <1>5. \A q \in Procs : Knows(run[q], logs', saves') /\ IsDue(pass[q], logs', aged')
    BY <1>1, <1>4 DEF StoreInv, Knows, IsDue
  <1> QED BY <1>1, <1>3, <1>5 DEF StoreInv

\* /sessions reserves the target.
LEMMA ReserveKeeps ==
  ASSUME StoreInv, NEW p \in Procs, Store!Reserve(p)
  PROVE  StoreInv'
  <1>1. PICK x \in Sessions \ {run[p].uid} :
          /\ storeLease[x] = Nobody /\ storeLease' = [storeLease EXCEPT ![x] = p]
          /\ run' = [run EXCEPT ![p] = [run[p] EXCEPT !.held = x, !.save = "handoff"]]
    BY DEF Store!Reserve, Store!SetRun, Nobody
  <1> DEFINE o == run[p]
             s == pass[p]
             r == [o EXCEPT !.held = x, !.save = "handoff"]
  <1>2. o.at = "live" /\ o.save = Nobody /\ pass' = pass /\ logs' = logs /\ aged' = aged /\ saves' = saves
    BY DEF Store!Reserve, Store!Idle, Store!Storage, Nobody
  <1>3. /\ o.uid \in Sessions /\ o.base = saves[o.uid] /\ o.base \in Nat /\ o.held = Nobody
        /\ (o.base > 0 => <<o.uid, "root">> \in logs) /\ o.steps \in ToOpen \cup {<<>>}
    BY <1>2, LiveIs, LiveOwns
  <1>4. /\ OwnsAll(o, s, o.uid, Nobody, o.next) /\ Reserves(Nobody, o.uid, Nobody, o.next) /\ Beside(s, o.uid, Nobody, o.next)
        /\ o \in RunOf("live", o.uid, o.steps, o.base, Nobody, Nobody, o.next, Nobody)
    BY <1>2, LiveOwns
  <1>5. r \in RunOf("live", o.uid, o.steps, o.base, "handoff", x, o.next, Nobody)
    <2> HIDE DEF o
    <2> QED BY <1>4 DEF RunOf
  <1>6. Stored(p)
    BY <1>2, StoredByAll
  <1>7. ~Owns(o, s, x)
    BY <1>1, StoreOf, Uids
  <1> HIDE DEF r, o, s
  <1>8. Reserves("handoff", o.uid, x, o.next) /\ Beside(s, o.uid, x, o.next)
    <2>1. x # o.uid /\ x # o.next /\ x # Nobody /\ (Sweeping(s) => s.family # x)
      BY <1>4, <1>7, Uids DEF OwnsAll
    <2> QED BY <1>4, <2>1 DEF Reserves, Beside
  <1>9. Fits(r, s) /\ OwnsAll(r, s, o.uid, x, o.next) /\ r.at = "live" /\ r.uid = o.uid /\ r.base = o.base
    <2>1. IsLive(r, s, o.uid, o.steps, o.base, "handoff", x, o.next)
      BY <1>3, <1>5, <1>8 DEF IsLive
    <2> QED BY <2>1, LiveFits
  <1>10. \A v \in Sessions : Owns(r, s, v) <=> Owns(o, s, v) \/ v = x
    BY <1>4, <1>9, Uids DEF OwnsAll
  <1>11. Leases(p, r, s, storeLease')
    BY <1>1, <1>10, Takes DEF o, s
  <1>12. Knows(r, logs', saves')
    BY <1>2, <1>3, <1>9 DEF Knows
  <1> QED BY <1>1, <1>2, <1>6, <1>9, <1>11, <1>12, RunMoves DEF o, r, s

\* The session is closed: the next run starts with the lease of the session it is to open.
LEMMA CloseKeeps ==
  ASSUME StoreInv, NEW p \in Procs, Store!Close(p)
  PROVE  StoreInv'
  <1> DEFINE o == run[p]
             s == pass[p]
             r == [Store!Off EXCEPT !.at = "start", !.uid = o.next, !.lent = o.next]
  <1>1. /\ o.at = "closing" /\ s.at = "off" /\ logs' = logs /\ aged' = aged /\ saves' = saves
        /\ \/ Store!Exit(p)
           \/ /\ o.next # Nobody /\ run' = [run EXCEPT ![p] = r] /\ pass' = pass
              /\ storeLease' = [storeLease EXCEPT ![o.uid] = Nobody]
    BY DEF Store!Close, Store!SetRun, Store!Storage, Store!CarriedOver, Nobody
  <1>2. CASE Store!Exit(p)
    BY <1>1, <1>2, ExitKeeps
  <1>3. CASE ~Store!Exit(p)
    <2>1. /\ o \in RunState /\ s \in PassState /\ RunFits(o) /\ OwnsOnce(o, s) /\ o.next \in Sessions \cup {Nobody}
      BY StoreOf, RunFields
    <2>2. /\ o.uid \in Sessions /\ o.lent = Nobody /\ o.held = Nobody /\ o.next \in Sessions /\ o.next # o.uid
      BY <1>1, <1>3, <2>1 DEF RunFits, OwnsOnce
    <2>3. r \in RunOf("start", o.next, <<>>, 0, Nobody, Nobody, Nobody, o.next)
      <3> HIDE DEF o
      <3> QED BY OffIs DEF RunOf
    <2>4. Stored(p)
      BY <1>1, StoredByAll
    <2> HIDE DEF r, o, s
    <2>5. /\ r.at = "start" /\ r.uid = o.next /\ r.save = Nobody /\ r.held = Nobody
          /\ r.next = Nobody /\ r.lent = o.next /\ r \in RunState
      BY <2>2, <2>3, RunIs
    <2>6. Fits(r, s)
      BY <1>1, <2>1, <2>5, Uids DEF Fits, RunFits, PassFits, OwnsOnce, Sweeping
    <2>7. Owns(o, s, o.uid) /\ \A v \in Sessions : Owns(r, s, v) <=> Owns(o, s, v) /\ v # o.uid
      BY <1>1, <2>2, <2>5, Uids DEF Owns, Sweeping
    <2>8. Leases(p, r, s, [storeLease EXCEPT ![o.uid] = Nobody])
      BY <2>2, <2>7, GivesUp DEF o, s
    <2>9. Knows(r, logs', saves')
      BY <2>5 DEF Knows
    <2> QED BY <1>1, <1>3, <2>4, <2>6, <2>8, <2>9, RunMoves DEF s
  <1> QED BY <1>2, <1>3

\* A process dies.
LEMMA CrashKeeps ==
  ASSUME StoreInv, NEW p \in Procs, Store!Crash(p)
  PROVE  StoreInv'
  BY ExitKeeps DEF Store!Crash, Store!Storage

-----------------------------------------------------------------------------
(* The retention pass.                                                     *)

\* A step of a pass, whatever it does to the logs of the family it sweeps.
LEMMA PassMoves ==
  ASSUME StoreInv, NEW p \in Procs, NEW s, pass' = [pass EXCEPT ![p] = s], run' = run,
         s \in PassState, PassFits(run[p], s), OwnsOnce(run[p], s), Leases(p, run[p], s, storeLease'),
         StorageIs(logs', aged', saves', storeLease'), IsDue(s, logs', aged'),
         \A q \in Procs : Knows(run[q], logs', saves'),
         \A q \in Procs \ {p} : IsDue(pass[q], logs', aged')
  PROVE  StoreInv'
  <1>1. Becomes(p, run[p], s)
    BY Turns
  <1>2. Fits(run[p], s)
    BY StoreOf DEF Fits
  <1> QED BY <1>1, <1>2, StoreMoves

\* A step of a pass that leaves the logs alone.
LEMMA PassLooks ==
  ASSUME StoreInv, NEW p \in Procs, NEW s, pass' = [pass EXCEPT ![p] = s], run' = run,
         s \in PassState, PassFits(run[p], s), OwnsOnce(run[p], s), Leases(p, run[p], s, storeLease'),
         logs' = logs, aged' = aged, saves' = saves, IsDue(s, logs, aged)
  PROVE  StoreInv'
  <1>1. StorageIs(logs', aged', saves', storeLease')
    BY DEF StoreInv, StorageIs, Leases
  <1>2. \A q \in Procs : Knows(run[q], logs', saves') /\ IsDue(pass[q], logs', aged')
    BY StoreOf
  <1> QED BY <1>1, <1>2, PassMoves

\* A pass that sweeps nothing owns nothing, whatever it was doing.
LEMMA PassRests ==
  ASSUME StoreInv, NEW p \in Procs, NEW s, pass' = [pass EXCEPT ![p] = s], run' = run, storeLease' = storeLease,
         s \in PassState, PassFits(run[p], s), ~Sweeping(s), ~Sweeping(pass[p]),
         logs' = logs, aged' = aged, saves' = saves
  PROVE  StoreInv'
  <1>1. OwnsOnce(run[p], s)
    BY StoreOf DEF OwnsOnce
  <1>2. Leases(p, run[p], s, storeLease)
    <2>1. \A u \in Sessions : Owns(run[p], s, u) <=> Owns(run[p], pass[p], u)
      BY DEF Owns
    <2> QED BY <2>1, KeepsLeases
  <1>3. IsDue(s, logs, aged)
    BY DEF IsDue, Sweeping
  <1> QED BY <1>1, <1>2, <1>3, PassLooks

\* clean_expired lists the directory.
LEMMA ScanKeeps ==
  ASSUME StoreInv, NEW p \in Procs, Store!Scan(p)
  PROVE  StoreInv'
  <1> DEFINE todo == {f[1] : f \in logs} \ {run[p].uid}
             s == [Store!NoPass EXCEPT !.at = "family", !.members = logs, !.todo = todo]
  <1>1. /\ run[p].at = "live" /\ pass[p].at = "off" /\ pass' = [pass EXCEPT ![p] = s] /\ run' = run
        /\ logs' = logs /\ aged' = aged /\ saves' = saves /\ storeLease' = storeLease
    BY DEF Store!Scan, Store!SetPass, Store!Storage
  <1>2. logs \in SUBSET (Sessions \X {"root", "kid"}) /\ todo \in SUBSET Sessions
    BY DEF StoreInv, StorageIs
  <1> HIDE DEF todo
  <1>3. s \in PassOf("family", todo, logs, Nobody, <<>>, FALSE, FALSE, FALSE)
    BY NoPassIs DEF PassOf
  <1> HIDE DEF s
  <1>4. s.at = "family" /\ s.steps = <<>> /\ s \in PassState
    BY <1>2, <1>3 DEF PassOf, PassState
  <1>5. PassFits(run[p], s) /\ ~Sweeping(s)
    BY <1>1, <1>4, Steps DEF PassFits, Sweeping
  <1>6. ~Sweeping(pass[p])
    BY <1>1 DEF Sweeping
  <1> QED BY <1>1, <1>4, <1>5, <1>6, PassRests

\* The next family is picked.
LEMMA NextFamilyKeeps ==
  ASSUME StoreInv, NEW p \in Procs, Store!NextFamily(p)
  PROVE  StoreInv'
  <1> DEFINE o == pass[p]
  <1>1. PICK u \in o.todo : pass' = [pass EXCEPT ![p] = [o EXCEPT !.family = u, !.todo = @ \ {u}, !.steps = Store!SweepOrder]]
    BY DEF Store!NextFamily, Store!SetPass
  <1> DEFINE s == [o EXCEPT !.family = u, !.todo = @ \ {u}, !.steps = <<"lease", "age">>]
             todo == o.todo \ {u}
  <1>2. /\ o.at = "family" /\ o.steps = <<>> /\ pass' = [pass EXCEPT ![p] = s] /\ run' = run
        /\ logs' = logs /\ aged' = aged /\ saves' = saves /\ storeLease' = storeLease
    BY <1>1 DEF Store!NextFamily, Store!Storage, Store!SweepOrder
  <1>3. /\ o \in PassState /\ PassFits(run[p], o) /\ o.todo \in SUBSET Sessions
        /\ o.members \in SUBSET (Sessions \X {"root", "kid"}) /\ o.there \in BOOLEAN /\ o.due \in BOOLEAN /\ o.stale \in BOOLEAN
        /\ o \in PassOf(o.at, o.todo, o.members, o.family, o.steps, o.there, o.due, o.stale)
    BY StoreOf, PassFields
  <1>4. u \in Sessions /\ todo \in SUBSET Sessions
    BY <1>1, <1>3
  <1>5. s \in PassOf("family", todo, o.members, u, <<"lease", "age">>, o.there, o.due, o.stale)
    <2> HIDE DEF o
    <2> QED BY <1>2, <1>3 DEF PassOf
  <1> HIDE DEF s, o, todo
  <1>6. s.at = "family" /\ s.steps = <<"lease", "age">> /\ s.family = u /\ s \in PassState
    <2>1. "family" \in {"off", "family", "delete"} /\ u \in Sessions \cup {Nobody} /\ <<"lease", "age">> \in ToJudge \cup {<<>>}
      BY <1>4 DEF ToJudge
    <2> QED BY <1>3, <1>4, <1>5, <2>1, PassIs
  <1>7. PassFits(run[p], s) /\ ~Sweeping(s) /\ ~Sweeping(o)
    BY <1>2, <1>3, <1>4, <1>6, Steps DEF PassFits, Sweeping
  <1> QED BY <1>2, <1>6, <1>7, PassRests DEF o

\* A family that is judged, and the step it is at.
LEMMA AtJudge ==
  ASSUME StoreInv, NEW p \in Procs, NEW step \in {"lease", "age"}, Store!Judging(p, step)
  PROVE  LET s == pass[p] IN
         /\ s.at = "family" /\ s.steps = (IF step = "lease" THEN <<"lease", "age">> ELSE <<"age">>)
         /\ s.family \in Sessions /\ run[p].at \in {"live", "closing"} /\ run[p].uid \in Sessions
         /\ (Sweeping(s) <=> step = "age")
         /\ s.todo \in SUBSET Sessions /\ s.members \in SUBSET (Sessions \X {"root", "kid"})
         /\ s.there \in BOOLEAN /\ s.due \in BOOLEAN /\ s.stale \in BOOLEAN
         /\ s \in PassOf(s.at, s.todo, s.members, s.family, s.steps, s.there, s.due, s.stale)
  <1>1. /\ pass[p].at = "family" /\ pass[p].steps # <<>> /\ Head(pass[p].steps) = step /\ RunFits(run[p])
        /\ PassFits(run[p], pass[p]) /\ run[p] \in RunState /\ pass[p] \in PassState
    BY StoreOf DEF Store!Judging
  <1>2. pass[p].steps = (IF step = "lease" THEN <<"lease", "age">> ELSE <<"age">>)
    BY <1>1, Steps, PassFields
  <1>3. Sweeping(pass[p]) <=> step = "age"
    BY <1>1, <1>2, Steps DEF Sweeping
  <1>4. pass[p].family \in Sessions /\ run[p].at \in {"live", "closing"} /\ run[p].uid \in Sessions
    BY <1>1 DEF PassFits, RunFits
  <1> QED BY <1>1, <1>2, <1>3, <1>4, PassFields

\* The family's lease is taken, or the family is passed over.
LEMMA TakeFamilyKeeps ==
  ASSUME StoreInv, NEW p \in Procs, Store!TakeFamily(p)
  PROVE  StoreInv'
  <1> DEFINE o == pass[p]
             x == o.family
             taken == [o EXCEPT !.steps = <<"age">>]
             less == o.members \ Store!Left(p)
             over == [o EXCEPT !.steps = <<>>, !.family = Nobody, !.members = less]
  <1>1. /\ o.at = "family" /\ o.steps = <<"lease", "age">> /\ x \in Sessions /\ run[p].at \in {"live", "closing"}
        /\ run[p].uid \in Sessions /\ ~Sweeping(o)
        /\ o.todo \in SUBSET Sessions /\ o.members \in SUBSET (Sessions \X {"root", "kid"})
        /\ o.there \in BOOLEAN /\ o.due \in BOOLEAN /\ o.stale \in BOOLEAN
        /\ o \in PassOf(o.at, o.todo, o.members, x, o.steps, o.there, o.due, o.stale)
    BY AtJudge DEF Store!TakeFamily
  <1>2. Store!Judged(o) = taken
    <2> HIDE DEF o
    <2>1. Store!Judged(o) = [o EXCEPT !.steps = Tail(@)]
      BY <1>1, Steps DEF Store!Judged
    <2> QED BY <1>1, <2>1, Steps DEF PassOf
  <1>3. /\ IF storeLease[x] = Nobody
           THEN pass' = [pass EXCEPT ![p] = taken] /\ storeLease' = [storeLease EXCEPT ![x] = p]
           ELSE pass' = [pass EXCEPT ![p] = over] /\ storeLease' = storeLease
        /\ run' = run /\ logs' = logs /\ aged' = aged /\ saves' = saves
    BY <1>2 DEF Store!TakeFamily, Store!Sweepable, Store!SetPass, Store!Storage, Nobody
  <1>4. taken \in PassOf("family", o.todo, o.members, x, <<"age">>, o.there, o.due, o.stale)
    <2> HIDE DEF o
    <2> QED BY <1>1 DEF PassOf, x
  <1>5. over \in PassOf("family", o.todo, less, Nobody, <<>>, o.there, o.due, o.stale)
    <2> HIDE DEF o, less
    <2> QED BY <1>1 DEF PassOf, x
  <1>6. less \in SUBSET (Sessions \X {"root", "kid"})
    BY <1>1
  <1>7. "family" \in {"off", "family", "delete"} /\ Nobody \in Sessions \cup {Nobody} /\ x \in Sessions \cup {Nobody}
        /\ <<"age">> \in ToJudge \cup {<<>>} /\ <<>> \in ToJudge \cup {<<>>}
    BY <1>1 DEF ToJudge
  <1>8. OwnsOnce(run[p], o) /\ RunFits(run[p])
    BY StoreOf
  <1> HIDE DEF taken, less, over, o, x
  <1>9. CASE storeLease[x] # Nobody
    <2>1. over.at = "family" /\ over.steps = <<>> /\ over \in PassState
      BY <1>1, <1>5, <1>6, <1>7, PassIs
    <2>2. PassFits(run[p], over) /\ ~Sweeping(over)
      BY <1>1, <2>1, Steps DEF PassFits, Sweeping
    <2> QED BY <1>1, <1>3, <1>9, <2>1, <2>2, PassRests DEF o
  <1>10. CASE storeLease[x] = Nobody
    <2>1. taken.at = "family" /\ taken.steps = <<"age">> /\ taken.family = x /\ taken \in PassState
      BY <1>1, <1>4, <1>7, PassIs
    <2>2. PassFits(run[p], taken) /\ Sweeping(taken)
      BY <1>1, <2>1 DEF PassFits, Sweeping
    <2>3. ~Owns(run[p], o, x)
      BY <1>1, <1>10, StoreOf, Uids DEF o
    <2>4. x # run[p].uid /\ x # run[p].held /\ x # run[p].next
      BY <1>1, <2>3 DEF Owns
    <2>5. OwnsOnce(run[p], taken)
      BY <1>8, <2>1, <2>4 DEF OwnsOnce
    <2>6. \A u \in Sessions : Owns(run[p], taken, u) <=> Owns(run[p], o, u) \/ u = x
      BY <1>1, <2>1, <2>2 DEF Owns
    <2>7. Leases(p, run[p], taken, storeLease')
      BY <1>1, <1>3, <1>10, <2>6, Takes DEF o
    <2>8. IsDue(taken, logs, aged)
      BY <2>1 DEF IsDue
    <2> QED BY <1>3, <1>10, <2>1, <2>2, <2>5, <2>7, <2>8, PassLooks
  <1> QED BY <1>9, <1>10

\* The age is read under the lease: what is due is past the retention time.
LEMMA ReadAgeKeeps ==
  ASSUME StoreInv, NEW p \in Procs, Store!ReadAge(p)
  PROVE  StoreInv'
  <1> DEFINE o == pass[p]
             x == o.family
             here == Store!HasRoot(x)
             old == Store!HasRoot(x) /\ x \in aged
             w == [o EXCEPT !.there = here, !.due = old]
             s == Store!Judged(w)
  <1>1. /\ o.at = "family" /\ o.steps = <<"age">> /\ x \in Sessions /\ run[p].at \in {"live", "closing"} /\ Sweeping(o)
        /\ o.todo \in SUBSET Sessions /\ o.members \in SUBSET (Sessions \X {"root", "kid"}) /\ o.stale \in BOOLEAN
        /\ o \in PassOf(o.at, o.todo, o.members, x, o.steps, o.there, o.due, o.stale)
    BY AtJudge DEF Store!ReadAge
  <1>2. /\ pass' = [pass EXCEPT ![p] = s] /\ run' = run /\ logs' = logs /\ aged' = aged /\ saves' = saves
        /\ storeLease' = storeLease
    BY DEF Store!ReadAge, Store!SetPass, Store!Storage
  <1>3. here \in BOOLEAN /\ old \in BOOLEAN /\ (old => x \in aged)
    BY DEF Store!HasRoot
  <1>4. w \in PassOf("family", o.todo, o.members, x, <<"age">>, here, old, o.stale)
    <2> HIDE DEF o, here, old
    <2> QED BY <1>1 DEF PassOf, x
  <1>5. s \in PassOf("delete", o.todo, o.members, x, <<>>, here, old, o.stale)
    <2> HIDE DEF w, o, here, old
    <2>1. w.steps = <<"age">>
      BY <1>4, PassIs
    <2>2. s = [w EXCEPT !.steps = <<>>, !.at = "delete"]
      BY <2>1, Steps DEF Store!Judged
    <2> HIDE DEF s
    <2> QED BY <1>4, <2>2 DEF PassOf
  <1>6. OwnsOnce(run[p], o)
    BY StoreOf
  <1>7. "delete" \in {"off", "family", "delete"} /\ x \in Sessions \cup {Nobody} /\ <<>> \in ToJudge \cup {<<>>}
    BY <1>1
  <1> HIDE DEF s, w, o, x, here, old
  <1>8. s.at = "delete" /\ s.family = x /\ s.due = old /\ s \in PassState
    BY <1>1, <1>3, <1>5, <1>7, PassIs
  <1>9. PassFits(run[p], s) /\ Sweeping(s)
    BY <1>1, <1>8 DEF PassFits, Sweeping
  <1>10. OwnsOnce(run[p], s)
    BY <1>1, <1>6, <1>8 DEF OwnsOnce, x
  <1>11. \A u \in Sessions : Owns(run[p], s, u) <=> Owns(run[p], o, u)
    BY <1>1, <1>8, <1>9 DEF Owns, x
  <1>12. Leases(p, run[p], s, storeLease)
    BY <1>11, KeepsLeases DEF o
  <1>13. IsDue(s, logs, aged)
    BY <1>3, <1>8 DEF IsDue
  <1> QED BY <1>2, <1>8, <1>9, <1>10, <1>12, <1>13, PassLooks

\* A family that is swept.
LEMMA AtDelete ==
  ASSUME StoreInv, NEW p \in Procs, pass[p].at = "delete"
  PROVE  LET s == pass[p] IN
         /\ s.family \in Sessions /\ run[p].at \in {"live", "closing"} /\ run[p].uid \in Sessions /\ Sweeping(s)
         /\ OwnsOnce(run[p], s) /\ PassFits(run[p], s) /\ Owns(run[p], s, s.family)
         /\ s.todo \in SUBSET Sessions /\ s.members \in SUBSET (Sessions \X {"root", "kid"})
         /\ s.steps \in ToJudge \cup {<<>>} /\ s.there \in BOOLEAN /\ s.due \in BOOLEAN /\ s.stale \in BOOLEAN
         /\ s \in PassOf(s.at, s.todo, s.members, s.family, s.steps, s.there, s.due, s.stale)
  <1>1. /\ RunFits(run[p]) /\ PassFits(run[p], pass[p]) /\ OwnsOnce(run[p], pass[p]) /\ pass[p] \in PassState
        /\ run[p] \in RunState
    BY StoreOf
  <1>2. pass[p].family \in Sessions /\ run[p].at \in {"live", "closing"} /\ run[p].uid \in Sessions /\ Sweeping(pass[p])
    BY <1>1 DEF PassFits, RunFits, Sweeping
  <1>3. Owns(run[p], pass[p], pass[p].family)
    BY <1>2 DEF Owns
  <1>4. pass[p].steps \in ToJudge \cup {<<>>}
    BY <1>1 DEF PassState
  <1> QED BY <1>1, <1>2, <1>3, <1>4, PassFields

\* A log of the family is deleted when it has expired: no session that is open, and no other pass, knows of it.
LEMMA DeleteKeeps ==
  ASSUME StoreInv, NEW p \in Procs, Store!Delete(p)
  PROVE  StoreInv'
  <1> DEFINE o == pass[p]
             x == o.family
  <1>1. PICK f \in Store!Left(p) :
          LET gone == f \in logs /\ Store!Expired(p, f)
          IN  /\ logs' = IF gone THEN logs \ {f} ELSE logs
              /\ aged' = IF gone /\ f[2] = "root" THEN aged \ {f[1]} ELSE aged
              /\ pass' = [pass EXCEPT ![p] = [o EXCEPT !.members = @ \ {f}, !.stale = @ \/ (gone /\ f = <<latest, "root">>)]]
    BY DEF Store!Delete, Store!SetPass
  <1> DEFINE less == o.members \ {f}
             stale == o.stale \/ (f \in logs /\ Store!Expired(p, f) /\ f = <<latest, "root">>)
             s == [o EXCEPT !.members = less, !.stale = stale]
  <1>2. /\ o.at = "delete" /\ run' = run /\ saves' = saves /\ storeLease' = storeLease /\ pass' = [pass EXCEPT ![p] = s]
        /\ (logs' = logs \/ logs' = logs \ {f})
        /\ (aged' = aged \/ (aged' = aged \ {f[1]} /\ f[2] = "root" /\ logs' = logs \ {f}))
    BY <1>1 DEF Store!Delete
  <1>3. /\ x \in Sessions /\ run[p].at \in {"live", "closing"} /\ run[p].uid \in Sessions /\ Sweeping(o)
        /\ OwnsOnce(run[p], o) /\ PassFits(run[p], o) /\ Owns(run[p], o, x)
        /\ o.todo \in SUBSET Sessions /\ o.members \in SUBSET (Sessions \X {"root", "kid"})
        /\ o.steps \in ToJudge \cup {<<>>} /\ o.there \in BOOLEAN /\ o.due \in BOOLEAN /\ o.stale \in BOOLEAN
        /\ o \in PassOf(o.at, o.todo, o.members, x, o.steps, o.there, o.due, o.stale)
    BY <1>2, AtDelete
  <1>4. f[1] = x /\ f \in Sessions \X {"root", "kid"} /\ f = <<x, f[2]>> /\ f[2] \in {"root", "kid"}
    BY <1>3 DEF Store!Left
  <1>5. less \in SUBSET (Sessions \X {"root", "kid"}) /\ stale \in BOOLEAN
    BY <1>3
  <1> HIDE DEF less, stale
  <1>6. s \in PassOf("delete", o.todo, less, x, o.steps, o.there, o.due, stale)
    <2> HIDE DEF o
    <2> QED BY <1>2, <1>3 DEF PassOf, x
  <1> HIDE DEF s, o, x
  <1>7. s.at = "delete" /\ s.family = x /\ s.due = o.due /\ s \in PassState
    <2>1. "delete" \in {"off", "family", "delete"} /\ x \in Sessions \cup {Nobody}
      BY <1>3
    <2> QED BY <1>3, <1>5, <1>6, <2>1, PassIs
  <1>8. PassFits(run[p], s) /\ Sweeping(s) /\ OwnsOnce(run[p], s)
    BY <1>3, <1>7 DEF PassFits, Sweeping, OwnsOnce, x
  <1>9. Leases(p, run[p], s, storeLease)
    <2>1. \A u \in Sessions : Owns(run[p], s, u) <=> Owns(run[p], o, u)
      BY <1>3, <1>7, <1>8 DEF Owns, x
    <2> QED BY <2>1, KeepsLeases DEF o
  <1>10. StorageIs(logs', aged', saves', storeLease')
    BY <1>2 DEF StoreInv, StorageIs
  <1>11. ASSUME NEW u \in Sessions, u # x
         PROVE  (<<u, "root">> \in logs' <=> <<u, "root">> \in logs) /\ (u \in aged' <=> u \in aged)
    <2>1. f # <<u, "root">>
      BY <1>4, <1>11
    <2> QED BY <1>2, <1>4, <1>11, <2>1
  <1>12. IsDue(s, logs', aged')
    <2>1. SUFFICES ASSUME s.due, <<x, "root">> \in logs' PROVE x \in aged'
      BY <1>7 DEF IsDue
    <2>2. IsDue(o, logs, aged)
      BY StoreOf DEF o
    <2>3. <<x, "root">> \in logs
      BY <1>2, <2>1
    <2>4. x \in aged
      BY <1>2, <1>7, <2>1, <2>2, <2>3 DEF IsDue, x
    <2>5. ~(f[2] = "root" /\ logs' = logs \ {f})
      BY <1>4, <2>1
    <2> QED BY <1>2, <2>4, <2>5
  <1>13. ASSUME NEW q \in Procs PROVE Knows(run[q], logs', saves')
    <2>1. SUFFICES ASSUME run[q].at = "live" PROVE Knows(run[q], logs', saves')
      BY DEF Knows
    <2>2. run[q].uid \in Sessions /\ Owns(run[q], pass[q], run[q].uid) /\ Knows(run[q], logs, saves)
      BY <2>1, StoreOf DEF RunFits, Owns
    <2>3. run[q].uid # x
      <3>1. CASE q = p
        BY <1>3, <3>1 DEF OwnsOnce, x
      <3>2. CASE q # p
        BY <1>3, <2>2, <3>2, OneOwner DEF o
      <3> QED BY <3>1, <3>2
    <2> QED BY <1>2, <1>11, <2>2, <2>3 DEF Knows
  <1>14. ASSUME NEW q \in Procs \ {p} PROVE IsDue(pass[q], logs', aged')
    <2>1. SUFFICES ASSUME pass[q].at = "delete" PROVE IsDue(pass[q], logs', aged')
      BY DEF IsDue
    <2>2. pass[q].family \in Sessions /\ Owns(run[q], pass[q], pass[q].family) /\ IsDue(pass[q], logs, aged)
      BY <2>1, AtDelete, StoreOf
    <2>3. pass[q].family # x
      BY <1>3, <2>2, OneOwner DEF o
    <2> QED BY <1>11, <2>2, <2>3 DEF IsDue
  <1> QED BY <1>2, <1>7, <1>8, <1>9, <1>10, <1>12, <1>13, <1>14, PassMoves

\* The family is left, its lease released.
LEMMA LeaveFamilyKeeps ==
  ASSUME StoreInv, NEW p \in Procs, Store!LeaveFamily(p)
  PROVE  StoreInv'
  <1> DEFINE o == pass[p]
             x == o.family
             s == [Store!NoPass EXCEPT !.at = "family", !.todo = o.todo, !.members = o.members, !.stale = o.stale]
  <1>1. /\ o.at = "delete" /\ pass' = [pass EXCEPT ![p] = s] /\ run' = run /\ storeLease' = [storeLease EXCEPT ![x] = Nobody]
        /\ logs' = logs /\ aged' = aged /\ saves' = saves
    BY DEF Store!LeaveFamily, Store!SetPass, Store!Storage, Nobody
  <1>2. /\ x \in Sessions /\ run[p].at \in {"live", "closing"} /\ run[p].uid \in Sessions /\ Sweeping(o)
        /\ OwnsOnce(run[p], o) /\ Owns(run[p], o, x)
        /\ o.todo \in SUBSET Sessions /\ o.members \in SUBSET (Sessions \X {"root", "kid"}) /\ o.stale \in BOOLEAN
    BY <1>1, AtDelete
  <1>3. s \in PassOf("family", o.todo, o.members, Nobody, <<>>, FALSE, FALSE, o.stale)
    <2> HIDE DEF o
    <2> QED BY NoPassIs DEF PassOf
  <1>4. RunFits(run[p])
    BY StoreOf
  <1> HIDE DEF s, o, x
  <1>5. s.at = "family" /\ s.steps = <<>> /\ s \in PassState
    BY <1>2, <1>3 DEF PassOf, PassState
  <1>6. PassFits(run[p], s) /\ ~Sweeping(s) /\ OwnsOnce(run[p], s)
    BY <1>2, <1>5, Steps DEF PassFits, Sweeping, OwnsOnce
  <1>7. x # run[p].uid /\ x # run[p].held /\ x # run[p].next
    BY <1>2 DEF OwnsOnce, x
  <1>8. run[p].lent # x
    BY <1>2, <1>4, Uids DEF RunFits
  <1>9. \A u \in Sessions : Owns(run[p], s, u) <=> Owns(run[p], o, u) /\ u # x
    BY <1>2, <1>6, <1>7, <1>8 DEF Owns, x
  <1>10. Leases(p, run[p], s, [storeLease EXCEPT ![x] = Nobody])
    BY <1>2, <1>9, GivesUp DEF o
  <1>11. IsDue(s, logs, aged)
    BY <1>5 DEF IsDue
  <1> QED BY <1>1, <1>5, <1>6, <1>10, <1>11, PassLooks

\* The pass ends.
LEMMA EndPassKeeps ==
  ASSUME StoreInv, NEW p \in Procs, Store!EndPass(p)
  PROVE  StoreInv'
  <1>1. /\ pass[p].at = "family" /\ pass[p].steps = <<>> /\ pass' = [pass EXCEPT ![p] = Store!NoPass] /\ run' = run
        /\ logs' = logs /\ aged' = aged /\ saves' = saves /\ storeLease' = storeLease
    BY DEF Store!EndPass, Store!SetPass
  <1>2. Store!NoPass \in PassState /\ Store!NoPass.at = "off"
    BY NoPassIs DEF PassOf, PassState
  <1>3. PassFits(run[p], Store!NoPass) /\ ~Sweeping(Store!NoPass) /\ ~Sweeping(pass[p])
    BY <1>1, <1>2, Steps DEF PassFits, Sweeping
  <1> QED BY <1>1, <1>2, <1>3, PassRests

\* A log passes the retention time.
LEMMA AgeKeeps ==
  ASSUME StoreInv, Store!Age
  PROVE  StoreInv'
  <1>1. PICK u \in Store!Rooted \ aged : aged' = aged \cup {u}
    BY DEF Store!Age
  <1>2. logs' = logs /\ saves' = saves /\ storeLease' = storeLease /\ run' = run /\ pass' = pass /\ u \in Sessions
    BY <1>1 DEF Store!Age, Store!Rooted
  <1>3. StorageIs(logs', aged', saves', storeLease')
    BY <1>1, <1>2 DEF StoreInv, StorageIs
  <1>4. \A q \in Procs : Knows(run[q], logs', saves') /\ IsDue(pass[q], logs', aged')
    BY <1>1, <1>2 DEF StoreInv, Knows, IsDue
  <1> QED BY <1>2, <1>3, <1>4 DEF StoreInv

-----------------------------------------------------------------------------
(* The whole.                                                              *)

LEMMA StoreStart == Store!Init => StoreInv
  <1> SUFFICES ASSUME Store!Init PROVE StoreInv
    OBVIOUS
  <1>1. PICK known \in SUBSET Sessions :
          logs = known \X {"root"} /\ saves = [u \in Sessions |-> IF u \in known THEN 1 ELSE 0]
    BY DEF Store!Init
  <1>2. /\ aged = {} /\ storeLease = [u \in Sessions |-> Nobody]
        /\ run = [p \in Procs |-> Store!Off] /\ pass = [p \in Procs |-> Store!NoPass]
    BY DEF Store!Init, Nobody
  <1>3. StorageIs(logs, aged, saves, storeLease)
    BY <1>1, <1>2 DEF StorageIs
  <1>4. ASSUME NEW p \in Procs
        PROVE  /\ run[p] = Store!Off /\ pass[p] = Store!NoPass /\ Fits(run[p], pass[p])
               /\ Accounts(p, run[p], pass[p], storeLease) /\ Knows(run[p], logs, saves) /\ IsDue(pass[p], logs, aged)
    BY <1>2, OffFits, Uids DEF Accounts
  <1>5. run \in [Procs -> RunState] /\ pass \in [Procs -> PassState]
    BY <1>2, OffFits DEF Fits
  <1> QED BY <1>3, <1>4, <1>5 DEF StoreInv

LEMMA StoreNextKeeps ==
  ASSUME StoreInv, Store!Next
  PROVE  StoreInv'
  BY StartKeeps, CreateKeeps, LocateKeeps, AcquireKeeps, DecodeKeeps, SaveKeeps, QuitKeeps, LastSaveKeeps, SaveFailsKeeps,
     SaveKidKeeps, ReserveKeeps, CloseKeeps, CrashKeeps, ScanKeeps, NextFamilyKeeps, TakeFamilyKeeps, ReadAgeKeeps,
     DeleteKeeps, LeaveFamilyKeeps, EndPassKeeps, AgeKeeps DEF Store!Next

\* A step of the other parts leaves the sessions as they are.
LEMMA StoreSteps == [Next]_vars => Store!Next \/ UNCHANGED storeVars
  BY DEF Next, vars

LEMMA StoreInvariant == Spec => []StoreInv
  <1>1. Init => StoreInv
    BY StoreStart DEF Init
  <1>2. StoreInv /\ [Next]_vars => StoreInv'
    <2>1. CASE UNCHANGED storeVars
      BY <2>1 DEF storeVars, StoreInv
    <2> QED BY <2>1, StoreSteps, StoreNextKeeps
  <1> QED BY <1>1, <1>2, PTL DEF Spec

\* The steps of an opening and of a judgement say what a process owns.
LEMMA OwnsAsPromised ==
  ASSUME StoreInv
  PROVE  Store!SessionsKnowTheirLog /\ Store!OwnershipIsAccounted
  <1>1. ASSUME NEW p \in Procs, run[p].at = "live"
        PROVE  /\ storeLease[run[p].uid] = p /\ run[p].base = saves[run[p].uid]
               /\ run[p].base > 0 => Store!HasRoot(run[p].uid)
    <2>1. run[p].uid \in Sessions /\ Owns(run[p], pass[p], run[p].uid) /\ Knows(run[p], logs, saves)
      BY <1>1, StoreOf DEF RunFits, Owns
    <2>2. storeLease[run[p].uid] = p
      BY <2>1, StoreOf
    <2> QED BY <1>1, <2>1, <2>2 DEF Knows, Store!HasRoot
  <1>2. ASSUME NEW p \in Procs, NEW u \in Sessions
        PROVE  storeLease[u] = p <=>
                 \/ run[p].at \in {"live", "closing"} /\ run[p].uid = u
                 \/ run[p].at = "open" /\ run[p].uid = u /\ (run[p].lent = u \/ Head(run[p].steps) = "decode")
                 \/ u \in {run[p].held, run[p].next, run[p].lent}
                 \/ pass[p].at = "delete" /\ pass[p].family = u
                 \/ pass[p].at = "family" /\ pass[p].family = u /\ pass[p].steps # <<>> /\ Head(pass[p].steps) = "age"
    <2>1. (storeLease[u] = p <=> Owns(run[p], pass[p], u)) /\ RunFits(run[p]) /\ pass[p] \in PassState
      BY StoreOf
    <2>2. run[p].at = "open" => (run[p].steps = <<"decode">> <=> Head(run[p].steps) = "decode")
      BY <2>1, Steps DEF RunFits, ToOpen
    <2>3. pass[p].steps = <<"age">> <=> (pass[p].steps # <<>> /\ Head(pass[p].steps) = "age")
      BY <2>1, PassFields, Steps
    <2> QED BY <2>1, <2>2, <2>3 DEF Owns, Sweeping
  <1> QED BY <1>1, <1>2 DEF Store!SessionsKnowTheirLog, Store!OwnershipIsAccounted

\* What an open session remembers is its log, and a process owns just what it has open, has reserved or is sweeping,
\* through handoffs, failed saves, crashes and retention passes (session/lifecycle.py, session/store.py,
\* ui/cli/commands.py).
THEOREM SessionsStayOwned == Spec => []SessionsAreOwned
  <1>1. StoreInv => SessionsAreOwned
    BY OwnsAsPromised DEF SessionsAreOwned
  <1> QED BY <1>1, StoreInvariant, PTL

-----------------------------------------------------------------------------
(* A root log is removed only while it is past the retention time.         *)

LEMMA DeleteIsDue ==
  ASSUME StoreInv, NEW p \in Procs, Store!Delete(p), NEW u \in Sessions, <<u, "root">> \in logs, <<u, "root">> \notin logs'
  PROVE  u \in aged
  <1>1. PICK f \in Store!Left(p) :
          LET gone == f \in logs /\ Store!Expired(p, f)
          IN  logs' = IF gone THEN logs \ {f} ELSE logs
    BY DEF Store!Delete
  <1>2. f = <<u, "root">> /\ Store!Expired(p, f)
    BY <1>1
  <1>3. f[2] = "root" /\ f[1] = u
    BY <1>2
  <1>4. pass[p].due /\ pass[p].family = u /\ pass[p].at = "delete"
    BY <1>2, <1>3 DEF Store!Expired, Store!Left, Store!Delete
  <1>5. IsDue(pass[p], logs, aged)
    BY StoreOf
  <1> QED BY <1>4, <1>5 DEF IsDue

LEMMA StoreStepIsDue ==
  ASSUME StoreInv, Store!Next
  PROVE  \A u \in Sessions : (Store!HasRoot(u) /\ <<u, "root">> \notin logs') => u \in aged
  <1>1. \/ logs \subseteq logs'
        \/ \E p \in Procs : Store!Delete(p)
    <2>1. ASSUME NEW p \in Procs, Store!Start(p) \/ Store!Create(p) \/ Store!Locate(p) \/ Store!Acquire(p)
                 \/ Store!Decode(p) \/ Store!OpenFails(p)
          PROVE  logs' = logs
      BY <2>1 DEF Store!Start, Store!Create, Store!Locate, Store!Acquire, Store!Decode, Store!OpenFails, Store!Storage
    <2>2. ASSUME NEW p \in Procs, Store!Save(p) \/ Store!SaveAndPublish(p) \/ Store!SaveKid(p)
          PROVE  logs \subseteq logs'
      BY <2>2 DEF Store!Save, Store!SaveAndPublish, Store!SaveKid, Store!Commit
    <2>3. ASSUME NEW p \in Procs, Store!Quit(p) \/ Store!NothingToSave(p) \/ Store!SaveFails(p) \/ Store!Reserve(p)
                 \/ Store!Close(p) \/ Store!Crash(p)
          PROVE  logs' = logs
      BY ZenonT(60), <2>3 DEF Store!Quit, Store!NothingToSave, Store!SaveFails, Store!Reserve, Store!Close, Store!Crash, Store!Storage
    <2>4. ASSUME NEW p \in Procs, Store!Scan(p) \/ Store!NextFamily(p) \/ Store!TakeFamily(p) \/ Store!ReadAge(p)
                 \/ Store!LeaveFamily(p) \/ Store!EndPass(p)
          PROVE  logs' = logs
      BY <2>4 DEF Store!Scan, Store!NextFamily, Store!TakeFamily, Store!ReadAge, Store!LeaveFamily, Store!EndPass, Store!Storage
    <2>5. Store!Age => logs' = logs
      BY DEF Store!Age
    <2> QED BY <2>1, <2>2, <2>3, <2>4, <2>5 DEF Store!Next
  <1>2. CASE logs \subseteq logs'
    BY <1>2 DEF Store!HasRoot
  <1>3. CASE \E p \in Procs : Store!Delete(p)
    BY <1>3, DeleteIsDue DEF Store!HasRoot
  <1> QED BY <1>1, <1>2, <1>3

-----------------------------------------------------------------------------
(* The catalog cache.                                                      *)

\* No document.
Nothing == NoDocument
\* What the remote serves.
Docs == {Published[i] : i \in 1..Len(Published)}
\* A document is at least as new as another.
NotOlder(d, e) == d.version >= e.version

\* What a probe reads.
Probes == [cached : Docs \cup {Nothing}, etag : Docs \cup {Nothing}]
\* A task that may fetch: its probe, its request and its answer.
TaskState ==
    [at : {"idle", "probe", "request", "commit", "write"}, attempt : 0..2,
     probe : {Nothing} \cup Probes,
     response : Docs \cup {Nothing}, asked : 0..Len(Published),
     answer : Docs \cup {Nothing} \cup {Bundled[p] : p \in Procs}, cancelled : BOOLEAN]
ProcessState == [active : Docs \cup {Bundled[p] : p \in Procs}, checking : BOOLEAN, due : BOOLEAN]

CatalogTypes ==
    /\ remote \in 1..Len(Published) /\ cache \in Docs \cup {Nothing} /\ etag \in Docs \cup {Nothing}
    /\ lock \in Catalog!Tasks \cup {Nothing} /\ faults \in 0..MaxFaults
    /\ task \in [Catalog!Tasks -> TaskState] /\ proc \in [Procs -> ProcessState]

\* The lock is held to write, and the first file is written already.
LockIsHeld ==
    \A t \in Catalog!Tasks :
        /\ lock = t <=> task[t].at = "write"
        /\ task[t].at = "write" => task[t].response # Nothing /\ cache = task[t].response

\* What a probe read: no cache, no ETag; and the ETag is of no newer document than the cache.
ProbeFits(r) == r.etag # Nothing => r.cached # Nothing /\ NotOlder(r.cached, r.etag)
\* The cache has what the probe saw, or something newer.
StillThere(r, c) == r.cached # Nothing => c # Nothing /\ (c = r.cached \/ c.version > r.cached.version)

\* What a task knows.
TaskFits(r, c, n) ==
    /\ r.at \in {"request", "commit"} =>
          /\ r.probe \in Probes /\ ProbeFits(r.probe)
          /\ n = 0 \/ r.attempt = 2 => StillThere(r.probe, c)
    /\ r.at \in {"commit", "write"} => r.asked \in 1..Len(Published)
    /\ r.at = "commit" =>
          IF r.response = Nothing THEN r.probe.etag = Published[r.asked] ELSE r.response = Published[r.asked]
    /\ r.at = "write" => r.response = Published[r.asked]
    /\ r.attempt = 2 => n > 0
    /\ r.at # "idle" => r.answer = Nothing
    /\ r.answer # Nothing => r.asked \in 1..Len(Published) /\ NotOlder(r.answer, Published[r.asked])

\* While no file is being written, the ETag is of no newer document than the cache; until the first fault always, and
\* without a cache there is none.
Aligned ==
    /\ faults = 0 \/ lock = Nothing => (cache # Nothing /\ etag # Nothing => NotOlder(cache, etag))
    /\ faults = 0 /\ cache = Nothing => etag = Nothing

\* The inductive invariant of the catalog, whatever fails.
CatalogInv == CatalogTypes /\ LockIsHeld /\ Catalog!CheckIsReleased
\* And what one fault at most leaves of what the tasks know.
CatalogKnows == Aligned /\ \A t \in Catalog!Tasks : TaskFits(task[t], cache, faults)

-----------------------------------------------------------------------------
(* What a step of the catalog does.                                        *)

\* The one task with these fields, and the one process.
TaskOf(a, n, b, r, k, w, c) ==
    [at : {a}, attempt : {n}, probe : {b}, response : {r}, asked : {k}, answer : {w}, cancelled : {c}]
ProcessOf(a, c, d) == [active : {a}, checking : {c}, due : {d}]
\* Documents a task may end with.
Answers == Docs \cup {Bundled[p] : p \in Procs}

LEMMA TaskIs ==
  ASSUME NEW a, NEW n, NEW b, NEW r, NEW k, NEW w, NEW c, NEW x \in TaskOf(a, n, b, r, k, w, c)
  PROVE  /\ x.at = a /\ x.attempt = n /\ x.probe = b /\ x.response = r /\ x.asked = k /\ x.answer = w /\ x.cancelled = c
         /\ /\ a \in {"idle", "probe", "request", "commit", "write"} /\ n \in 0..2 /\ b \in {Nothing} \cup Probes
            /\ r \in Docs \cup {Nothing} /\ k \in 0..Len(Published) /\ w \in Answers \cup {Nothing} /\ c \in BOOLEAN
            => x \in TaskState
  BY DEF TaskOf, TaskState, Answers

LEMMA TaskTyped ==
  ASSUME NEW x, x \in TaskOf(x.at, x.attempt, x.probe, x.response, x.asked, x.answer, x.cancelled),
         x.at \in {"idle", "probe", "request", "commit", "write"}, x.attempt \in 0..2, x.probe \in {Nothing} \cup Probes,
         x.response \in Docs \cup {Nothing}, x.asked \in 0..Len(Published), x.answer \in Answers \cup {Nothing},
         x.cancelled \in BOOLEAN
  PROVE  x \in TaskState
  BY TaskIs

LEMMA TaskFields ==
  ASSUME NEW x \in TaskState
  PROVE  /\ x.at \in {"idle", "probe", "request", "commit", "write"} /\ x.attempt \in 0..2 /\ x.probe \in {Nothing} \cup Probes
         /\ x.response \in Docs \cup {Nothing} /\ x.asked \in 0..Len(Published) /\ x.answer \in Answers \cup {Nothing}
         /\ x.cancelled \in BOOLEAN
         /\ x \in TaskOf(x.at, x.attempt, x.probe, x.response, x.asked, x.answer, x.cancelled)
  BY DEF TaskOf, TaskState, Answers

LEMMA ProcessIs ==
  ASSUME NEW a, NEW c, NEW d, NEW x \in ProcessOf(a, c, d)
  PROVE  /\ x.active = a /\ x.checking = c /\ x.due = d
         /\ a \in Answers /\ c \in BOOLEAN /\ d \in BOOLEAN => x \in ProcessState
  BY DEF ProcessOf, ProcessState, Answers

LEMMA ProcessFields ==
  ASSUME NEW x \in ProcessState
  PROVE  x.active \in Answers /\ x.checking \in BOOLEAN /\ x.due \in BOOLEAN /\ x \in ProcessOf(x.active, x.checking, x.due)
  BY DEF ProcessOf, ProcessState, Answers

\* Documents have versions.
LEMMA Versions ==
  /\ \A d \in Answers : d # Nothing /\ d.version \in Nat
  /\ Docs \subseteq Answers /\ \A p \in Procs : Bundled[p] \in Answers
  /\ \A i \in 1..Len(Published) : Published[i] \in Docs
  /\ Len(Published) \in Nat \ {0}
  BY CatalogConstants DEF Answers, Docs, Nothing

\* A task is one of a process.
LEMMA TaskOwner ==
  ASSUME NEW t \in Catalog!Tasks
  PROVE  /\ t[1] \in Procs /\ t[2] \in {"refresh", "sync"} /\ t = <<t[1], t[2]>> /\ Catalog!Of(t) = t[1] /\ t # Nothing
         /\ \A p \in Procs : <<p, "refresh">> \in Catalog!Tasks
  BY CatalogConstants DEF Catalog!Tasks, Catalog!Of, Nothing

LEMMA IdleIs ==
  Catalog!Idle \in TaskOf("idle", 0, Nothing, Nothing, 0, Nothing, FALSE)
  BY DEF Catalog!Idle, TaskOf, Nothing

LEMMA IdleFits ==
  /\ Catalog!Idle \in TaskState /\ Catalog!Idle.at = "idle" /\ Catalog!Idle.attempt = 0 /\ Catalog!Idle.answer = Nothing
  /\ \A c, n : TaskFits(Catalog!Idle, c, n)
  <1> DEFINE r == Catalog!Idle
  <1>1. r.at = "idle" /\ r.attempt = 0 /\ r.answer = Nothing
    BY DEF Catalog!Idle, r, Nothing
  <1>2. r \in TaskState
    BY Versions DEF Catalog!Idle, TaskState, Nothing
  <1> HIDE DEF r
  <1>3. \A c, n : TaskFits(r, c, n)
    BY <1>1 DEF TaskFits
  <1> QED BY <1>1, <1>2, <1>3 DEF r

\* What the catalog is beside its tasks and processes.
FilesAre(e, c, g, f) == e \in 1..Len(Published) /\ c \in Docs \cup {Nothing} /\ g \in Docs \cup {Nothing} /\ f \in 0..MaxFaults

\* A step of one task.
LEMMA TaskMoves ==
  ASSUME CatalogInv, NEW t \in Catalog!Tasks, NEW r \in TaskState, NEW d \in ProcessState,
         task' = [task EXCEPT ![t] = r],
         proc' = [proc EXCEPT ![t[1]] = d] \/ (proc' = proc /\ d = proc[t[1]]),
         FilesAre(remote', cache', etag', faults'),
         lock' \in Catalog!Tasks \cup {Nothing},
         d.checking = (IF t[2] = "refresh" THEN r.at # "idle" ELSE proc[t[1]].checking),
         lock' = t <=> r.at = "write",
         r.at = "write" => r.response # Nothing /\ cache' = r.response,
         \A u \in Catalog!Tasks \ {t} : (lock' = u <=> lock = u) /\ (lock = u => cache' = cache)
  PROVE  CatalogInv'
  <1>1. task \in [Catalog!Tasks -> TaskState] /\ proc \in [Procs -> ProcessState]
    BY DEF CatalogInv, CatalogTypes
  <1>2. /\ task' \in [Catalog!Tasks -> TaskState] /\ task'[t] = r
        /\ \A u \in Catalog!Tasks \ {t} : task'[u] = task[u]
    BY <1>1
  <1>3. /\ proc' \in [Procs -> ProcessState] /\ proc'[t[1]] = d
        /\ \A q \in Procs \ {t[1]} : proc'[q] = proc[q]
    BY <1>1, TaskOwner
  <1>4. CatalogTypes'
    BY <1>2, <1>3 DEF CatalogTypes, FilesAre
  <1>5. LockIsHeld'
    <2>1. ASSUME NEW u \in Catalog!Tasks
          PROVE  /\ lock' = u <=> task'[u].at = "write"
                 /\ task'[u].at = "write" => task'[u].response # Nothing /\ cache' = task'[u].response
      <3>1. CASE u = t
        BY <1>2, <3>1
      <3>2. CASE u # t
        BY <1>2, <3>2 DEF CatalogInv, LockIsHeld
      <3> QED BY <3>1, <3>2
    <2> QED BY <2>1 DEF LockIsHeld
  <1>6. Catalog!CheckIsReleased'
    <2>1. ASSUME NEW q \in Procs PROVE proc'[q].checking = (task'[<<q, "refresh">>].at # "idle")
      <3>1. proc[q].checking = (task[<<q, "refresh">>].at # "idle") /\ <<q, "refresh">> \in Catalog!Tasks
        BY TaskOwner DEF CatalogInv, Catalog!CheckIsReleased
      <3>2. CASE q # t[1]
        <4>1. <<q, "refresh">> # t
          BY <3>2
        <4> QED BY <1>2, <1>3, <3>1, <3>2, <4>1
      <3>3. CASE q = t[1] /\ t[2] = "refresh"
        <4>1. <<q, "refresh">> = t
          BY <3>3, TaskOwner
        <4> QED BY <1>2, <1>3, <3>3, <4>1
      <3>4. CASE q = t[1] /\ t[2] # "refresh"
        <4>1. <<q, "refresh">> # t
          BY <3>4
        <4> QED BY <1>2, <1>3, <3>1, <3>4, <4>1
      <3> QED BY <3>2, <3>3, <3>4
    <2> QED BY <2>1 DEF Catalog!CheckIsReleased
  <1> QED BY <1>4, <1>5, <1>6 DEF CatalogInv

\* The cache stays, or is replaced by something newer.
Grows(c, d) == d = c \/ (d \in Docs /\ (c # Nothing => d.version > c.version))

LEMMA FitsGrow ==
  ASSUME NEW c \in Docs \cup {Nothing}, NEW d \in Docs \cup {Nothing}, Grows(c, d), NEW n \in Nat, NEW r \in TaskState, TaskFits(r, c, n)
  PROVE  TaskFits(r, d, n)
  <1>1. ASSUME r.probe \in Probes, StillThere(r.probe, c)
        PROVE  StillThere(r.probe, d)
    <2>1. r.probe.cached \in Docs \cup {Nothing}
      BY <1>1 DEF Probes
    <2>2. \A e \in Docs : e # Nothing /\ e.version \in Nat
      BY Versions
    <2> QED BY <1>1, <2>1, <2>2 DEF StillThere, Grows
  <1> QED BY <1>1 DEF TaskFits

\* A step of one task, as far as what the tasks know.
LEMMA KnowsMoves ==
  ASSUME CatalogInv, CatalogKnows, NEW t \in Catalog!Tasks, NEW r \in TaskState, task' = [task EXCEPT ![t] = r],
         cache' \in Docs \cup {Nothing}, Grows(cache, cache'), faults' = faults, TaskFits(r, cache', faults), Aligned'
  PROVE  CatalogKnows'
  <1>1. task \in [Catalog!Tasks -> TaskState] /\ cache \in Docs \cup {Nothing} /\ faults \in Nat
    BY CatalogConstants DEF CatalogInv, CatalogTypes
  <1>2. task'[t] = r /\ \A u \in Catalog!Tasks \ {t} : task'[u] = task[u] /\ task[u] \in TaskState
    BY <1>1
  <1>3. \A u \in Catalog!Tasks : TaskFits(task[u], cache, faults)
    BY DEF CatalogKnows
  <1>4. \A u \in Catalog!Tasks \ {t} : TaskFits(task'[u], cache', faults')
    BY <1>1, <1>2, <1>3, FitsGrow
  <1> QED BY <1>2, <1>4 DEF CatalogKnows

\* The fields of a task and of its process.
LEMMA CatalogOf ==
  ASSUME CatalogInv, NEW t \in Catalog!Tasks
  PROVE  /\ task[t] \in TaskState /\ proc[t[1]] \in ProcessState
         /\ FilesAre(remote, cache, etag, faults) /\ lock \in Catalog!Tasks \cup {Nothing}
         /\ proc[t[1]].checking = (task[<<t[1], "refresh">>].at # "idle")
         /\ lock = t <=> task[t].at = "write"
         /\ task[t].at = "write" => task[t].response # Nothing /\ cache = task[t].response
         /\ t[2] = "refresh" => <<t[1], "refresh">> = t
  BY TaskOwner DEF CatalogInv, CatalogTypes, LockIsHeld, Catalog!CheckIsReleased, FilesAre

\* select: the cache when it is newer than what the release ships.
LEMMA CurrentIs ==
  ASSUME CatalogInv, NEW t \in Catalog!Tasks
  PROVE  /\ Catalog!Current(t) \in Answers /\ Catalog!Current(t) # Nothing /\ Catalog!Current(t).version \in Nat
         /\ cache # Nothing => NotOlder(Catalog!Current(t), cache)
  <1>1. t[1] \in Procs /\ Catalog!Of(t) = t[1] /\ cache \in Docs \cup {Nothing}
    BY TaskOwner, CatalogOf DEF FilesAre
  <1>2. Catalog!Current(t) = IF cache # Nothing /\ cache.version > Bundled[t[1]].version THEN cache ELSE Bundled[t[1]]
    BY <1>1 DEF Catalog!Current, Catalog!select, Nothing
  <1> QED BY <1>1, <1>2, Versions DEF NotOlder

\* How a fetch ends.
LEMMA EndsIs ==
  ASSUME CatalogInv, NEW t \in Catalog!Tasks, NEW ans \in Answers \cup {Nothing}, Catalog!Ends(t, ans)
  PROVE  \E r \in TaskState, d \in ProcessState :
           /\ task' = [task EXCEPT ![t] = r] /\ proc' = [proc EXCEPT ![t[1]] = d]
           /\ r.at = "idle" /\ r.attempt = 0
           /\ r.answer = Nothing \/ (r.answer = ans /\ r.asked = task[t].asked /\ ~task[t].cancelled)
           /\ d.checking = (IF t[2] = "refresh" THEN FALSE ELSE proc[t[1]].checking)
  <1> DEFINE o == task[t]
             g == proc[t[1]]
             r == IF ans = Nothing \/ o.cancelled THEN Catalog!Idle ELSE [Catalog!Idle EXCEPT !.asked = o.asked, !.answer = ans]
             d == IF ans = Nothing THEN Catalog!Released(t, FALSE) ELSE Catalog!Activated(t, Catalog!Released(t, TRUE), ans)
  <1>1. task' = [task EXCEPT ![t] = r] /\ proc' = [proc EXCEPT ![t[1]] = d]
    BY TaskOwner DEF Catalog!Ends, Nothing
  <1>2. o \in TaskState /\ g \in ProcessState /\ t[2] \in {"refresh", "sync"}
    BY CatalogOf, TaskOwner
  <1>3. /\ r \in TaskState /\ r.at = "idle" /\ r.attempt = 0
        /\ r.answer = Nothing \/ (r.answer = ans /\ r.asked = o.asked /\ ~o.cancelled)
    <2> HIDE DEF o
    <2>1. CASE ans = Nothing \/ o.cancelled
      BY <2>1, IdleFits
    <2>2. CASE ~(ans = Nothing \/ o.cancelled)
      <3>1. r \in TaskOf("idle", 0, Nothing, Nothing, o.asked, ans, FALSE)
        BY <2>2, IdleIs DEF TaskOf
      <3> HIDE DEF r
      <3>2. /\ r.at = "idle" /\ r.attempt = 0 /\ r.probe = Nothing /\ r.response = Nothing /\ r.asked = o.asked
            /\ r.answer = ans /\ r.cancelled = FALSE
            /\ r \in TaskOf(r.at, r.attempt, r.probe, r.response, r.asked, r.answer, r.cancelled)
        BY <3>1 DEF TaskOf
      <3>3. /\ o.asked \in 0..Len(Published) /\ ans \in Answers \cup {Nothing} /\ 0 \in 0..2 /\ Nothing \in {Nothing} \cup Probes
            /\ Nothing \in Docs \cup {Nothing} /\ FALSE \in BOOLEAN /\ "idle" \in {"idle", "probe", "request", "commit", "write"}
        BY <1>2, TaskFields
      <3>4. r \in TaskState
        BY <3>2, <3>3, TaskTyped
      <3> QED BY <2>2, <3>2, <3>4
    <2> QED BY <2>1, <2>2
  <1>4. ASSUME NEW ok \in BOOLEAN
        PROVE  \E due \in BOOLEAN : Catalog!Released(t, ok)
                 \in ProcessOf(g.active, IF t[2] = "refresh" THEN FALSE ELSE g.checking, due)
    <2>1. t[2] = "refresh" => Catalog!Released(t, ok) \in ProcessOf(g.active, FALSE, g.due /\ o.cancelled)
      <3>1. t[2] = "refresh" => Catalog!Released(t, ok) = [g EXCEPT !.checking = FALSE, !.due = @ /\ o.cancelled]
        BY TaskOwner DEF Catalog!Released
      <3> HIDE DEF g, o
      <3> QED BY <1>2, <3>1, ProcessFields DEF ProcessOf
    <2>2. t[2] # "refresh" => Catalog!Released(t, ok) \in ProcessOf(g.active, g.checking, g.due /\ (o.cancelled \/ ~ok))
      <3>1. t[2] # "refresh" => Catalog!Released(t, ok) = [g EXCEPT !.due = @ /\ (o.cancelled \/ ~ok)]
        BY TaskOwner DEF Catalog!Released
      <3> HIDE DEF g, o
      <3> QED BY <1>2, <3>1, ProcessFields DEF ProcessOf
    <2>3. (g.due /\ o.cancelled) \in BOOLEAN /\ (g.due /\ (o.cancelled \/ ~ok)) \in BOOLEAN
      OBVIOUS
    <2> QED BY <2>1, <2>2, <2>3
  <1>5. d \in ProcessState /\ d.checking = (IF t[2] = "refresh" THEN FALSE ELSE g.checking)
    <2> DEFINE b == Catalog!Released(t, ans # Nothing)
               k == IF t[2] = "refresh" THEN FALSE ELSE g.checking
    <2>1. PICK due \in BOOLEAN : b \in ProcessOf(g.active, k, due)
      BY <1>4
    <2>2. k \in BOOLEAN /\ g.active \in Answers
      BY <1>2, ProcessFields
    <2>3. d = b \/ (ans # Nothing /\ d = [b EXCEPT !.active = ans])
      BY DEF Catalog!Activated
    <2> HIDE DEF b, k, d
    <2>4. b \in ProcessState /\ b.checking = k
      BY <2>1, <2>2, ProcessIs
    <2>5. d = [b EXCEPT !.active = ans] => d \in ProcessOf(ans, k, due)
      BY <2>1 DEF ProcessOf
    <2>6. d = [b EXCEPT !.active = ans] /\ ans # Nothing => d \in ProcessState /\ d.checking = k
      BY <2>2, <2>5 DEF ProcessOf, ProcessState, Answers
    <2> QED BY <2>3, <2>4, <2>6 DEF k
  <1> HIDE DEF r, d, o, g
  <1> QED BY <1>1, <1>3, <1>5 DEF o, g

\* A step of one task that leaves the files and the lock as they are.
LEMMA TaskSteps ==
  ASSUME CatalogInv, NEW t \in Catalog!Tasks, NEW r \in TaskState, NEW d \in ProcessState,
         task' = [task EXCEPT ![t] = r],
         proc' = [proc EXCEPT ![t[1]] = d] \/ (proc' = proc /\ d = proc[t[1]]),
         remote' = remote, cache' = cache, etag' = etag, lock' = lock, faults' = faults,
         d.checking = (IF t[2] = "refresh" THEN r.at # "idle" ELSE proc[t[1]].checking),
         r.at # "write", task[t].at # "write"
  PROVE  CatalogInv' /\ (CatalogKnows /\ TaskFits(r, cache, faults) => CatalogKnows')
  <1>1. CatalogInv'
    <2>1. FilesAre(remote', cache', etag', faults') /\ lock' \in Catalog!Tasks \cup {Nothing} /\ lock # t
      BY CatalogOf
    <2>2. (lock' = t <=> r.at = "write") /\ (r.at = "write" => r.response # Nothing /\ cache' = r.response)
      BY <2>1
    <2>3. \A u \in Catalog!Tasks \ {t} : (lock' = u <=> lock = u) /\ (lock = u => cache' = cache)
      OBVIOUS
    <2> QED BY <2>1, <2>2, <2>3, TaskMoves
  <1>2. ASSUME CatalogKnows, TaskFits(r, cache, faults) PROVE CatalogKnows'
    <2>1. cache' \in Docs \cup {Nothing} /\ Grows(cache, cache')
      BY CatalogOf DEF FilesAre, Grows
    <2>2. Aligned' /\ TaskFits(r, cache', faults)
      BY <1>2 DEF CatalogKnows, Aligned
    <2> QED BY <1>2, <2>1, <2>2, KnowsMoves
  <1> QED BY <1>1, <1>2

\* A step keeps what holds whatever fails, and what the tasks know.
Keeps == CatalogInv' /\ (CatalogKnows /\ MaxFaults <= 1 => CatalogKnows')

\* A process as it was, but for its claim on the check.
LEMMA Claims ==
  ASSUME CatalogInv, NEW t \in Catalog!Tasks, NEW c \in BOOLEAN
  PROVE  [proc[t[1]] EXCEPT !.checking = c] \in ProcessState /\ [proc[t[1]] EXCEPT !.checking = c].checking = c
  <1> DEFINE g == proc[t[1]]
             d == [g EXCEPT !.checking = c]
  <1>1. g \in ProcessOf(g.active, g.checking, g.due) /\ g.active \in Answers /\ g.due \in BOOLEAN
    BY CatalogOf, ProcessFields
  <1>2. d \in ProcessOf(g.active, c, g.due)
    <2> HIDE DEF g
    <2> QED BY <1>1 DEF ProcessOf
  <1> HIDE DEF g, d
  <1>3. d \in ProcessState /\ d.checking = c
    BY <1>1, <1>2, ProcessIs
  <1> QED BY <1>3 DEF g, d

\* probe, under the lock.
LEMMA ProbeKeeps ==
  ASSUME CatalogInv, NEW t \in Catalog!Tasks, Catalog!Probe(t)
  PROVE  Keeps
  <1> DEFINE o == task[t]
             g == proc[t[1]]
             e == [cached |-> cache, etag |-> IF cache = Nothing THEN Nothing ELSE etag]
             r == IF o.cancelled THEN Catalog!Idle ELSE [o EXCEPT !.at = "request", !.probe = e]
             c == g.checking /\ ~(o.cancelled /\ t[2] = "refresh")
             d == [g EXCEPT !.checking = c]
  <1>1. /\ o.at = "probe" /\ lock = Nothing /\ remote' = remote /\ cache' = cache /\ etag' = etag /\ lock' = lock
        /\ faults' = faults /\ task' = [task EXCEPT ![t] = r] /\ proc' = [proc EXCEPT ![t[1]] = d]
    BY TaskOwner DEF Catalog!Probe, Nothing
  <1>2. /\ o \in TaskState /\ g \in ProcessState /\ cache \in Docs \cup {Nothing} /\ etag \in Docs \cup {Nothing}
        /\ t[2] \in {"refresh", "sync"} /\ (t[2] = "refresh" => g.checking = (o.at # "idle"))
    BY CatalogOf, TaskOwner DEF FilesAre
  <1>3. e \in Probes /\ e.cached = cache /\ (e.etag # Nothing => cache # Nothing /\ e.etag = etag)
    BY <1>2 DEF Probes
  <1>4. c \in BOOLEAN
    BY <1>2, ProcessFields
  <1>5. d \in ProcessState /\ d.checking = c
    BY <1>4, Claims
  <1> HIDE DEF e
  <1>6. o.cancelled => r \in TaskState /\ r.at = "idle"
    BY IdleFits
  <1>7. ~o.cancelled => r \in TaskOf("request", o.attempt, e, o.response, o.asked, o.answer, o.cancelled)
    <2> HIDE DEF o
    <2> QED BY ZenonT(60), <1>2, TaskFields DEF TaskOf
  <1>8. /\ o.attempt \in 0..2 /\ o.response \in Docs \cup {Nothing} /\ o.asked \in 0..Len(Published)
        /\ o.answer \in Answers \cup {Nothing} /\ o.cancelled \in BOOLEAN /\ e \in {Nothing} \cup Probes
        /\ "request" \in {"idle", "probe", "request", "commit", "write"}
    BY <1>2, <1>3, TaskFields
  <1>9. CatalogKnows => TaskFits(o, cache, faults)
    BY DEF CatalogKnows
  <1> HIDE DEF r, o, d, g, c
  <1>10. ~o.cancelled => r \in TaskState /\ r.at = "request" /\ r.probe = e /\ r.answer = o.answer /\ r.asked = o.asked /\ r.attempt = o.attempt
    BY <1>7, <1>8, TaskIs
  <1>11. d.checking = (IF t[2] = "refresh" THEN r.at # "idle" ELSE g.checking)
    BY <1>1, <1>2, <1>4, <1>5, <1>6, <1>8, <1>10, ProcessFields DEF c
  <1>12. CatalogKnows => TaskFits(r, cache, faults)
    <2>1. CASE o.cancelled
      BY <2>1, IdleFits DEF r
    <2>2. CASE ~o.cancelled
      <3>1. SUFFICES ASSUME CatalogKnows PROVE TaskFits(r, cache, faults)
        OBVIOUS
      <3>2. ProbeFits(e)
        BY <1>1, <1>3, <3>1 DEF CatalogKnows, Aligned, ProbeFits
      <3>3. StillThere(e, cache)
        BY <1>3 DEF StillThere
      <3> QED BY <1>1, <1>3, <1>9, <1>10, <2>2, <3>1, <3>2, <3>3 DEF TaskFits
    <2> QED BY <2>1, <2>2
  <1>13. r \in TaskState /\ r.at # "write"
    BY <1>6, <1>10, <1>8
  <1> QED BY <1>1, <1>5, <1>11, <1>12, <1>13, TaskSteps DEF Keeps, o, g

\* The conditional GET.
LEMMA RequestKeeps ==
  ASSUME CatalogInv, NEW t \in Catalog!Tasks, Catalog!Request(t)
  PROVE  Keeps
  <1> DEFINE o == task[t]
             g == proc[t[1]]
             a == IF o.probe.etag = Published[remote] THEN Nothing ELSE Published[remote]
             r == [o EXCEPT !.at = "commit", !.asked = remote, !.response = a]
  <1>1. /\ o \in TaskState /\ g \in ProcessState /\ remote \in 1..Len(Published) /\ task \in [Catalog!Tasks -> TaskState]
        /\ t[2] \in {"refresh", "sync"} /\ (t[2] = "refresh" => g.checking = (o.at # "idle"))
    BY CatalogOf, TaskOwner DEF FilesAre, CatalogInv, CatalogTypes
  <1>2. /\ o.at = "request" /\ remote' = remote /\ cache' = cache /\ etag' = etag /\ lock' = lock
        /\ faults' = faults /\ proc' = proc /\ task' = [task EXCEPT ![t] = r]
    BY <1>1 DEF Catalog!Request, Nothing
  <1>3. /\ o.attempt \in 0..2 /\ o.probe \in {Nothing} \cup Probes /\ a \in Docs \cup {Nothing} /\ remote \in 0..Len(Published)
        /\ o.answer \in Answers \cup {Nothing} /\ o.cancelled \in BOOLEAN
        /\ "commit" \in {"idle", "probe", "request", "commit", "write"}
        /\ o \in TaskOf(o.at, o.attempt, o.probe, o.response, o.asked, o.answer, o.cancelled)
    <2>1. remote \in 0..Len(Published)
      BY <1>1, Versions
    <2>2. a \in Docs \cup {Nothing}
      BY <1>1, Versions
    <2> QED BY <1>1, <2>1, <2>2, TaskFields
  <1>4. IF a = Nothing THEN o.probe.etag = Published[remote] ELSE a = Published[remote]
    BY <1>1, Versions
  <1> HIDE DEF a
  <1>5. r \in TaskOf("commit", o.attempt, o.probe, a, remote, o.answer, o.cancelled)
    <2> HIDE DEF o
    <2> QED BY <1>3 DEF TaskOf
  <1>6. CatalogKnows => TaskFits(o, cache, faults)
    BY DEF CatalogKnows
  <1> HIDE DEF r, o, g
  <1>7. /\ r \in TaskState /\ r.at = "commit" /\ r.attempt = o.attempt /\ r.probe = o.probe /\ r.response = a /\ r.asked = remote
        /\ r.answer = o.answer
    BY <1>3, <1>5, TaskIs
  <1>8. CatalogKnows => TaskFits(r, cache, faults)
    <2>1. o.at \in {"request", "commit"} /\ o.at # "idle" /\ r.at # "write" /\ r.at # "idle"
      BY <1>2, <1>7
    <2> QED BY <1>1, <1>4, <1>6, <1>7, <2>1 DEF TaskFits
  <1>9. g.checking = (IF t[2] = "refresh" THEN r.at # "idle" ELSE g.checking)
    BY <1>1, <1>2, <1>7
  <1> QED BY <1>1, <1>2, <1>7, <1>8, <1>9, TaskSteps DEF Keeps, o, g

\* A fetch ends, with the files as they are.
LEMMA EndKeeps ==
  ASSUME CatalogInv, NEW t \in Catalog!Tasks, NEW ans \in Answers \cup {Nothing}, Catalog!Ends(t, ans),
         remote' = remote, cache' = cache, etag' = etag, lock' = lock, faults' = faults, task[t].at \notin {"idle", "write"},
         CatalogKnows /\ MaxFaults <= 1 /\ ans # Nothing /\ ~task[t].cancelled =>
            task[t].asked \in 1..Len(Published) /\ NotOlder(ans, Published[task[t].asked])
  PROVE  Keeps
  <1>1. PICK r \in TaskState, d \in ProcessState :
           /\ task' = [task EXCEPT ![t] = r] /\ proc' = [proc EXCEPT ![t[1]] = d]
           /\ r.at = "idle" /\ r.attempt = 0
           /\ r.answer = Nothing \/ (r.answer = ans /\ r.asked = task[t].asked /\ ~task[t].cancelled)
           /\ d.checking = (IF t[2] = "refresh" THEN FALSE ELSE proc[t[1]].checking)
    BY ZenonT(60), EndsIs
  <1>2. d.checking = (IF t[2] = "refresh" THEN r.at # "idle" ELSE proc[t[1]].checking)
    BY <1>1
  <1>3. CatalogKnows /\ MaxFaults <= 1 => TaskFits(r, cache, faults)
    BY <1>1 DEF TaskFits
  <1> QED BY <1>1, <1>2, <1>3, TaskSteps DEF Keeps

LEMMA RequestFailsKeeps ==
  ASSUME CatalogInv, NEW t \in Catalog!Tasks, Catalog!RequestFails(t)
  PROVE  Keeps
  BY EndKeeps DEF Catalog!RequestFails, Nothing

\* commit of a 304: what it was asked about is there, or something newer; or the fetch is tried again, without an ETag
\* that could mislead it.
LEMMA NotModifiedKeeps ==
  ASSUME CatalogInv, NEW t \in Catalog!Tasks, Catalog!CommitNotModified(t)
  PROVE  Keeps
  <1> DEFINE o == task[t]
             g == proc[t[1]]
             r == [Catalog!Idle EXCEPT !.at = "probe", !.attempt = 2]
  <1>1. /\ o.at = "commit" /\ o.response = Nothing /\ lock = Nothing /\ remote' = remote /\ cache' = cache /\ etag' = etag
        /\ lock' = lock /\ faults' = faults
        /\ IF Catalog!StillDescribes(t) \/ o.attempt = 2 \/ o.cancelled
           THEN Catalog!Ends(t, Catalog!Current(t))
           ELSE task' = [task EXCEPT ![t] = r] /\ proc' = proc
    BY DEF Catalog!CommitNotModified, Nothing
  <1>2. /\ o \in TaskState /\ g \in ProcessState /\ cache \in Docs \cup {Nothing} /\ faults \in Nat
        /\ t[2] \in {"refresh", "sync"} /\ (t[2] = "refresh" => g.checking = (o.at # "idle"))
    <2>1. faults \in 0..MaxFaults /\ MaxFaults \in Nat
      BY CatalogOf, CatalogConstants DEF FilesAre
    <2>2. faults \in Nat
      BY <2>1
    <2> QED BY <2>2, CatalogOf, TaskOwner DEF FilesAre
  <1>3. Catalog!StillDescribes(t) <=>
           cache # Nothing /\ (cache = o.probe.cached \/ (o.probe.cached # Nothing /\ cache.version > o.probe.cached.version))
    BY DEF Catalog!StillDescribes, Nothing
  <1>4. ASSUME CatalogKnows
        PROVE  /\ o.asked \in 1..Len(Published) /\ o.probe.etag = Published[o.asked] /\ o.probe.cached \in Docs
               /\ NotOlder(o.probe.cached, Published[o.asked])
               /\ faults = 0 \/ o.attempt = 2 => Catalog!StillDescribes(t)
               /\ o.attempt = 2 => faults > 0
    <2>1. TaskFits(o, cache, faults)
      BY <1>4 DEF CatalogKnows
    <2>2. /\ o.probe \in Probes /\ ProbeFits(o.probe) /\ (faults = 0 \/ o.attempt = 2 => StillThere(o.probe, cache))
          /\ o.asked \in 1..Len(Published) /\ o.probe.etag = Published[o.asked] /\ (o.attempt = 2 => faults > 0)
      BY <1>1, <2>1 DEF TaskFits
    <2>3. Published[o.asked] # Nothing
      BY <2>2, Versions
    <2>4. o.probe.cached \in Docs /\ NotOlder(o.probe.cached, Published[o.asked])
      BY <2>2, <2>3 DEF ProbeFits, Probes
    <2>5. o.probe.cached # Nothing
      BY <2>4, Versions
    <2>6. faults = 0 \/ o.attempt = 2 => Catalog!StillDescribes(t)
      BY <1>3, <2>2, <2>5 DEF StillThere
    <2> QED BY <2>2, <2>4, <2>6
  <1>5. CASE Catalog!StillDescribes(t) \/ o.attempt = 2 \/ o.cancelled
    <2>1. Catalog!Current(t) \in Answers \cup {Nothing}
      BY CurrentIs
    <2>2. ASSUME CatalogKnows, ~o.cancelled
          PROVE  o.asked \in 1..Len(Published) /\ NotOlder(Catalog!Current(t), Published[o.asked])
      <3>1. Catalog!StillDescribes(t)
        BY <1>4, <1>5, <2>2
      <3>2. cache # Nothing /\ NotOlder(Catalog!Current(t), cache) /\ Catalog!Current(t).version \in Nat
        BY <1>3, <3>1, CurrentIs
      <3>3. o.asked \in 1..Len(Published) /\ o.probe.cached \in Docs /\ NotOlder(o.probe.cached, Published[o.asked])
        BY <1>4, <2>2
      <3>4. cache.version >= o.probe.cached.version
        BY <1>2, <1>3, <3>1, <3>3, Versions
      <3>5. cache.version \in Nat /\ o.probe.cached.version \in Nat /\ Published[o.asked].version \in Nat
        BY <1>2, <3>2, <3>3, Versions
      <3> QED BY <3>2, <3>3, <3>4, <3>5 DEF NotOlder
    <2>3. Catalog!Ends(t, Catalog!Current(t)) /\ o.at \notin {"idle", "write"}
      BY <1>1, <1>5
    <2> QED BY <1>1, <2>1, <2>2, <2>3, EndKeeps
  <1>6. CASE ~(Catalog!StillDescribes(t) \/ o.attempt = 2 \/ o.cancelled)
    <2>1. r \in TaskOf("probe", 2, Nothing, Nothing, 0, Nothing, FALSE)
      BY IdleIs DEF TaskOf
    <2> HIDE DEF r
    <2>2. r.at = "probe" /\ r.attempt = 2 /\ r.answer = Nothing /\ r \in TaskState
      <3>1. /\ r.at = "probe" /\ r.attempt = 2 /\ r.answer = Nothing /\ r.probe = Nothing /\ r.response = Nothing
            /\ r.asked = 0 /\ r.cancelled = FALSE
            /\ r \in TaskOf(r.at, r.attempt, r.probe, r.response, r.asked, r.answer, r.cancelled)
        BY <2>1 DEF TaskOf
      <3>2. 0 \in 0..Len(Published)
        BY Versions
      <3>3. r.attempt \in 0..2 /\ r.asked \in 0..Len(Published)
        BY <3>1, <3>2
      <3>4. /\ r.at \in {"idle", "probe", "request", "commit", "write"} /\ r.probe \in {Nothing} \cup Probes
            /\ r.response \in Docs \cup {Nothing} /\ r.answer \in Answers \cup {Nothing} /\ r.cancelled \in BOOLEAN
        BY <3>1
      <3> QED BY <3>1, <3>3, <3>4, TaskTyped
    <2>3. CatalogKnows => TaskFits(r, cache, faults)
      <3>1. CatalogKnows => faults > 0
        BY <1>2, <1>4, <1>6
      <3> QED BY <2>2, <3>1 DEF TaskFits
    <2>4. g.checking = (IF t[2] = "refresh" THEN r.at # "idle" ELSE g.checking)
      BY <1>1, <1>2, <2>2
    <2>5. r.at # "write" /\ o.at # "write"
      BY <1>1, <2>2
    <2> QED BY <1>1, <1>2, <1>6, <2>2, <2>3, <2>4, <2>5, TaskSteps DEF Keeps
  <1> QED BY <1>5, <1>6

\* commit of a body that does not win.
LEMMA DeclinedKeeps ==
  ASSUME CatalogInv, NEW t \in Catalog!Tasks, Catalog!CommitDeclined(t)
  PROVE  Keeps
  <1> DEFINE o == task[t]
             now == Catalog!Current(t)
             ans == IF o.response.version = now.version /\ o.response # now THEN Nothing ELSE now
  <1>1. /\ o.at = "commit" /\ o.response # Nothing /\ remote' = remote /\ cache' = cache /\ etag' = etag
        /\ lock' = lock /\ faults' = faults /\ o.response.version <= now.version /\ Catalog!Ends(t, ans)
    BY DEF Catalog!CommitDeclined, Nothing
  <1>2. ans \in Answers \cup {Nothing}
    BY CurrentIs
  <1>3. ASSUME CatalogKnows PROVE o.asked \in 1..Len(Published) /\ o.response = Published[o.asked]
    BY <1>1, <1>3 DEF CatalogKnows, TaskFits
  <1>4. ASSUME CatalogKnows, ans # Nothing PROVE NotOlder(ans, Published[o.asked])
    <2>1. ans = now /\ Published[o.asked].version <= now.version /\ o.asked \in 1..Len(Published)
      BY <1>1, <1>3, <1>4
    <2>2. now.version \in Nat /\ Published[o.asked].version \in Nat
      BY <2>1, CurrentIs, Versions
    <2> QED BY <2>1, <2>2 DEF NotOlder
  <1> HIDE DEF ans
  <1>5. o.at \notin {"idle", "write"}
    BY <1>1
  <1> QED BY <1>1, <1>2, <1>3, <1>4, <1>5, EndKeeps

\* commit of a body that wins: the cache is replaced by something newer, under the lock.
LEMMA WritesGrow ==
  ASSUME CatalogInv, NEW t \in Catalog!Tasks, Catalog!CommitWrites(t)
  PROVE  /\ Grows(cache, cache') /\ cache' = task[t].response /\ etag' = etag /\ task[t].response \in Docs
         /\ (cache # Nothing => cache'.version > cache.version)
  <1>1. /\ task[t].response # Nothing /\ cache' = task[t].response /\ etag' = etag
        /\ task[t].response.version > Catalog!Current(t).version
    BY DEF Catalog!CommitWrites, Catalog!Replace, Catalog!WriteOrder, Nothing
  <1>2. task[t].response \in Docs /\ cache \in Docs \cup {Nothing}
    BY <1>1, CatalogOf, TaskFields DEF FilesAre
  <1>3. /\ task[t].response.version \in Nat /\ (cache # Nothing => cache.version \in Nat)
        /\ Catalog!Current(t).version \in Nat
        /\ cache # Nothing => Catalog!Current(t).version >= cache.version
    BY <1>2, CurrentIs, Versions DEF NotOlder
  <1>4. cache # Nothing => task[t].response.version > cache.version
    BY <1>1, <1>3
  <1> QED BY <1>1, <1>2, <1>4 DEF Grows

LEMMA WritesKeep ==
  ASSUME CatalogInv, NEW t \in Catalog!Tasks, Catalog!CommitWrites(t)
  PROVE  Keeps
  <1> DEFINE o == task[t]
             g == proc[t[1]]
             r == [o EXCEPT !.at = "write"]
  <1>1. /\ o.at = "commit" /\ o.response # Nothing /\ lock = Nothing /\ lock' = t /\ task' = [task EXCEPT ![t] = r]
        /\ proc' = proc /\ remote' = remote /\ faults' = faults
    <2>1. task' = [task EXCEPT ![t].at = "write"] /\ task \in [Catalog!Tasks -> TaskState]
      BY DEF Catalog!CommitWrites, CatalogInv, CatalogTypes
    <2>2. task' = [task EXCEPT ![t] = r]
      BY <2>1
    <2> QED BY <2>2 DEF Catalog!CommitWrites, Nothing
  <1>2. /\ o \in TaskState /\ g \in ProcessState /\ FilesAre(remote, cache, etag, faults)
        /\ t[2] \in {"refresh", "sync"} /\ (t[2] = "refresh" => g.checking = (o.at # "idle"))
    <2>1. o \in TaskState /\ g \in ProcessState /\ FilesAre(remote, cache, etag, faults)
      BY CatalogOf
    <2>2. t[2] \in {"refresh", "sync"}
      BY TaskOwner
    <2>3. g.checking = (task[<<t[1], "refresh">>].at # "idle") /\ (t[2] = "refresh" => <<t[1], "refresh">> = t)
      BY CatalogOf
    <2>4. t[2] = "refresh" => g.checking = (o.at # "idle")
      BY <2>3
    <2> QED BY <2>1, <2>2, <2>4
  <1>3. Grows(cache, cache') /\ cache' = o.response /\ etag' = etag /\ cache' \in Docs /\ (cache # Nothing => cache'.version > cache.version)
    BY WritesGrow
  <1>4. /\ o.attempt \in 0..2 /\ o.probe \in {Nothing} \cup Probes /\ o.response \in Docs \cup {Nothing}
        /\ o.asked \in 0..Len(Published) /\ o.answer \in Answers \cup {Nothing} /\ o.cancelled \in BOOLEAN
        /\ "write" \in {"idle", "probe", "request", "commit", "write"}
        /\ o \in TaskOf(o.at, o.attempt, o.probe, o.response, o.asked, o.answer, o.cancelled)
    BY <1>2, TaskFields
  <1>5. r \in TaskOf("write", o.attempt, o.probe, o.response, o.asked, o.answer, o.cancelled)
    <2> HIDE DEF o
    <2> QED BY <1>4 DEF TaskOf
  <1> HIDE DEF r, o, g
  <1>6. /\ r.at = "write" /\ r.attempt = o.attempt /\ r.response = o.response /\ r.asked = o.asked /\ r.answer = o.answer
        /\ r \in TaskState
    BY <1>4, <1>5, TaskIs
  <1>7. CatalogInv'
    <2>1. FilesAre(remote', cache', etag', faults') /\ lock' \in Catalog!Tasks \cup {Nothing}
      BY <1>1, <1>2, <1>3 DEF FilesAre
    <2>2. (lock' = t <=> r.at = "write") /\ (r.at = "write" => r.response # Nothing /\ cache' = r.response)
      BY <1>1, <1>3, <1>6
    <2>3. \A u \in Catalog!Tasks \ {t} : (lock' = u <=> lock = u) /\ (lock = u => cache' = cache)
      BY <1>1, TaskOwner
    <2>4. g.checking = (IF t[2] = "refresh" THEN r.at # "idle" ELSE g.checking)
      BY <1>1, <1>2, <1>6
    <2> QED BY <1>1, <1>2, <1>6, <2>1, <2>2, <2>3, <2>4, TaskMoves DEF g
  <1>8. ASSUME CatalogKnows PROVE CatalogKnows'
    <2>1. TaskFits(o, cache, faults)
      BY <1>8 DEF CatalogKnows, o
    <2>2. TaskFits(r, cache', faults)
      BY <1>1, <1>6, <2>1 DEF TaskFits
    <2>3. Aligned'
      <3>1. Aligned
        BY <1>8 DEF CatalogKnows
      <3>2. faults' = 0 => (cache' # Nothing /\ etag' # Nothing => NotOlder(cache', etag'))
        <4>1. SUFFICES ASSUME faults = 0, etag # Nothing PROVE NotOlder(cache', etag)
          BY <1>1, <1>3
        <4>2. cache # Nothing /\ NotOlder(cache, etag) /\ cache'.version > cache.version
          BY <1>3, <3>1, <4>1 DEF Aligned
        <4>3. cache'.version \in Nat /\ cache.version \in Nat /\ etag.version \in Nat
          BY <1>2, <1>3, <4>1, <4>2, Versions DEF FilesAre
        <4> QED BY <4>2, <4>3 DEF NotOlder
      <3>3. lock' # Nothing /\ cache' # Nothing
        BY <1>1, <1>3, TaskOwner, Versions
      <3> QED BY <3>2, <3>3 DEF Aligned
    <2> QED BY <1>1, <1>3, <1>6, <1>8, <2>2, <2>3, KnowsMoves
  <1> QED BY <1>7, <1>8 DEF Keeps

\* The second file: the ETag is the new cache's.
LEMMA WriteSecondKeeps ==
  ASSUME CatalogInv, NEW t \in Catalog!Tasks, Catalog!WriteSecond(t)
  PROVE  Keeps
  <1> DEFINE o == task[t]
  <1>1. /\ o.at = "write" /\ lock' = Nothing /\ cache' = cache /\ etag' = o.response /\ Catalog!Ends(t, o.response)
        /\ remote' = remote /\ faults' = faults
    BY DEF Catalog!WriteSecond, Catalog!Replace, Catalog!WriteOrder, Nothing
  <1>2. /\ o \in TaskState /\ FilesAre(remote, cache, etag, faults) /\ lock = t /\ o.response # Nothing /\ cache = o.response
        /\ o.response \in Docs
    <2>1. o \in TaskState /\ FilesAre(remote, cache, etag, faults)
      BY CatalogOf
    <2>2. lock = t /\ o.response # Nothing /\ cache = o.response
      BY <1>1, CatalogOf
    <2>3. o.response \in Docs \cup {Nothing}
      BY <2>1, TaskFields
    <2> QED BY <2>1, <2>2, <2>3
  <1>3. o.response \in Answers \cup {Nothing}
    BY <1>2, Versions
  <1>4. PICK r \in TaskState, d \in ProcessState :
           /\ task' = [task EXCEPT ![t] = r] /\ proc' = [proc EXCEPT ![t[1]] = d]
           /\ r.at = "idle" /\ r.attempt = 0
           /\ r.answer = Nothing \/ (r.answer = o.response /\ r.asked = o.asked /\ ~o.cancelled)
           /\ d.checking = (IF t[2] = "refresh" THEN FALSE ELSE proc[t[1]].checking)
    BY ZenonT(60), <1>1, <1>3, EndsIs
  <1> HIDE DEF o
  <1>5. CatalogInv'
    <2>1. FilesAre(remote', cache', etag', faults') /\ lock' \in Catalog!Tasks \cup {Nothing}
      BY <1>1, <1>2 DEF FilesAre
    <2>2. (lock' = t <=> r.at = "write") /\ (r.at = "write" => r.response # Nothing /\ cache' = r.response)
      BY <1>1, <1>4, TaskOwner
    <2>3. \A u \in Catalog!Tasks \ {t} : (lock' = u <=> lock = u) /\ (lock = u => cache' = cache)
      BY <1>1, <1>2, TaskOwner
    <2>4. d.checking = (IF t[2] = "refresh" THEN r.at # "idle" ELSE proc[t[1]].checking)
      BY <1>4
    <2> QED BY <1>4, <2>1, <2>2, <2>3, <2>4, TaskMoves
  <1>6. ASSUME CatalogKnows PROVE CatalogKnows'
    <2>1. TaskFits(o, cache, faults)
      BY <1>6 DEF CatalogKnows, o
    <2>2. o.asked \in 1..Len(Published) /\ o.response = Published[o.asked]
      BY <1>1, <2>1 DEF TaskFits
    <2>3. NotOlder(o.response, o.response)
      BY <1>3, <1>2, Versions DEF NotOlder
    <2>4. TaskFits(r, cache', faults)
      BY <1>4, <2>2, <2>3 DEF TaskFits
    <2>5. Aligned'
      BY <1>1, <1>2, <2>3 DEF Aligned
    <2>6. cache' \in Docs \cup {Nothing} /\ Grows(cache, cache')
      BY <1>1, <1>2 DEF Grows
    <2> QED BY <1>1, <1>4, <1>6, <2>4, <2>5, <2>6, KnowsMoves
  <1> QED BY <1>5, <1>6 DEF Keeps

\* refresh_due and /catalog sync.
LEMMA FetchKeeps ==
  ASSUME CatalogInv, NEW t \in Catalog!Tasks, Catalog!Start(t)
  PROVE  Keeps
  <1> DEFINE g == proc[t[1]]
             r == [Catalog!Idle EXCEPT !.at = "probe", !.attempt = 1]
             c == g.checking \/ t[2] = "refresh"
             d == [g EXCEPT !.checking = c]
  <1>1. /\ task[t].at = "idle" /\ remote' = remote /\ cache' = cache /\ etag' = etag /\ lock' = lock
        /\ faults' = faults /\ task' = [task EXCEPT ![t] = r] /\ proc' = [proc EXCEPT ![t[1]] = d]
    BY TaskOwner DEF Catalog!Start
  <1>2. g \in ProcessState /\ t[2] \in {"refresh", "sync"}
    BY CatalogOf, TaskOwner
  <1>3. r \in TaskOf("probe", 1, Nothing, Nothing, 0, Nothing, FALSE)
    BY IdleIs DEF TaskOf
  <1>4. c \in BOOLEAN /\ (t[2] = "refresh" => c = TRUE) /\ (t[2] # "refresh" => c = g.checking)
    BY <1>2, ProcessFields
  <1>5. d \in ProcessState /\ d.checking = c
    BY <1>4, Claims
  <1> HIDE DEF r, c, d, g
  <1>6. r.at = "probe" /\ r.attempt = 1 /\ r.answer = Nothing /\ r \in TaskState
    <2>1. /\ r.at = "probe" /\ r.attempt = 1 /\ r.answer = Nothing /\ r.probe = Nothing /\ r.response = Nothing
          /\ r.asked = 0 /\ r.cancelled = FALSE
          /\ r \in TaskOf(r.at, r.attempt, r.probe, r.response, r.asked, r.answer, r.cancelled)
      BY <1>3 DEF TaskOf
    <2>2. 0 \in 0..Len(Published)
      BY Versions
    <2>3. r.attempt \in 0..2 /\ r.asked \in 0..Len(Published)
      BY <2>1, <2>2
    <2>4. /\ r.at \in {"idle", "probe", "request", "commit", "write"} /\ r.probe \in {Nothing} \cup Probes
          /\ r.response \in Docs \cup {Nothing} /\ r.answer \in Answers \cup {Nothing} /\ r.cancelled \in BOOLEAN
      BY <2>1
    <2> QED BY <2>1, <2>3, <2>4, TaskTyped
  <1>7. TaskFits(r, cache, faults)
    BY <1>6 DEF TaskFits
  <1>8. d.checking = (IF t[2] = "refresh" THEN r.at # "idle" ELSE g.checking)
    BY <1>4, <1>5, <1>6
  <1>9. r.at # "write" /\ task[t].at # "write"
    BY <1>1, <1>6
  <1> QED BY <1>1, <1>5, <1>6, <1>7, <1>8, <1>9, TaskSteps DEF Keeps, g

\* Shutdown or Ctrl-C.
LEMMA CancelKeeps ==
  ASSUME CatalogInv, NEW t \in Catalog!Tasks, Catalog!Cancel(t)
  PROVE  Keeps
  <1> DEFINE o == task[t]
             g == proc[t[1]]
             c == g.checking /\ t[2] # "refresh"
             d == [g EXCEPT !.checking = c]
             r == [o EXCEPT !.cancelled = TRUE]
  <1>1. task \in [Catalog!Tasks -> TaskState]
    BY DEF CatalogInv, CatalogTypes
  <1>2. /\ o.at # "idle" /\ remote' = remote /\ cache' = cache /\ etag' = etag /\ lock' = lock /\ faults' = faults
        /\ IF o.at = "request"
           THEN task' = [task EXCEPT ![t] = Catalog!Idle] /\ proc' = [proc EXCEPT ![t[1]] = d]
           ELSE task' = [task EXCEPT ![t] = r] /\ proc' = proc
    BY <1>1, TaskOwner DEF Catalog!Cancel
  <1>3. /\ o \in TaskState /\ g \in ProcessState /\ t[2] \in {"refresh", "sync"} /\ (t[2] = "refresh" => g.checking = (o.at # "idle"))
        /\ FilesAre(remote, cache, etag, faults) /\ lock \in Catalog!Tasks \cup {Nothing}
        /\ lock = t <=> o.at = "write"
        /\ o.at = "write" => o.response # Nothing /\ cache = o.response
    <2>1. t[2] \in {"refresh", "sync"} /\ (t[2] = "refresh" => g.checking = (o.at # "idle"))
      BY CatalogOf, TaskOwner
    <2>2. o \in TaskState /\ g \in ProcessState /\ FilesAre(remote, cache, etag, faults) /\ lock \in Catalog!Tasks \cup {Nothing}
      BY CatalogOf
    <2>3. /\ lock = t <=> o.at = "write"
          /\ o.at = "write" => o.response # Nothing /\ cache = o.response
      BY CatalogOf
    <2> QED BY <2>1, <2>2, <2>3
  <1>4. /\ o.at \in {"idle", "probe", "request", "commit", "write"} /\ o.attempt \in 0..2 /\ o.probe \in {Nothing} \cup Probes
        /\ o.response \in Docs \cup {Nothing} /\ o.asked \in 0..Len(Published) /\ o.answer \in Answers \cup {Nothing}
        /\ o \in TaskOf(o.at, o.attempt, o.probe, o.response, o.asked, o.answer, o.cancelled)
    BY <1>3, TaskFields
  <1>5. CatalogKnows => TaskFits(o, cache, faults)
    BY DEF CatalogKnows
  <1>6. c \in BOOLEAN
    BY <1>3, ProcessFields
  <1>7. d \in ProcessState /\ d.checking = c
    BY <1>6, Claims
  <1>8. CASE o.at = "request"
    <2> HIDE DEF d, c, o, g
    <2>1. d.checking = (IF t[2] = "refresh" THEN Catalog!Idle.at # "idle" ELSE g.checking)
      BY <1>3, <1>6, <1>7, IdleFits, ProcessFields DEF c
    <2>2. Catalog!Idle.at # "write" /\ o.at # "write" /\ Catalog!Idle \in TaskState /\ TaskFits(Catalog!Idle, cache, faults)
      BY <1>8, IdleFits
    <2> QED BY <1>2, <1>7, <1>8, <2>1, <2>2, TaskSteps DEF Keeps, o, g
  <1>9. CASE o.at # "request"
    <2>1. r \in TaskOf(o.at, o.attempt, o.probe, o.response, o.asked, o.answer, TRUE)
      <3> HIDE DEF o
      <3> QED BY <1>4 DEF TaskOf
    <2> HIDE DEF r, d, c, o, g
    <2>2. /\ r.at = o.at /\ r.attempt = o.attempt /\ r.probe = o.probe /\ r.response = o.response /\ r.asked = o.asked
          /\ r.answer = o.answer /\ r.cancelled = TRUE
          /\ r \in TaskOf(r.at, r.attempt, r.probe, r.response, r.asked, r.answer, r.cancelled)
      BY <2>1 DEF TaskOf
    <2>3. r \in TaskState
      BY <1>4, <2>2, TaskTyped
    <2>4. CatalogKnows => TaskFits(r, cache, faults)
      BY <1>5, <2>2 DEF TaskFits
    <2>5. g.checking = (IF t[2] = "refresh" THEN r.at # "idle" ELSE g.checking)
      BY <1>3, <2>2
    <2>6. CatalogInv'
      <3>1. FilesAre(remote', cache', etag', faults') /\ lock' \in Catalog!Tasks \cup {Nothing}
        BY <1>2, <1>3
      <3>2. (lock' = t <=> r.at = "write") /\ (r.at = "write" => r.response # Nothing /\ cache' = r.response)
        BY <1>2, <1>3, <2>2
      <3>3. \A u \in Catalog!Tasks \ {t} : (lock' = u <=> lock = u) /\ (lock = u => cache' = cache)
        BY <1>2
      <3> QED BY <1>2, <1>3, <1>9, <2>3, <2>5, <3>1, <3>2, <3>3, TaskMoves DEF g
    <2>7. ASSUME CatalogKnows PROVE CatalogKnows'
      <3>1. cache' \in Docs \cup {Nothing} /\ Grows(cache, cache')
        BY <1>2, <1>3 DEF FilesAre, Grows
      <3>2. Aligned' /\ TaskFits(r, cache', faults)
        BY <1>2, <2>4, <2>7 DEF CatalogKnows, Aligned
      <3> QED BY <1>2, <1>9, <2>3, <2>7, <3>1, <3>2, KnowsMoves
    <2> QED BY <2>6, <2>7 DEF Keeps
  <1> QED BY <1>8, <1>9

-----------------------------------------------------------------------------
(* Around the fetches.                                                     *)

LEMMA PublishDocKeeps ==
  ASSUME CatalogInv, Catalog!Publish
  PROVE  Keeps
  <1>1. /\ remote < Len(Published) /\ remote' = remote + 1 /\ cache' = cache /\ etag' = etag /\ lock' = lock /\ task' = task
        /\ proc' = proc /\ faults' = faults
    BY DEF Catalog!Publish
  <1>2. remote' \in 1..Len(Published)
    BY <1>1, Versions DEF CatalogInv, CatalogTypes
  <1>3. CatalogInv'
    BY <1>1, <1>2 DEF CatalogInv, CatalogTypes, LockIsHeld, Catalog!CheckIsReleased
  <1>4. CatalogKnows => CatalogKnows'
    BY <1>1 DEF CatalogKnows, Aligned
  <1> QED BY <1>3, <1>4 DEF Keeps

\* The cache is removed: the one fault there may be, so what a task was told to ask again for stays.
LEMMA RemoveCacheKeeps ==
  ASSUME CatalogInv, Catalog!RemoveCache
  PROVE  Keeps
  <1>1. /\ lock = Nothing /\ faults < MaxFaults /\ faults' = faults + 1 /\ cache' = Nothing /\ remote' = remote /\ etag' = etag
        /\ lock' = lock /\ task' = task /\ proc' = proc
    BY DEF Catalog!RemoveCache, Nothing
  <1>2. faults \in Nat /\ MaxFaults \in Nat /\ faults \in 0..MaxFaults
    BY CatalogConstants DEF CatalogInv, CatalogTypes
  <1>3. CatalogInv'
    <2>1. faults' \in 0..MaxFaults
      BY <1>1, <1>2
    <2>2. \A t \in Catalog!Tasks : task[t].at # "write"
      BY <1>1, TaskOwner DEF CatalogInv, LockIsHeld
    <2> QED BY <1>1, <2>1, <2>2 DEF CatalogInv, CatalogTypes, LockIsHeld, Catalog!CheckIsReleased
  <1>4. ASSUME CatalogKnows, MaxFaults <= 1 PROVE CatalogKnows'
    <2>1. faults = 0 /\ faults' = 1
      BY <1>1, <1>2, <1>4
    <2>2. ASSUME NEW t \in Catalog!Tasks PROVE TaskFits(task[t], Nothing, 1)
      <3>1. TaskFits(task[t], cache, 0)
        BY <1>4, <2>1 DEF CatalogKnows
      <3>2. task[t].attempt # 2
        BY <3>1 DEF TaskFits
      <3> QED BY <3>1, <3>2 DEF TaskFits
    <2> QED BY <1>1, <2>1, <2>2 DEF CatalogKnows, Aligned
  <1> QED BY <1>3, <1>4 DEF Keeps

\* A process dies between any two steps, its lock with it.
LEMMA DeathKeeps ==
  ASSUME CatalogInv, NEW p \in Procs, Catalog!Crash(p)
  PROVE  Keeps
  <1> DEFINE g == proc[p]
             a == Catalog!select(p)
             d == [g EXCEPT !.checking = FALSE, !.active = a]
  <1>1. /\ faults < MaxFaults /\ faults' = faults + 1 /\ cache' = cache /\ remote' = remote /\ etag' = etag
        /\ lock' = (IF lock # Nothing /\ lock[1] = p THEN Nothing ELSE lock)
        /\ task' = [t \in Catalog!Tasks |-> IF t[1] = p THEN Catalog!Idle ELSE task[t]]
        /\ proc' = [proc EXCEPT ![p] = d]
    BY DEF Catalog!Crash, Nothing, Catalog!Of
  <1>2. /\ faults \in Nat /\ MaxFaults \in Nat /\ faults \in 0..MaxFaults /\ proc \in [Procs -> ProcessState]
        /\ task \in [Catalog!Tasks -> TaskState] /\ cache \in Docs \cup {Nothing} /\ lock \in Catalog!Tasks \cup {Nothing}
    BY CatalogConstants DEF CatalogInv, CatalogTypes
  <1>3. d \in ProcessState /\ d.checking = FALSE
    <2>1. a \in Answers
      BY <1>2, Versions DEF Catalog!select, Nothing
    <2>2. g.due \in BOOLEAN /\ g \in ProcessOf(g.active, g.checking, g.due)
      BY <1>2, ProcessFields
    <2>3. d \in ProcessOf(a, FALSE, g.due)
      <3> HIDE DEF g, a
      <3> QED BY <2>2 DEF ProcessOf
    <2> HIDE DEF a, g, d
    <2> QED BY <2>1, <2>2, <2>3 DEF ProcessOf, ProcessState, Answers
  <1> HIDE DEF d
  <1>4. /\ proc' \in [Procs -> ProcessState] /\ proc'[p].checking = FALSE /\ \A q \in Procs \ {p} : proc'[q] = proc[q]
        /\ task' \in [Catalog!Tasks -> TaskState]
        /\ \A t \in Catalog!Tasks : task'[t] = IF t[1] = p THEN Catalog!Idle ELSE task[t]
    BY <1>1, <1>2, <1>3, IdleFits
  <1>5. CatalogInv'
    <2>1. CatalogTypes'
      <3>1. faults' \in 0..MaxFaults
        BY <1>1, <1>2
      <3>2. lock' \in Catalog!Tasks \cup {Nothing}
        BY <1>1, <1>2
      <3> QED BY <1>1, <1>4, <3>1, <3>2 DEF CatalogInv, CatalogTypes
    <2>2. ASSUME NEW t \in Catalog!Tasks
          PROVE  /\ lock' = t <=> task'[t].at = "write"
                 /\ task'[t].at = "write" => task'[t].response # Nothing /\ cache' = task'[t].response
      <3>1. t # Nothing /\ (lock = t <=> task[t].at = "write")
            /\ (task[t].at = "write" => task[t].response # Nothing /\ cache = task[t].response)
        BY TaskOwner, CatalogOf
      <3>2. CASE t[1] = p
        BY <1>1, <1>4, <3>1, <3>2, IdleFits
      <3>3. CASE t[1] # p
        BY <1>1, <1>4, <3>1, <3>3
      <3> QED BY <3>2, <3>3
    <2>3. ASSUME NEW q \in Procs PROVE proc'[q].checking = (task'[<<q, "refresh">>].at # "idle")
      <3>1. /\ proc[q].checking = (task[<<q, "refresh">>].at # "idle")
            /\ <<q, "refresh">> \in Catalog!Tasks /\ <<q, "refresh">>[1] = q
        <4>1. <<q, "refresh">>[1] = q
          OBVIOUS
        <4>2. <<q, "refresh">> \in Catalog!Tasks
          BY DEF Catalog!Tasks
        <4> QED BY <4>1, <4>2 DEF CatalogInv, Catalog!CheckIsReleased
      <3>2. CASE q = p
        BY <1>4, <3>1, <3>2, IdleFits
      <3>3. CASE q # p
        BY <1>4, <3>1, <3>3
      <3> QED BY <3>2, <3>3
    <2> QED BY <2>1, <2>2, <2>3 DEF CatalogInv, LockIsHeld, Catalog!CheckIsReleased
  <1>6. ASSUME CatalogKnows, MaxFaults <= 1 PROVE CatalogKnows'
    <2>1. faults = 0 /\ faults' = 1
      BY <1>1, <1>2, <1>6
    <2>2. ASSUME NEW t \in Catalog!Tasks PROVE TaskFits(task'[t], cache', faults')
      <3>1. TaskFits(task[t], cache, 0)
        BY <1>6, <2>1 DEF CatalogKnows
      <3>2. TaskFits(task[t], cache, 1)
        BY <3>1 DEF TaskFits
      <3> QED BY <1>1, <1>4, <2>1, <3>2, IdleFits
    <2> QED BY <1>1, <1>6, <2>1, <2>2 DEF CatalogKnows, Aligned
  <1> QED BY <1>5, <1>6 DEF Keeps

-----------------------------------------------------------------------------
(* The whole.                                                              *)

LEMMA CatalogStart == Catalog!Init => CatalogInv /\ CatalogKnows
  <1> SUFFICES ASSUME Catalog!Init PROVE CatalogInv /\ CatalogKnows
    OBVIOUS
  <1> DEFINE g(p) == [active |-> Bundled[p], checking |-> FALSE, due |-> TRUE]
  <1>1. /\ remote = 1 /\ cache = Nothing /\ etag = Nothing /\ lock = Nothing /\ faults = 0
        /\ task = [t \in Catalog!Tasks |-> Catalog!Idle] /\ proc = [p \in Procs |-> g(p)]
    BY DEF Catalog!Init, Nothing
  <1>2. ASSUME NEW p \in Procs PROVE g(p) \in ProcessState /\ g(p).checking = FALSE
    BY DEF ProcessState
  <1> HIDE DEF g
  <1>3. /\ task \in [Catalog!Tasks -> TaskState] /\ proc \in [Procs -> ProcessState]
        /\ \A t \in Catalog!Tasks : task[t] = Catalog!Idle
        /\ \A p \in Procs : proc[p].checking = FALSE
    BY <1>1, <1>2, IdleFits
  <1>4. remote \in 1..Len(Published) /\ faults \in 0..MaxFaults
    BY <1>1, CatalogConstants
  <1>5. CatalogTypes
    BY <1>1, <1>3, <1>4 DEF CatalogTypes
  <1>6. LockIsHeld
    BY <1>1, <1>3, IdleFits, TaskOwner DEF LockIsHeld
  <1>7. Catalog!CheckIsReleased
    <2>1. ASSUME NEW p \in Procs PROVE proc[p].checking = (task[<<p, "refresh">>].at # "idle")
      <3>1. <<p, "refresh">> \in Catalog!Tasks
        BY DEF Catalog!Tasks
      <3> QED BY <1>3, <3>1, IdleFits
    <2> QED BY <2>1 DEF Catalog!CheckIsReleased
  <1>8. CatalogKnows
    BY <1>1, <1>3, IdleFits DEF CatalogKnows, Aligned
  <1> QED BY <1>5, <1>6, <1>7, <1>8 DEF CatalogInv

LEMMA CatalogNextKeeps ==
  ASSUME CatalogInv, Catalog!Next
  PROVE  Keeps
  BY ProbeKeeps, RequestKeeps, RequestFailsKeeps, NotModifiedKeeps, DeclinedKeeps, WritesKeep, WriteSecondKeeps, FetchKeeps,
     CancelKeeps, PublishDocKeeps, RemoveCacheKeeps, DeathKeeps DEF Catalog!Next

\* Only a commit replaces the cache.
LEMMA CatalogNextGrows ==
  ASSUME CatalogInv, Catalog!Next
  PROVE  cache # Nothing /\ cache' # Nothing => NotOlder(cache', cache)
  <1>1. \/ cache' = cache \/ cache' = Nothing
        \/ \E t \in Catalog!Tasks : Catalog!CommitWrites(t)
    <2>1. ASSUME NEW t \in Catalog!Tasks,
                 Catalog!Start(t) \/ Catalog!Probe(t) \/ Catalog!Request(t) \/ Catalog!RequestFails(t)
                 \/ Catalog!CommitNotModified(t) \/ Catalog!CommitDeclined(t) \/ Catalog!Cancel(t)
          PROVE  cache' = cache
      BY <2>1 DEF Catalog!Start, Catalog!Probe, Catalog!Request, Catalog!RequestFails, Catalog!CommitNotModified,
                  Catalog!CommitDeclined, Catalog!Cancel
    <2>2. ASSUME NEW t \in Catalog!Tasks, Catalog!WriteSecond(t) PROVE cache' = cache
      BY <2>2 DEF Catalog!WriteSecond, Catalog!Replace, Catalog!WriteOrder
    <2>3. ASSUME Catalog!Publish \/ Catalog!RemoveCache \/ \E p \in Procs : Catalog!Crash(p)
          PROVE  cache' = cache \/ cache' = Nothing
      BY <2>3 DEF Catalog!Publish, Catalog!RemoveCache, Catalog!Crash, Nothing
    <2> QED BY <2>1, <2>2, <2>3 DEF Catalog!Next
  <1>2. cache \in Docs \cup {Nothing} /\ \A d \in Docs : d.version \in Nat
    BY Versions DEF CatalogInv, CatalogTypes
  <1>3. CASE cache' = cache \/ cache' = Nothing
    BY <1>2, <1>3 DEF NotOlder
  <1>4. CASE \E t \in Catalog!Tasks : Catalog!CommitWrites(t)
    <2>1. PICK t \in Catalog!Tasks : Catalog!CommitWrites(t)
      BY <1>4
    <2>2. cache' \in Docs /\ (cache # Nothing => cache'.version > cache.version)
      BY <2>1, WritesGrow
    <2> QED BY <1>2, <2>2 DEF NotOlder
  <1> QED BY <1>1, <1>3, <1>4

\* A step of the other parts leaves the catalog as it is.
LEMMA CatalogSteps == [Next]_vars => Catalog!Next \/ UNCHANGED catalogVars
  BY DEF Next, vars

LEMMA CatalogInvariant == Spec => []CatalogInv
  <1>1. Init => CatalogInv
    BY CatalogStart DEF Init
  <1>2. CatalogInv /\ [Next]_vars => CatalogInv'
    <2>1. CASE UNCHANGED catalogVars
      BY <2>1 DEF catalogVars, CatalogInv, CatalogTypes, LockIsHeld, Catalog!CheckIsReleased
    <2> QED BY <2>1, CatalogSteps, CatalogNextKeeps DEF Keeps
  <1> QED BY <1>1, <1>2, PTL DEF Spec

\* With one fault at most, the tasks know what they rely on.
LEMMA CatalogKnowledge == MaxFaults <= 1 => (Spec => [](CatalogInv /\ CatalogKnows))
  <1> SUFFICES ASSUME MaxFaults <= 1 PROVE Spec => [](CatalogInv /\ CatalogKnows)
    OBVIOUS
  <1>1. Init => CatalogInv /\ CatalogKnows
    BY CatalogStart DEF Init
  <1>2. (CatalogInv /\ CatalogKnows) /\ [Next]_vars => (CatalogInv /\ CatalogKnows)'
    <2>1. CASE UNCHANGED catalogVars
      BY <2>1 DEF catalogVars, CatalogInv, CatalogTypes, LockIsHeld, Catalog!CheckIsReleased, CatalogKnows, Aligned
    <2> QED BY <2>1, CatalogSteps, CatalogNextKeeps DEF Keeps
  <1> QED BY <1>1, <1>2, PTL DEF Spec

\* A fetch that succeeds answers with a catalog at least as new as the one published when it was asked, whoever rewrote
\* the cache meanwhile and through a crash between its two files or a removal of the cache, and a refresh never shuts a
\* later one out (providers/sync.py).  It takes a removal and then a crash to be told that a newer document is cached
\* than is: one fault is what this is about.
THEOREM CatalogStaysCurrent == MaxFaults <= 1 => (Spec => []CatalogIsCurrent)
  <1> SUFFICES ASSUME MaxFaults <= 1 PROVE Spec => []CatalogIsCurrent
    OBVIOUS
  <1>1. CatalogInv /\ CatalogKnows => CatalogIsCurrent
    <2> SUFFICES ASSUME CatalogInv, CatalogKnows PROVE Catalog!AnswerIsCurrent /\ Catalog!CheckIsReleased
      BY DEF CatalogIsCurrent
    <2>1. ASSUME NEW t \in Catalog!Tasks, task[t].answer # Nothing
          PROVE  task[t].answer.version >= Published[task[t].asked].version
      BY <2>1 DEF CatalogKnows, TaskFits, NotOlder
    <2> QED BY <2>1 DEF Catalog!AnswerIsCurrent, CatalogInv, Nothing
  <1> QED BY <1>1, CatalogKnowledge, PTL

\* The claim on the check is released however a refresh ends, whatever fails and as often as it does
\* (providers/sync.py).
THEOREM ChecksAreReleased == Spec => []Catalog!CheckIsReleased
  <1>1. CatalogInv => Catalog!CheckIsReleased
    BY DEF CatalogInv
  <1> QED BY <1>1, CatalogInvariant, PTL

\* The catalog cache is never downgraded, through any number of crashes and removals, and a retention pass removes a
\* log only while it is older than the retention time (providers/sync.py, session/store.py).
THEOREM StoresMoveOn == Spec => StoresOnlyMoveOn
  <1>1. StoreInv /\ CatalogInv /\ [Next]_vars =>
          /\ [cache # Nothing /\ cache' # Nothing => cache'.version >= cache.version]_(Catalog!vars)
          /\ [\A u \in Sessions : (Store!HasRoot(u) /\ <<u, "root">> \notin logs') => u \in aged]_(Store!vars)
    <2> SUFFICES ASSUME StoreInv, CatalogInv, [Next]_vars
                 PROVE  /\ [cache # Nothing /\ cache' # Nothing => cache'.version >= cache.version]_(Catalog!vars)
                        /\ [\A u \in Sessions : (Store!HasRoot(u) /\ <<u, "root">> \notin logs') => u \in aged]_(Store!vars)
      OBVIOUS
    <2>1. [cache # Nothing /\ cache' # Nothing => cache'.version >= cache.version]_(Catalog!vars)
      <3>1. CASE Catalog!Next
        BY <3>1, CatalogNextGrows DEF NotOlder
      <3>2. CASE UNCHANGED catalogVars
        BY <3>2 DEF catalogVars, Catalog!vars
      <3> QED BY <3>1, <3>2, CatalogSteps
    <2>2. [\A u \in Sessions : (Store!HasRoot(u) /\ <<u, "root">> \notin logs') => u \in aged]_(Store!vars)
      <3>1. CASE Store!Next
        BY <3>1, StoreStepIsDue
      <3>2. CASE UNCHANGED storeVars
        BY <3>2 DEF storeVars, Store!vars
      <3> QED BY <3>1, <3>2, StoreSteps
    <2> QED BY <2>1, <2>2
  <1>2. Spec => /\ [][cache # Nothing /\ cache' # Nothing => cache'.version >= cache.version]_(Catalog!vars)
                /\ [][\A u \in Sessions : (Store!HasRoot(u) /\ <<u, "root">> \notin logs') => u \in aged]_(Store!vars)
    BY <1>1, StoreInvariant, CatalogInvariant, PTL DEF Spec
  <1> QED BY <1>2 DEF StoresOnlyMoveOn, Catalog!CacheNeverDowngraded, Store!OnlyTheExpiredGo, Nothing

-----------------------------------------------------------------------------
(* The files of the configuration, while a migration has them to itself.   *)

\* No key.
NoKey == Config!NoKey
\* The operations under the lease, and the steps of a write.
LeasedOps == {"theme", "bind", "update"}
Writing == {"open", "fill", "rename"}

\* A document of the configuration, and one of keys.
DocOf(k, t, s, b) == [keys : {k}, theme : {t}, shortcuts : {s}, table : {b}]
IsKeys(k) == k = [e \in Entries |-> k[e]]
IsDoc(d) == d \in DocOf(d.keys, d.theme, d.shortcuts, d.table) /\ IsKeys(d.keys)
\* Every entry has its key in one of two tables.
KeyIn(k, s) == \A e \in Entries : k[e] # NoKey \/ s[e] # NoKey
AllKeys(s) == \A e \in Entries : s[e] # NoKey

\* What a process is doing, field by field.
ConfOf(o, a, g, s, t, f) == [op : {o}, at : {a}, arg : {g}, seen : {s}, todo : {t}, fd : {f}]
IsConf(r) == r \in ConfOf(r.op, r.at, r.arg, r.seen, r.todo, r.fd)
\* The steps of each operation.
ConfAt(r) ==
    /\ r.op \in {"idle", "load", "migrate"} \cup LeasedOps
    /\ r.op = "idle" => r.at = "idle"
    /\ r.op = "load" => r.at \in {"secrets", "loaded"}
    /\ r.op \in LeasedOps => r.at \in {"lease", "read"} \cup Writing
    /\ r.op = "migrate" => r.at \in {"read"} \cup Writing

\* A migration writes keys for all entries first, and then the configuration as it is without its keys.
MigrateTodo(todo, c, s) ==
    \E d : /\ IsDoc(d) /\ Config!Preferences(d) = Config!Preferences(c) /\ Config!ValidTable(d.table)
           /\ \/ \E k : IsKeys(k) /\ AllKeys(k) /\ todo = <<<<"secrets", k>>, <<"config", d>>>>
              \/ AllKeys(s) /\ todo = <<<<"config", d>>>>
\* A save writes the configuration with its keys as they are, and valid settings.
SaveTodo(todo, c) ==
    \E d : IsDoc(d) /\ d.keys = c.keys /\ Config!ValidTable(d.table) /\ todo = <<<<"config", d>>>>

\* What a process relies on: c and s are the two files, l the lease, m the siblings.
Relies(p, r, c, s, l, m) ==
    /\ IsConf(r) /\ ConfAt(r)
    /\ r.op \in LeasedOps /\ r.at # "lease" => l = p
    /\ r.op = "update" => Config!ValidTable(r.arg)
    /\ r.at = "secrets" => KeyIn(r.seen, s)
    /\ r.at = "loaded" => AllKeys(r.seen)
    /\ r.at \in Writing => IF r.op = "migrate" THEN MigrateTodo(r.todo, c, s) ELSE SaveTodo(r.todo, c)
    /\ r.at = "fill" => r.fd = "temp" /\ m[Head(r.todo)[1]] = Config!Torn
    /\ r.at = "rename" => m[Head(r.todo)[1]] = Head(r.todo)[2]

\* The two files and their siblings.
TheFiles(x) == x = [f \in {"config", "secrets"} |-> x[f]]
\* The files are whole, every entry has a key, and the preferences are those saved.
FilesKept(x, y) ==
    /\ TheFiles(x) /\ IsDoc(x["config"]) /\ IsKeys(x["secrets"]) /\ KeyIn(x["config"].keys, x["secrets"])
    /\ Config!Preferences(x["config"]) = y /\ Config!ValidTable(x["config"].table)

\* The inductive invariant of the configuration.
ConfigInv ==
    /\ FilesKept(files, saved) /\ TheFiles(temp)
    /\ configProc = [p \in Procs |-> configProc[p]]
    /\ \A p \in Procs : Relies(p, configProc[p], files["config"], files["secrets"], lease, temp)
    /\ \A p, q \in Procs : configProc[p].op = "migrate" /\ q # p => configProc[q].op \in {"idle", "load"}

-----------------------------------------------------------------------------
(* What a step of one process does to the others.                          *)

\* What a process does next.
TurnsTo(p, r) ==
    /\ configProc' = [q \in Procs |-> configProc'[q]]
    /\ configProc'[p] = r
    /\ \A q \in Procs \ {p} : configProc'[q] = configProc[q]

LEMMA OneTurns ==
  ASSUME ConfigInv, NEW p \in Procs, NEW r, configProc' = [configProc EXCEPT ![p] = r]
  PROVE  TurnsTo(p, r)
  <1>1. configProc = [q \in Procs |-> configProc[q]]
    BY DEF ConfigInv
  <1>2. configProc' = [q \in Procs |-> configProc'[q]] /\ configProc'[p] = r
    BY <1>1
  <1>3. \A q \in Procs \ {p} : configProc'[q] = configProc[q]
    BY <1>1
  <1> QED BY <1>2, <1>3 DEF TurnsTo

\* Everyone relies on the files as they are.
OthersRely(p, c, s, l, m) == \A q \in Procs \ {p} : Relies(q, configProc[q], c, s, l, m)
\* A process that migrates is the only one that writes.
GoesWith(p, r) ==
    /\ r.op = "migrate" => \A q \in Procs \ {p} : configProc[q].op \in {"idle", "load"}
    /\ r.op \notin {"idle", "load"} => \A q \in Procs \ {p} : configProc[q].op # "migrate"

LEMMA StepKeeps ==
  ASSUME ConfigInv, NEW p \in Procs, NEW r, TurnsTo(p, r), FilesKept(files', saved'), TheFiles(temp'),
         Relies(p, r, files'["config"], files'["secrets"], lease', temp'),
         OthersRely(p, files'["config"], files'["secrets"], lease', temp'), GoesWith(p, r)
  PROVE  ConfigInv'
  <1>1. \A q \in Procs : Relies(q, configProc'[q], files'["config"], files'["secrets"], lease', temp')
    BY DEF TurnsTo, OthersRely
  <1>2. ASSUME NEW q \in Procs, NEW o \in Procs, configProc'[q].op = "migrate", o # q
        PROVE  configProc'[o].op \in {"idle", "load"}
    <2>1. CASE q = p
      BY <1>2, <2>1 DEF TurnsTo, GoesWith
    <2>2. CASE q # p /\ o = p
      BY <1>2, <2>2 DEF TurnsTo, GoesWith
    <2>3. CASE q # p /\ o # p
      BY <1>2, <2>3 DEF TurnsTo, ConfigInv
    <2> QED BY <2>1, <2>2, <2>3
  <1> QED BY <1>1, <1>2 DEF ConfigInv, TurnsTo

\* What a process at p relies on, field by field.
LEMMA ConfOfProc ==
  ASSUME ConfigInv, NEW p \in Procs
  PROVE  /\ Relies(p, configProc[p], files["config"], files["secrets"], lease, temp)
         /\ IsConf(configProc[p]) /\ ConfAt(configProc[p])
         /\ FilesKept(files, saved) /\ TheFiles(temp)
  BY DEF ConfigInv, Relies

\* A process with the files is the only one at them.
HasFiles(r) == r.op = "migrate" \/ (r.op \in LeasedOps /\ r.at # "lease")
Resting == {"idle", "secrets", "loaded", "lease"}

LEMMA WriterIsAlone ==
  ASSUME ConfigInv, NEW p \in Procs, HasFiles(configProc[p]), NEW q \in Procs \ {p}
  PROVE  configProc[q].at \in Resting
  <1>1. Relies(q, configProc[q], files["config"], files["secrets"], lease, temp) /\ ConfAt(configProc[q])
    BY ConfOfProc
  <1>2. Relies(p, configProc[p], files["config"], files["secrets"], lease, temp) /\ ConfAt(configProc[p])
    BY ConfOfProc
  <1>3. configProc[q].op # "migrate"
    <2>1. configProc[q].op = "migrate" => configProc[p].op \in {"idle", "load"}
      BY DEF ConfigInv
    <2> QED BY <2>1 DEF HasFiles, LeasedOps
  <1>4. configProc[q].op \in LeasedOps => configProc[q].at = "lease"
    <2>1. CASE configProc[p].op = "migrate"
      <3>1. configProc[q].op \in {"idle", "load"}
        BY <2>1 DEF ConfigInv
      <3> QED BY <3>1 DEF LeasedOps
    <2>2. CASE configProc[p].op \in LeasedOps /\ configProc[p].at # "lease"
      BY <1>1, <1>2, <2>2 DEF Relies
    <2> QED BY <2>1, <2>2 DEF HasFiles
  <1> QED BY <1>1, <1>3, <1>4 DEF ConfAt, Resting

\* A process that rests relies on nothing but that no key is lost.
LEMMA RestingRely ==
  ASSUME NEW q, NEW r, NEW c, NEW s, NEW l, NEW m, NEW c2, NEW s2, NEW l2, NEW m2,
         Relies(q, r, c, s, l, m), r.at \in Resting, \A e \in Entries : s[e] # NoKey => s2[e] # NoKey
  PROVE  Relies(q, r, c2, s2, l2, m2)
  <1>1. IsConf(r) /\ ConfAt(r) /\ (r.op = "update" => Config!ValidTable(r.arg)) /\ (r.at = "loaded" => AllKeys(r.seen))
    BY DEF Relies
  <1>2. r.op \in LeasedOps => r.at = "lease"
    BY <1>1 DEF ConfAt, Resting, Writing
  <1>3. r.at = "secrets" => KeyIn(r.seen, s2)
    BY DEF Relies, KeyIn
  <1>4. r.at \notin Writing /\ r.at # "fill" /\ r.at # "rename"
    BY DEF Resting, Writing
  <1> QED BY <1>1, <1>2, <1>3, <1>4 DEF Relies

\* A step of the process with the files.
LEMMA WriterSteps ==
  ASSUME ConfigInv, NEW p \in Procs, HasFiles(configProc[p]),
         \A e \in Entries : files["secrets"][e] # NoKey => files'["secrets"][e] # NoKey
  PROVE  OthersRely(p, files'["config"], files'["secrets"], lease', temp')
  <1> SUFFICES ASSUME NEW q \in Procs \ {p}
               PROVE  Relies(q, configProc[q], files'["config"], files'["secrets"], lease', temp')
    BY DEF OthersRely
  <1>1. Relies(q, configProc[q], files["config"], files["secrets"], lease, temp) /\ configProc[q].at \in Resting
    BY ConfOfProc, WriterIsAlone
  <1> QED BY <1>1, RestingRely

\* A step that leaves the files, and the leases of the others, alone.
LEMMA OthersAsBefore ==
  ASSUME ConfigInv, NEW p \in Procs, files' = files, temp' = temp, lease' = lease \/ lease \in {p, Config!None}
  PROVE  OthersRely(p, files'["config"], files'["secrets"], lease', temp')
  <1> SUFFICES ASSUME NEW q \in Procs \ {p}
               PROVE  Relies(q, configProc[q], files["config"], files["secrets"], lease', temp)
    BY DEF OthersRely
  <1>1. Relies(q, configProc[q], files["config"], files["secrets"], lease, temp)
    BY ConfOfProc
  <1>2. Config!None \notin Procs
    BY StoreConstants DEF Config!None
  <1>3. configProc[q].op \in LeasedOps /\ configProc[q].at # "lease" => lease = q /\ lease' = q
    BY <1>1, <1>2 DEF Relies
  <1> QED BY <1>1, <1>3 DEF Relies

\* Who goes on with what it does goes with the others as before, and who stops goes with anyone.
LEMMA GoesOn ==
  ASSUME ConfigInv, NEW p \in Procs, NEW r, r.op = configProc[p].op \/ r.op \in {"idle", "load"}
  PROVE  GoesWith(p, r)
  BY ConfOfProc DEF ConfigInv, GoesWith

-----------------------------------------------------------------------------
(* Saves and loads.                                                        *)

\* The processes do nothing that has a condition.
LEMMA IdleRelies ==
  ASSUME NEW p, NEW c, NEW s, NEW l, NEW m
  PROVE  Relies(p, Config!Idle, c, s, l, m) /\ Config!Idle.op = "idle"
  <1>1. Config!Idle \in ConfOf("idle", "idle", Config!None, Config!Missing, <<>>, Config!None)
    BY DEF ConfOf, Config!Idle
  <1>2. IsConf(Config!Idle) /\ ConfAt(Config!Idle) /\ Config!Idle.op = "idle" /\ Config!Idle.at = "idle"
    BY <1>1 DEF ConfOf, IsConf, ConfAt, LeasedOps
  <1> QED BY <1>2 DEF Relies, LeasedOps, Writing

\* An operation that ends, however it does.
LEMMA StopKeeps ==
  ASSUME ConfigInv, NEW p \in Procs, configProc' = [configProc EXCEPT ![p] = Config!Idle],
         files' = files, temp' = temp, saved' = saved, lease' = lease \/ lease' = Config!Released(p)
  PROVE  ConfigInv'
  <1>1. TurnsTo(p, Config!Idle)
    BY OneTurns
  <1>2. FilesKept(files', saved') /\ TheFiles(temp')
    BY ConfOfProc
  <1>3. lease' = lease \/ lease \in {p, Config!None}
    BY DEF Config!Released
  <1>4. OthersRely(p, files'["config"], files'["secrets"], lease', temp')
    BY <1>3, OthersAsBefore
  <1>5. GoesWith(p, Config!Idle)
    BY GoesOn, IdleRelies
  <1> QED BY <1>1, <1>2, <1>4, <1>5, IdleRelies, StepKeeps

\* An operation that starts.
LEMMA BeginsKeeps ==
  ASSUME ConfigInv, NEW p \in Procs, NEW r, configProc' = [configProc EXCEPT ![p] = r],
         files' = files, temp' = temp, saved' = saved, lease' = lease,
         Relies(p, r, files["config"], files["secrets"], lease, temp), GoesWith(p, r)
  PROVE  ConfigInv'
  <1>1. TurnsTo(p, r)
    BY OneTurns
  <1>2. FilesKept(files', saved') /\ TheFiles(temp')
    BY ConfOfProc
  <1>3. OthersRely(p, files'["config"], files'["secrets"], lease', temp')
    BY OthersAsBefore
  <1> QED BY <1>1, <1>2, <1>3, StepKeeps

\* A save that waits for its lease.
LEMMA ToLease ==
  ASSUME NEW r, IsConf(r), r.op \in LeasedOps, r.at = "lease", r.op = "update" => Config!ValidTable(r.arg),
         NEW p, NEW c, NEW s, NEW l, NEW m
  PROVE  Relies(p, r, c, s, l, m)
  <1>1. ConfAt(r)
    BY DEF ConfAt, LeasedOps
  <1> QED BY <1>1 DEF Relies, Writing

\* A save goes with no migration.
LEMMA SaveGoes ==
  ASSUME MigratesAlone, NEW p \in Procs, NEW r, r.op \in LeasedOps, Config!Start(p, r)
  PROVE  GoesWith(p, r) /\ configProc' = [configProc EXCEPT ![p] = r]
  BY DEF Config!Start, GoesWith, LeasedOps

LEMMA SaveThemeKeeps ==
  ASSUME MigratesAlone, ConfigInv, NEW p \in Procs, NEW t \in Themes, Config!SaveTheme(p, t)
  PROVE  ConfigInv'
  <1> DEFINE r == [Config!Idle EXCEPT !.op = "theme", !.at = "lease", !.arg = t]
  <1>1. Config!Start(p, r) /\ UNCHANGED <<files, temp, kept, lease, saved, edits>>
    BY DEF Config!SaveTheme
  <1>2. r \in ConfOf("theme", "lease", t, Config!Missing, <<>>, Config!None)
    BY DEF ConfOf, Config!Idle
  <1> HIDE DEF r
  <1>3. r.op = "theme" /\ r.at = "lease" /\ r.arg = t /\ IsConf(r)
    BY <1>2 DEF ConfOf, IsConf
  <1>4. Relies(p, r, files["config"], files["secrets"], lease, temp)
    BY <1>1, <1>3, ToLease DEF LeasedOps
  <1>5. GoesWith(p, r) /\ configProc' = [configProc EXCEPT ![p] = r]
    BY <1>1, <1>3, SaveGoes DEF LeasedOps
  <1> QED BY <1>1, <1>4, <1>5, BeginsKeeps

LEMMA BindKeeps ==
  ASSUME MigratesAlone, ConfigInv, NEW p \in Procs, NEW k \in Shortcuts, Config!Bind(p, k)
  PROVE  ConfigInv'
  <1> DEFINE a == files.config.shortcuts \cup {k}
             r == [Config!Idle EXCEPT !.op = "bind", !.at = "lease", !.arg = a]
  <1>1. Config!Start(p, r) /\ UNCHANGED <<files, temp, kept, lease, saved, edits>>
    BY DEF Config!Bind, Config!config
  <1>2. r \in ConfOf("bind", "lease", a, Config!Missing, <<>>, Config!None)
    BY DEF ConfOf, Config!Idle
  <1> HIDE DEF r, a
  <1>3. r.op = "bind" /\ r.at = "lease" /\ r.arg = a /\ IsConf(r)
    BY <1>2 DEF ConfOf, IsConf
  <1>4. Relies(p, r, files["config"], files["secrets"], lease, temp)
    BY <1>1, <1>3, ToLease DEF LeasedOps
  <1>5. GoesWith(p, r) /\ configProc' = [configProc EXCEPT ![p] = r]
    BY <1>1, <1>3, SaveGoes DEF LeasedOps
  <1> QED BY <1>1, <1>4, <1>5, BeginsKeeps

LEMMA UpdateKeeps ==
  ASSUME MigratesAlone, ConfigInv, NEW p \in Procs, NEW t \in Config!Tables, Config!Update(p, t)
  PROVE  ConfigInv'
  <1> DEFINE x == files.config.table
             r == [Config!Idle EXCEPT !.op = "update", !.at = "lease", !.arg = t, !.seen = x]
  <1>1. Config!Start(p, r) /\ UNCHANGED <<files, temp, kept, lease, saved, edits>> /\ Config!ValidTable(t)
    BY DEF Config!Update, Config!config
  <1>2. r \in ConfOf("update", "lease", t, x, <<>>, Config!None)
    BY DEF ConfOf, Config!Idle
  <1> HIDE DEF r, x
  <1>3. r.op = "update" /\ r.at = "lease" /\ r.arg = t /\ IsConf(r)
    BY <1>2 DEF ConfOf, IsConf
  <1>4. Relies(p, r, files["config"], files["secrets"], lease, temp)
    BY <1>1, <1>3, ToLease DEF LeasedOps
  <1>5. GoesWith(p, r) /\ configProc' = [configProc EXCEPT ![p] = r]
    BY <1>1, <1>3, SaveGoes DEF LeasedOps
  <1> QED BY <1>1, <1>4, <1>5, BeginsKeeps

\* A load has the keys of the configuration.
LEMMA LoadConfigKeeps ==
  ASSUME ConfigInv, NEW p \in Procs, Config!LoadConfig(p)
  PROVE  ConfigInv'
  <1> DEFINE x == files.config.keys
             r == [Config!Idle EXCEPT !.op = "load", !.at = "secrets", !.seen = x]
  <1>1. configProc' = [configProc EXCEPT ![p] = r] /\ UNCHANGED <<files, temp, kept, lease, saved, edits>>
    BY DEF Config!LoadConfig, Config!config, Config!Start
  <1>2. r \in ConfOf("load", "secrets", Config!None, x, <<>>, Config!None)
    BY DEF ConfOf, Config!Idle
  <1>3. KeyIn(x, files["secrets"])
    BY ConfOfProc DEF FilesKept
  <1> HIDE DEF r, x
  <1>4. r.op = "load" /\ r.at = "secrets" /\ r.seen = x /\ IsConf(r)
    BY <1>2 DEF ConfOf, IsConf
  <1>5. ConfAt(r)
    BY <1>4 DEF ConfAt, LeasedOps
  <1>6. Relies(p, r, files["config"], files["secrets"], lease, temp)
    BY <1>3, <1>4, <1>5 DEF Relies, Writing, LeasedOps
  <1>7. GoesWith(p, r)
    BY <1>4, GoesOn
  <1> QED BY <1>1, <1>6, <1>7, BeginsKeeps

\* A load has a key for every entry.
LEMMA LoadSecretsKeeps ==
  ASSUME ConfigInv, NEW p \in Procs, Config!LoadSecrets(p)
  PROVE  ConfigInv'
  <1> DEFINE o == configProc[p]
             x == [e \in Entries |-> IF o.seen[e] # NoKey THEN o.seen[e] ELSE files.secrets[e]]
             r == [o EXCEPT !.at = "loaded", !.seen = x]
  <1>1. Relies(p, o, files["config"], files["secrets"], lease, temp) /\ IsConf(o) /\ ConfAt(o) /\ o.at = "secrets"
    BY SMTT(40), ConfOfProc DEF Config!LoadSecrets
  <1>2. configProc' = [configProc EXCEPT ![p] = r] /\ UNCHANGED <<files, temp, kept, lease, saved, edits>>
    <2>1. configProc = [q \in Procs |-> configProc[q]]
      BY DEF ConfigInv
    <2> QED BY <1>1, <2>1 DEF Config!LoadSecrets, NoKey, Config!NoKey, IsConf, ConfOf
  <1>3. o.op = "load"
    BY <1>1 DEF ConfAt, LeasedOps, Writing
  <1>4. AllKeys(x)
    BY <1>1 DEF Relies, KeyIn, AllKeys
  <1> HIDE DEF x
  <1>5. r \in ConfOf("load", "loaded", o.arg, x, o.todo, o.fd)
    BY <1>1, <1>3 DEF IsConf, ConfOf
  <1> HIDE DEF r, o
  <1>6. r.op = "load" /\ r.at = "loaded" /\ r.seen = x /\ IsConf(r)
    BY <1>5 DEF ConfOf, IsConf
  <1>7. ConfAt(r)
    BY <1>6 DEF ConfAt, LeasedOps
  <1>8. Relies(p, r, files["config"], files["secrets"], lease, temp)
    BY <1>4, <1>6, <1>7 DEF Relies, Writing, LeasedOps
  <1>9. GoesWith(p, r)
    BY <1>6, GoesOn
  <1> QED BY <1>2, <1>8, <1>9, BeginsKeeps

-----------------------------------------------------------------------------
(* The lease, and the ends of operations.                                  *)

LEMMA LeaseKeeps ==
  ASSUME ConfigInv, NEW p \in Procs, Config!Lease(p)
  PROVE  ConfigInv'
  <1> DEFINE o == configProc[p]
             r == [o EXCEPT !.at = "read"]
  <1>1. /\ Relies(p, o, files["config"], files["secrets"], lease, temp) /\ IsConf(o) /\ ConfAt(o) /\ o.at = "lease"
        /\ FilesKept(files, saved) /\ TheFiles(temp)
    BY ConfOfProc DEF Config!Lease
  <1>2. files' = files /\ temp' = temp /\ saved' = saved
    BY DEF Config!Lease
  <1>3. CASE lease = Config!None
    <2>1. configProc' = [configProc EXCEPT ![p] = r] /\ lease' = p
      BY <1>3 DEF Config!Lease, Config!CanLease
    <2>2. o.op \in LeasedOps
      BY <1>1 DEF ConfAt, Writing
    <2>3. r \in ConfOf(o.op, "read", o.arg, o.seen, o.todo, o.fd)
      BY <1>1 DEF IsConf, ConfOf
    <2> HIDE DEF r
    <2>4. r.op = o.op /\ r.at = "read" /\ r.arg = o.arg /\ IsConf(r)
      BY <2>3 DEF ConfOf, IsConf
    <2>5. ConfAt(r)
      BY <2>2, <2>4 DEF ConfAt, LeasedOps
    <2>6. Relies(p, r, files'["config"], files'["secrets"], lease', temp')
      BY <1>1, <2>1, <2>4, <2>5 DEF Relies, Writing
    <2>7. OthersRely(p, files'["config"], files'["secrets"], lease', temp')
      BY <1>2, <1>3, OthersAsBefore
    <2>8. GoesWith(p, r)
      BY <2>4, GoesOn
    <2>9. TurnsTo(p, r)
      BY <2>1, OneTurns
    <2> QED BY <1>1, <1>2, <2>6, <2>7, <2>8, <2>9, StepKeeps
  <1>4. CASE lease # Config!None
    <2>1. configProc' = [configProc EXCEPT ![p] = Config!Idle] /\ lease' = lease
      BY <1>4 DEF Config!Lease, Config!CanLease
    <2> QED BY <1>2, <2>1, StopKeeps
  <1> QED BY <1>3, <1>4

LEMMA DeclineKeeps ==
  ASSUME ConfigInv, NEW p \in Procs, Config!Decline(p)
  PROVE  ConfigInv'
  BY StopKeeps DEF Config!Decline

LEMMA LoadedKeeps ==
  ASSUME ConfigInv, NEW p \in Procs, Config!Loaded(p)
  PROVE  ConfigInv'
  BY StopKeeps DEF Config!Loaded

LEMMA ConfigCrashKeeps ==
  ASSUME ConfigInv, NEW p \in Procs, Config!Crash(p)
  PROVE  ConfigInv'
  BY StopKeeps DEF Config!Crash

-----------------------------------------------------------------------------
(* Documents that are read, edited and written.                            *)

\* A document is not a torn file.
LEMMA DocIsWhole ==
  ASSUME NEW d, IsDoc(d)
  PROVE  d # Config!Torn
  <1>1. DOMAIN d = {"keys", "theme", "shortcuts", "table"}
    BY DEF IsDoc, DocOf
  <1>2. DOMAIN Config!Torn = {"torn"}
    BY DEF Config!Torn
  <1> QED BY <1>1, <1>2

\* An edited document has its keys as they were and valid settings.
LEMMA EditedIsDoc ==
  ASSUME ConfigInv, NEW p \in Procs, configProc[p].op \in LeasedOps,
         configProc[p].op = "update" => files.config.table = configProc[p].seen
  PROVE  /\ IsDoc(Config!Edited(files.config, p))
         /\ Config!Edited(files.config, p).keys = files["config"].keys
         /\ Config!ValidTable(Config!Edited(files.config, p).table)
  <1> DEFINE c == files.config
             o == configProc[p]
             d == Config!Edited(c, p)
  <1>1. IsDoc(c) /\ Config!ValidTable(c.table) /\ (o.op = "update" => Config!ValidTable(o.arg)) /\ IsKeys(c.keys)
    BY ConfOfProc DEF FilesKept, Relies, IsDoc
  <1>2. CASE o.op = "theme"
    <2>1. d = [c EXCEPT !.theme = o.arg]
      BY <1>2 DEF Config!Edited
    <2> HIDE DEF d
    <2>2. d \in DocOf(c.keys, o.arg, c.shortcuts, c.table)
      BY <1>1, <2>1 DEF IsDoc, DocOf
    <2>3. d.keys = c.keys /\ d.table = c.table /\ IsDoc(d)
      BY <1>1, <2>2 DEF IsDoc, DocOf
    <2> QED BY <1>1, <2>3 DEF d
  <1>3. CASE o.op = "bind"
    <2>1. d = [c EXCEPT !.shortcuts = o.arg]
      BY <1>3 DEF Config!Edited
    <2> HIDE DEF d
    <2>2. d \in DocOf(c.keys, c.theme, o.arg, c.table)
      BY <1>1, <2>1 DEF IsDoc, DocOf
    <2>3. d.keys = c.keys /\ d.table = c.table /\ IsDoc(d)
      BY <1>1, <2>2 DEF IsDoc, DocOf
    <2> QED BY <1>1, <2>3 DEF d
  <1>4. CASE o.op = "update"
    <2> DEFINE t == Config!Patched(c, p)
    <2>1. d = [c EXCEPT !.table = t]
      BY <1>4 DEF Config!Edited
    <2>2. t.lo = o.arg.lo /\ t.hi = o.arg.hi
      BY <1>4 DEF Config!Patched
    <2>3. Config!ValidTable(t)
      BY <1>1, <1>4, <2>2 DEF Config!ValidTable
    <2> HIDE DEF d, t
    <2>4. d \in DocOf(c.keys, c.theme, c.shortcuts, t)
      BY <1>1, <2>1 DEF IsDoc, DocOf
    <2>5. d.keys = c.keys /\ d.table = t /\ IsDoc(d)
      BY <1>1, <2>4 DEF IsDoc, DocOf
    <2> QED BY <1>1, <2>3, <2>5 DEF d
  <1> QED BY <1>2, <1>3, <1>4 DEF LeasedOps

\* The document is edited as it is read under the lease.
LEMMA ReadLeasedKeeps ==
  ASSUME ConfigInv, NEW p \in Procs, Config!ReadLeased(p)
  PROVE  ConfigInv'
  <1> DEFINE o == configProc[p]
             d == Config!Edited(files.config, p)
             r == [o EXCEPT !.at = "open", !.todo = <<<<"config", d>>>>]
  <1>1. /\ Relies(p, o, files["config"], files["secrets"], lease, temp) /\ IsConf(o) /\ ConfAt(o)
        /\ o.at = "read" /\ o.op # "migrate"
    BY ConfOfProc DEF Config!ReadLeased
  <1>2. files' = files /\ temp' = temp /\ saved' = saved
    BY DEF Config!ReadLeased
  <1>3. o.op \in LeasedOps
    BY <1>1 DEF ConfAt
  <1>4. CASE files.config = Config!Torn \/ (o.op = "update" /\ ~Config!Unchanged(files.config, o.seen))
    <2>1. configProc' = [configProc EXCEPT ![p] = Config!Idle] /\ lease' = Config!Released(p)
      BY <1>4 DEF Config!ReadLeased, Config!config
    <2> QED BY <1>2, <2>1, StopKeeps
  <1>5. CASE ~(files.config = Config!Torn \/ (o.op = "update" /\ ~Config!Unchanged(files.config, o.seen)))
    <2>1. lease' = lease /\ configProc' = [configProc EXCEPT ![p] = r]
      <3>1. configProc = [q \in Procs |-> configProc[q]]
        BY DEF ConfigInv
      <3>2. /\ lease' = lease
            /\ configProc' = [configProc EXCEPT ![p].at = "open", ![p].todo = <<<<"config", d>>>>]
        BY <1>5 DEF Config!ReadLeased, Config!config
      <3> HIDE DEF d
      <3> QED BY <1>1, <3>1, <3>2 DEF IsConf, ConfOf
    <2>2. IsDoc(d) /\ d.keys = files["config"].keys /\ Config!ValidTable(d.table)
      BY <1>3, <1>5, EditedIsDoc DEF Config!Unchanged
    <2> HIDE DEF d
    <2>3. r \in ConfOf(o.op, "open", o.arg, o.seen, <<<<"config", d>>>>, o.fd)
      BY <1>1 DEF IsConf, ConfOf
    <2> HIDE DEF r
    <2>4. r.op = o.op /\ r.at = "open" /\ r.arg = o.arg /\ r.todo = <<<<"config", d>>>> /\ IsConf(r)
      BY <2>3 DEF ConfOf, IsConf
    <2>5. ConfAt(r)
      BY <1>3, <2>4 DEF ConfAt, Writing, LeasedOps
    <2>6. SaveTodo(r.todo, files["config"])
      BY <2>2, <2>4 DEF SaveTodo
    <2>7. Relies(p, r, files["config"], files["secrets"], lease, temp)
      BY <1>1, <1>3, <2>4, <2>5, <2>6 DEF Relies, LeasedOps
    <2>8. GoesWith(p, r)
      BY <2>4, GoesOn
    <2> QED BY <1>2, <2>1, <2>7, <2>8, BeginsKeeps
  <1> QED BY <1>4, <1>5

-----------------------------------------------------------------------------
(* The steps of a write.                                                   *)

\* The head and the rest of what is to be written.
LEMMA Todos ==
  ASSUME NEW x, NEW y
  PROVE  /\ Head(<<x>>) = x /\ Tail(<<x>>) = <<>>
         /\ Head(<<x, y>>) = x /\ Tail(<<x, y>>) = <<y>> /\ <<y>> # <<>>
  OBVIOUS

\* Who writes has the files to itself, and has one of two files to write.
AtWork(p, o) ==
    /\ Relies(p, o, files["config"], files["secrets"], lease, temp) /\ IsConf(o) /\ ConfAt(o)
    /\ HasFiles(o) /\ Head(o.todo)[1] \in {"config", "secrets"}
    /\ IF o.op = "migrate" THEN MigrateTodo(o.todo, files["config"], files["secrets"]) ELSE SaveTodo(o.todo, files["config"])

LEMMA WriterWorks ==
  ASSUME ConfigInv, NEW p \in Procs, configProc[p].at \in Writing
  PROVE  AtWork(p, configProc[p])
  <1> DEFINE o == configProc[p]
  <1>1. Relies(p, o, files["config"], files["secrets"], lease, temp) /\ IsConf(o) /\ ConfAt(o)
    BY ConfOfProc
  <1>2. IF o.op = "migrate" THEN MigrateTodo(o.todo, files["config"], files["secrets"]) ELSE SaveTodo(o.todo, files["config"])
    BY <1>1 DEF Relies
  <1>3. HasFiles(o)
    BY <1>1 DEF ConfAt, HasFiles, Writing, LeasedOps
  <1>4. Head(o.todo)[1] \in {"config", "secrets"}
    <2>1. CASE o.op = "migrate"
      <3>1. PICK d, k : o.todo = <<<<"secrets", k>>, <<"config", d>>>> \/ o.todo = <<<<"config", d>>>>
        BY <1>2, <2>1 DEF MigrateTodo
      <3>2. Head(o.todo) = <<"secrets", k>> \/ Head(o.todo) = <<"config", d>>
        BY <3>1, Todos
      <3> QED BY <3>2
    <2>2. CASE o.op # "migrate"
      <3>1. PICK d : o.todo = <<<<"config", d>>>>
        BY <1>2, <2>2 DEF SaveTodo
      <3>2. Head(o.todo) = <<"config", d>>
        BY <3>1, Todos
      <3> QED BY <3>2
    <2> QED BY <2>1, <2>2
  <1> QED BY <1>1, <1>2, <1>3, <1>4 DEF AtWork

\* No other process has a descriptor on the files.
LEMMA NoneIsMoved ==
  ASSUME ConfigInv, NEW p \in Procs, HasFiles(configProc[p]), NEW f, NEW to, NEW x,
         configProc' = [Config!Moved(f, p, to) EXCEPT ![p] = x]
  PROVE  TurnsTo(p, x)
  <1>1. \A q \in Procs \ {p} : configProc[q].at \notin {"fill", "rename"}
    BY WriterIsAlone DEF Resting
  <1>2. configProc' = [q \in Procs |-> configProc'[q]] /\ configProc'[p] = x
    BY DEF Config!Moved
  <1>3. \A q \in Procs \ {p} : configProc'[q] = Config!Moved(f, p, to)[q]
    BY DEF Config!Moved
  <1>4. \A q \in Procs \ {p} : Config!Moved(f, p, to)[q] = configProc[q]
    BY <1>1 DEF Config!Moved
  <1> QED BY <1>2, <1>3, <1>4 DEF TurnsTo

\* The siblings after one of them has changed.
LEMMA SiblingIs ==
  ASSUME TheFiles(temp), NEW f \in {"config", "secrets"}, NEW x, temp' = [temp EXCEPT ![f] = x]
  PROVE  TheFiles(temp') /\ temp'[f] = x
  BY DEF TheFiles

\* A write that goes on with the same files.
LEMMA WriteGoesOn ==
  ASSUME ConfigInv, NEW p \in Procs, AtWork(p, configProc[p]), NEW r, TurnsTo(p, r), IsConf(r), r.op = configProc[p].op,
         r.arg = configProc[p].arg, r.todo = configProc[p].todo, r.at \in Writing,
         r.at = "fill" => r.fd = "temp" /\ temp'[Head(r.todo)[1]] = Config!Torn,
         r.at = "rename" => temp'[Head(r.todo)[1]] = Head(r.todo)[2],
         files' = files, lease' = lease, saved' = saved, TheFiles(temp')
  PROVE  ConfigInv'
  <1> DEFINE o == configProc[p]
  <1>1. /\ Relies(p, o, files["config"], files["secrets"], lease, temp) /\ ConfAt(o) /\ HasFiles(o)
        /\ IF o.op = "migrate" THEN MigrateTodo(o.todo, files["config"], files["secrets"]) ELSE SaveTodo(o.todo, files["config"])
    BY DEF AtWork
  <1>2. ConfAt(r)
    BY <1>1 DEF ConfAt, LeasedOps, HasFiles
  <1>3. r.at # "secrets" /\ r.at # "loaded" /\ r.at # "lease"
    BY DEF Writing
  <1>4. r.op \in LeasedOps => lease = p
    BY <1>1 DEF HasFiles, Relies, LeasedOps
  <1>5. Relies(p, r, files'["config"], files'["secrets"], lease', temp')
    BY <1>1, <1>2, <1>3, <1>4 DEF Relies
  <1>6. OthersRely(p, files'["config"], files'["secrets"], lease', temp')
    BY <1>1, WriterSteps
  <1>7. GoesWith(p, r)
    BY GoesOn
  <1>8. FilesKept(files', saved')
    BY ConfOfProc
  <1> QED BY <1>5, <1>6, <1>7, <1>8, StepKeeps

LEMMA OpenKeeps ==
  ASSUME ConfigInv, NEW p \in Procs, Config!Open(p)
  PROVE  ConfigInv'
  <1> DEFINE o == configProc[p]
             f == Head(o.todo)[1]
             r == [o EXCEPT !.at = "fill", !.fd = "temp"]
  <1>1. o.at = "open" /\ AtWork(p, o)
    BY WriterWorks DEF Config!Open, Writing
  <1>2. temp' = [temp EXCEPT ![f] = Config!Torn] /\ files' = files /\ lease' = lease /\ saved' = saved
    BY DEF Config!Open
  <1>3. configProc' = [configProc EXCEPT ![p] = r]
    <2>1. configProc = [q \in Procs |-> configProc[q]]
      BY DEF ConfigInv
    <2> QED BY <1>1, <2>1 DEF Config!Open, AtWork, IsConf, ConfOf
  <1>4. TheFiles(temp') /\ temp'[f] = Config!Torn
    BY <1>1, <1>2, SiblingIs, ConfOfProc DEF AtWork
  <1>5. r \in ConfOf(o.op, "fill", o.arg, o.seen, o.todo, "temp")
    BY <1>1 DEF AtWork, IsConf, ConfOf
  <1> HIDE DEF r
  <1>6. r.op = o.op /\ r.at = "fill" /\ r.arg = o.arg /\ r.todo = o.todo /\ r.fd = "temp" /\ IsConf(r)
    BY <1>5 DEF ConfOf, IsConf
  <1>7. TurnsTo(p, r)
    BY <1>3, OneTurns
  <1> QED BY <1>1, <1>2, <1>4, <1>6, <1>7, WriteGoesOn DEF Writing

\* What is written is whole: the sibling was torn, and is still where the descriptor is.
LEMMA FillKeeps ==
  ASSUME ConfigInv, NEW p \in Procs, Config!Fill(p)
  PROVE  ConfigInv'
  <1> DEFINE o == configProc[p]
             f == Head(o.todo)[1]
             d == Head(o.todo)[2]
             r == [o EXCEPT !.at = "rename"]
  <1>1. o.at = "fill" /\ AtWork(p, o)
    BY WriterWorks DEF Config!Fill, Writing
  <1>2. o.fd = "temp" /\ temp[f] = Config!Torn
    BY <1>1 DEF AtWork, Relies
  <1>3. files' = files /\ lease' = lease /\ saved' = saved
    BY <1>2 DEF Config!Fill
  <1>4. temp' = [temp EXCEPT ![f] = Config!Put(d, temp[f])] /\ Config!Put(d, temp[f]) = d
    <2>1. temp' = [temp EXCEPT ![f] = Config!Put(d, @)]
      BY <1>2 DEF Config!Fill
    <2>2. Config!Put(d, temp[f]) = d
      BY SMTT(40), <1>2 DEF Config!Put
    <2> QED BY <2>1, <2>2
  <1>5. TheFiles(temp') /\ temp'[f] = d
    BY <1>1, <1>4, SiblingIs, ConfOfProc DEF AtWork
  <1>6. configProc' = [configProc EXCEPT ![p] = r]
    BY DEF Config!Fill
  <1>7. r \in ConfOf(o.op, "rename", o.arg, o.seen, o.todo, o.fd)
    BY <1>1 DEF AtWork, IsConf, ConfOf
  <1> HIDE DEF r
  <1>8. r.op = o.op /\ r.at = "rename" /\ r.arg = o.arg /\ r.todo = o.todo /\ IsConf(r)
    BY <1>7 DEF ConfOf, IsConf
  <1>9. TurnsTo(p, r)
    BY <1>6, OneTurns
  <1> QED BY <1>1, <1>3, <1>5, <1>8, <1>9, WriteGoesOn DEF Writing

\* A write that fails leaves the files as they are.
LEMMA FailsKeeps ==
  ASSUME ConfigInv, NEW p \in Procs, Config!Fails(p)
  PROVE  ConfigInv'
  <1> DEFINE o == configProc[p]
             f == Head(o.todo)[1]
  <1>1. AtWork(p, o)
    BY WriterWorks DEF Config!Fails, Writing
  <1>2. temp' = [temp EXCEPT ![f] = Config!Missing] /\ files' = files /\ saved' = saved
    BY DEF Config!Fails
  <1>3. TheFiles(temp')
    BY <1>1, <1>2, SiblingIs, ConfOfProc DEF AtWork
  <1>4. TurnsTo(p, Config!Idle)
    <2>1. configProc' = [Config!Moved(f, p, "gone") EXCEPT ![p] = Config!Idle]
      BY DEF Config!Fails
    <2> QED BY <1>1, <2>1, NoneIsMoved DEF AtWork
  <1>5. OthersRely(p, files'["config"], files'["secrets"], lease', temp')
    BY <1>1, <1>2, WriterSteps DEF AtWork
  <1>6. FilesKept(files', saved')
    BY <1>2, ConfOfProc
  <1>7. GoesWith(p, Config!Idle)
    BY GoesOn, IdleRelies
  <1> QED BY <1>3, <1>4, <1>5, <1>6, <1>7, IdleRelies, StepKeeps

-----------------------------------------------------------------------------
(* A file is replaced.                                                     *)

LEMMA FileIs ==
  ASSUME TheFiles(files), NEW f \in {"config", "secrets"}, NEW x, files' = [files EXCEPT ![f] = x]
  PROVE  /\ TheFiles(files') /\ files'[f] = x
         /\ \A g \in {"config", "secrets"} \ {f} : files'[g] = files[g]
  BY DEF TheFiles

\* The configuration is replaced by one in which no key is lost, and its writer is done.
LEMMA ConfigReplaced ==
  ASSUME ConfigInv, NEW p \in Procs, AtWork(p, configProc[p]), NEW d, IsDoc(d), Config!ValidTable(d.table),
         KeyIn(d.keys, files["secrets"]), Config!Preferences(d) = saved',
         files' = [files EXCEPT !["config"] = d], TheFiles(temp'), TurnsTo(p, Config!Idle)
  PROVE  ConfigInv'
  <1>1. TheFiles(files') /\ files'["config"] = d /\ files'["secrets"] = files["secrets"]
    BY FileIs, ConfOfProc DEF FilesKept
  <1>2. FilesKept(files', saved')
    BY <1>1, ConfOfProc DEF FilesKept
  <1>3. OthersRely(p, files'["config"], files'["secrets"], lease', temp')
    BY <1>1, WriterSteps DEF AtWork
  <1>4. GoesWith(p, Config!Idle)
    BY GoesOn, IdleRelies
  <1> QED BY <1>2, <1>3, <1>4, IdleRelies, StepKeeps

\* The keys are replaced by keys for all entries, and the configuration is next.
LEMMA SecretsReplaced ==
  ASSUME ConfigInv, NEW p \in Procs, AtWork(p, configProc[p]), NEW d, NEW k, NEW r, IsKeys(k), AllKeys(k),
         MigrateTodo(<<<<"config", d>>>>, files["config"], k), configProc[p].op = "migrate",
         files' = [files EXCEPT !["secrets"] = k], saved' = saved, TheFiles(temp'), TurnsTo(p, r),
         IsConf(r), r.op = "migrate", r.at = "open", r.todo = <<<<"config", d>>>>
  PROVE  ConfigInv'
  <1>1. TheFiles(files') /\ files'["config"] = files["config"] /\ files'["secrets"] = k
    BY FileIs, ConfOfProc DEF FilesKept
  <1>2. FilesKept(files', saved')
    BY <1>1, ConfOfProc DEF FilesKept, KeyIn, AllKeys
  <1>3. OthersRely(p, files'["config"], files'["secrets"], lease', temp')
    BY <1>1, WriterSteps DEF AtWork, AllKeys
  <1>4. GoesWith(p, r)
    BY GoesOn
  <1>5. ConfAt(r)
    BY DEF ConfAt, Writing, LeasedOps
  <1>6. Relies(p, r, files'["config"], files'["secrets"], lease', temp')
    BY <1>1, <1>5 DEF Relies, LeasedOps
  <1> QED BY <1>2, <1>3, <1>4, <1>6, StepKeeps

LEMMA RenameKeeps ==
  ASSUME ConfigInv, NEW p \in Procs, Config!Rename(p)
  PROVE  ConfigInv'
  <1> DEFINE o == configProc[p]
             f == Head(o.todo)[1]
             x == IF Tail(o.todo) = <<>> THEN Config!Idle ELSE [o EXCEPT !.at = "open", !.todo = Tail(o.todo), !.fd = Config!None]
  <1>1. o.at = "rename" /\ AtWork(p, o)
    BY WriterWorks DEF Config!Rename, Writing
  <1>2. temp[f] = Head(o.todo)[2]
    BY <1>1 DEF AtWork, Relies
  <1>3. /\ files' = [files EXCEPT ![f] = Head(o.todo)[2]]
        /\ saved' = IF o.op = "migrate" THEN saved ELSE Config!Preferences(Head(o.todo)[2])
    BY <1>2 DEF Config!Rename
  <1>4. TheFiles(temp')
    <2>1. temp' = [temp EXCEPT ![f] = Config!Missing]
      BY DEF Config!Rename
    <2> QED BY <1>1, <2>1, SiblingIs, ConfOfProc DEF AtWork
  <1>5. TurnsTo(p, x)
    <2>1. HasFiles(o)
      BY <1>1 DEF AtWork
    <2>2. Config!Moved(f, p, "path")[p] = o
      BY SMTT(40) DEF Config!Moved
    <2>3. configProc' = [Config!Moved(f, p, "path") EXCEPT ![p] = x]
      BY <2>2 DEF Config!Rename
    <2> QED BY <2>1, <2>3, NoneIsMoved
  <1>6. /\ KeyIn(files["config"].keys, files["secrets"]) /\ Config!Preferences(files["config"]) = saved /\ IsConf(o)
    BY ConfOfProc DEF FilesKept
  <1>7. CASE o.op # "migrate"
    <2>1. PICK d : /\ IsDoc(d) /\ d.keys = files["config"].keys /\ Config!ValidTable(d.table)
                   /\ o.todo = <<<<"config", d>>>>
      BY <1>1, <1>7 DEF AtWork, SaveTodo
    <2>2. Head(o.todo) = <<"config", d>> /\ Tail(o.todo) = <<>>
      BY <2>1, Todos
    <2>3. files' = [files EXCEPT !["config"] = d] /\ saved' = Config!Preferences(d) /\ x = Config!Idle
      <3>1. f = "config" /\ Head(o.todo)[2] = d
        BY <2>2
      <3>2. x = Config!Idle
        BY <2>2
      <3> HIDE DEF x, f
      <3>3. files' = [files EXCEPT !["config"] = d]
        BY <1>3, <3>1
      <3>4. saved' = Config!Preferences(d)
        BY <1>3, <1>7, <3>1
      <3> QED BY <3>2, <3>3, <3>4
    <2>4. KeyIn(d.keys, files["secrets"])
      BY <1>6, <2>1
    <2> HIDE DEF x
    <2> QED BY <1>1, <1>4, <1>5, <2>1, <2>3, <2>4, ConfigReplaced
  <1>8. CASE o.op = "migrate"
    <2>1. PICK d : /\ IsDoc(d) /\ Config!Preferences(d) = Config!Preferences(files["config"]) /\ Config!ValidTable(d.table)
                   /\ \/ \E k : IsKeys(k) /\ AllKeys(k) /\ o.todo = <<<<"secrets", k>>, <<"config", d>>>>
                      \/ AllKeys(files["secrets"]) /\ o.todo = <<<<"config", d>>>>
      BY <1>1, <1>8 DEF AtWork, MigrateTodo
    <2>2. CASE AllKeys(files["secrets"]) /\ o.todo = <<<<"config", d>>>>
      <3>1. Head(o.todo) = <<"config", d>> /\ Tail(o.todo) = <<>>
        BY <2>2, Todos
      <3>2. files' = [files EXCEPT !["config"] = d] /\ saved' = Config!Preferences(d) /\ x = Config!Idle
        <4>1. f = "config" /\ Head(o.todo)[2] = d
          BY <3>1
        <4>2. x = Config!Idle
          BY <3>1
        <4> HIDE DEF x, f
        <4>3. files' = [files EXCEPT !["config"] = d]
          BY <1>3, <4>1
        <4>4. saved' = Config!Preferences(d)
          BY <1>3, <1>6, <1>8, <2>1
        <4> QED BY <4>2, <4>3, <4>4
      <3>3. KeyIn(d.keys, files["secrets"])
        BY <2>2 DEF KeyIn, AllKeys
      <3> HIDE DEF x
      <3> QED BY <1>1, <1>4, <1>5, <2>1, <3>2, <3>3, ConfigReplaced
    <2>3. ASSUME NEW k, IsKeys(k), AllKeys(k), o.todo = <<<<"secrets", k>>, <<"config", d>>>>
          PROVE  ConfigInv'
      <3>1. Head(o.todo) = <<"secrets", k>> /\ Tail(o.todo) = <<<<"config", d>>>> /\ <<<<"config", d>>>> # <<>>
        BY <2>3, Todos
      <3>2. files' = [files EXCEPT !["secrets"] = k] /\ saved' = saved
        <4>1. f = "secrets" /\ Head(o.todo)[2] = k
          BY <3>1
        <4> HIDE DEF x, f
        <4>2. files' = [files EXCEPT !["secrets"] = k]
          BY <1>3, <4>1
        <4>3. saved' = saved
          BY <1>3, <1>8
        <4> QED BY <4>2, <4>3
      <3>3. x = [o EXCEPT !.at = "open", !.todo = <<<<"config", d>>>>, !.fd = Config!None]
        BY <3>1
      <3> HIDE DEF x
      <3>4. x \in ConfOf(o.op, "open", o.arg, o.seen, <<<<"config", d>>>>, Config!None)
        BY <1>6, <3>3 DEF IsConf, ConfOf
      <3>5. x.op = "migrate" /\ x.at = "open" /\ x.todo = <<<<"config", d>>>> /\ IsConf(x)
        BY <1>8, <3>4 DEF ConfOf, IsConf
      <3>6. MigrateTodo(<<<<"config", d>>>>, files["config"], k)
        BY <2>1, <2>3 DEF MigrateTodo
      <3> QED BY <1>1, <1>4, <1>5, <1>8, <2>3, <3>2, <3>5, <3>6, SecretsReplaced
    <2> QED BY <2>1, <2>2, <2>3
  <1> QED BY <1>7, <1>8

-----------------------------------------------------------------------------
(* The migration.                                                          *)

LEMMA OfferKeeps ==
  ASSUME MigratesAlone, ConfigInv, NEW p \in Procs, Config!Offer(p)
  PROVE  ConfigInv'
  <1> DEFINE x == files.config
             r == [Config!Idle EXCEPT !.op = "migrate", !.at = "read", !.seen = x]
  <1>1. /\ configProc' = [configProc EXCEPT ![p] = r] /\ UNCHANGED <<files, temp, kept, lease, saved, edits>>
        /\ \A q \in Procs : configProc[q].op \in {"idle", "load"}
    BY DEF Config!Offer, Config!config, Config!Start, Config!Writes
  <1>2. r \in ConfOf("migrate", "read", Config!None, x, <<>>, Config!None)
    BY DEF ConfOf, Config!Idle
  <1> HIDE DEF r, x
  <1>3. r.op = "migrate" /\ r.at = "read" /\ IsConf(r)
    BY <1>2 DEF ConfOf, IsConf
  <1>4. ConfAt(r)
    BY <1>3 DEF ConfAt, LeasedOps
  <1>5. Relies(p, r, files["config"], files["secrets"], lease, temp)
    BY <1>3, <1>4 DEF Relies, Writing, LeasedOps
  <1>6. GoesWith(p, r)
    BY <1>1 DEF GoesWith
  <1> QED BY <1>1, <1>5, <1>6, BeginsKeeps

\* What a migration is to write: the keys first.
LEMMA ToMigrate ==
  ASSUME NEW d, NEW k
  PROVE  [i \in 1..2 |-> <<Config!MigrateOrder[i], [secrets |-> k, config |-> d][Config!MigrateOrder[i]]>>]
           = <<<<"secrets", k>>, <<"config", d>>>>
  <1> DEFINE b == [secrets |-> k, config |-> d]
  <1>1. b["secrets"] = k /\ b["config"] = d
    OBVIOUS
  <1> HIDE DEF b
  <1>2. Config!MigrateOrder[1] = "secrets" /\ Config!MigrateOrder[2] = "config"
    BY DEF Config!MigrateOrder
  <1>3. \A i \in 1..2 : <<Config!MigrateOrder[i], b[Config!MigrateOrder[i]]>> = <<<<"secrets", k>>, <<"config", d>>>>[i]
    BY <1>1, <1>2
  <1>4. [i \in 1..2 |-> <<Config!MigrateOrder[i], b[Config!MigrateOrder[i]]>>]
          = [i \in 1..2 |-> <<<<"secrets", k>>, <<"config", d>>>>[i]]
    BY <1>3
  <1>5. <<<<"secrets", k>>, <<"config", d>>>> = [i \in 1..2 |-> <<<<"secrets", k>>, <<"config", d>>>>[i]]
    OBVIOUS
  <1> QED BY <1>4, <1>5 DEF b

LEMMA MigrateKeeps ==
  ASSUME ConfigInv, NEW p \in Procs, Config!Migrate(p)
  PROVE  ConfigInv'
  <1> DEFINE o == configProc[p]
             c == files.config
             s == files.secrets
             n == Config!Inline(c)
             k == [e \in Entries |-> IF e \in n THEN c.keys[e] ELSE s[e]]
             d == [c EXCEPT !.keys = [e \in Entries |-> Config!NoKey]]
             t == <<<<"secrets", k>>, <<"config", d>>>>
             r == [o EXCEPT !.at = "open", !.seen = Config!Missing, !.todo = t]
  <1>1. /\ IsConf(o) /\ ConfAt(o) /\ o.op = "migrate" /\ o.at = "read" /\ FilesKept(files, saved)
        /\ files' = files /\ temp' = temp /\ saved' = saved /\ lease' = lease
    BY ConfOfProc DEF Config!Migrate
  <1>2. CASE c = Config!Torn \/ s = Config!Torn \/ n = {}
    <2>1. configProc' = [configProc EXCEPT ![p] = Config!Idle]
      BY <1>2 DEF Config!Migrate, Config!config
    <2> QED BY <1>1, <2>1, StopKeeps
  <1>3. CASE ~(c = Config!Torn \/ s = Config!Torn \/ n = {})
    <2>1. configProc' = [configProc EXCEPT ![p] = r]
      <3>1. [i \in 1..2 |-> <<Config!MigrateOrder[i], [secrets |-> k, config |-> d][Config!MigrateOrder[i]]>>] = t
        BY ToMigrate
      <3>2. configProc' = [configProc EXCEPT ![p] =
              [@ EXCEPT !.at = "open", !.seen = Config!Missing,
                        !.todo = [i \in 1..2 |-> <<Config!MigrateOrder[i], [secrets |-> k, config |-> d][Config!MigrateOrder[i]]>>]]]
        BY <1>3 DEF Config!Migrate, Config!config
      <3> HIDE DEF k, d, t
      <3> QED BY <3>1, <3>2
    <2>2. IsKeys(k) /\ AllKeys(k)
      BY <1>1 DEF FilesKept, KeyIn, AllKeys, IsKeys, Config!Inline, NoKey
    <2>3. IsDoc(d) /\ Config!Preferences(d) = Config!Preferences(c) /\ Config!ValidTable(d.table)
      <3> DEFINE none == [e \in Entries |-> Config!NoKey]
      <3>1. d \in DocOf(none, c.theme, c.shortcuts, c.table) /\ IsKeys(none)
        BY <1>1 DEF FilesKept, IsDoc, DocOf, IsKeys
      <3> HIDE DEF none, d
      <3>2. d.keys = none /\ d.theme = c.theme /\ d.shortcuts = c.shortcuts /\ d.table = c.table /\ IsDoc(d)
        BY <3>1 DEF IsDoc, DocOf
      <3> QED BY <1>1, <3>2 DEF FilesKept, Config!Preferences
    <2> HIDE DEF k, d
    <2>4. MigrateTodo(t, files["config"], files["secrets"])
      BY <2>2, <2>3 DEF MigrateTodo
    <2> HIDE DEF t
    <2>5. r \in ConfOf(o.op, "open", o.arg, Config!Missing, t, o.fd)
      BY <1>1 DEF IsConf, ConfOf
    <2> HIDE DEF r
    <2>6. r.op = "migrate" /\ r.at = "open" /\ r.todo = t /\ IsConf(r)
      BY <1>1, <2>5 DEF ConfOf, IsConf
    <2>7. ConfAt(r)
      BY <2>6 DEF ConfAt, Writing, LeasedOps
    <2>8. Relies(p, r, files["config"], files["secrets"], lease, temp)
      BY <2>4, <2>6, <2>7 DEF Relies, LeasedOps
    <2>9. GoesWith(p, r)
      BY <1>1, <2>6, GoesOn
    <2> QED BY <1>1, <2>1, <2>8, <2>9, BeginsKeeps
  <1> QED BY <1>2, <1>3

\* The user writes a key while no process writes.
LEMMA UserEditKeeps ==
  ASSUME ConfigInv, NEW e \in Entries, NEW k \in ApiKeys, Config!UserEdit(e, k)
  PROVE  ConfigInv'
  <1> DEFINE c == files.config
             d == [c EXCEPT !.keys[e] = k]
  <1>1. /\ temp' = temp /\ lease' = lease /\ configProc' = configProc /\ saved' = saved
        /\ \A q \in Procs : configProc[q].op \in {"idle", "load"}
    BY DEF Config!UserEdit, Config!Writes
  <1>2. FilesKept(files, saved)
    BY DEF ConfigInv
  <1>3. files' = [files EXCEPT !["config"] = d]
    BY DEF Config!UserEdit
  <1>4. TheFiles(files') /\ files'["config"] = d /\ files'["secrets"] = files["secrets"]
    BY <1>2, <1>3, FileIs DEF FilesKept
  <1>5. /\ IsDoc(d) /\ d.theme = c.theme /\ d.shortcuts = c.shortcuts /\ d.table = c.table
        /\ \A g \in Entries : d.keys[g] = c.keys[g] \/ d.keys[g] # NoKey
    <2> DEFINE n == [c.keys EXCEPT ![e] = k]
    <2>1. IsKeys(c.keys) /\ IsDoc(c)
      BY <1>2 DEF FilesKept, IsDoc
    <2>2. IsKeys(n) /\ \A g \in Entries : n[g] = c.keys[g] \/ n[g] = k
      BY <2>1 DEF IsKeys
    <2>3. d = [c EXCEPT !.keys = n]
      OBVIOUS
    <2>4. k # NoKey
      BY ConfigConstants DEF NoKey, Config!NoKey
    <2> HIDE DEF n, d
    <2>5. d \in DocOf(n, c.theme, c.shortcuts, c.table)
      BY <2>1, <2>3 DEF IsDoc, DocOf
    <2> QED BY <2>2, <2>4, <2>5 DEF IsDoc, DocOf
  <1> HIDE DEF d
  <1>6. FilesKept(files', saved')
    BY <1>1, <1>2, <1>4, <1>5 DEF FilesKept, KeyIn, Config!Preferences
  <1>7. ASSUME NEW q \in Procs
        PROVE  Relies(q, configProc'[q], files'["config"], files'["secrets"], lease', temp')
    <2>1. Relies(q, configProc[q], files["config"], files["secrets"], lease, temp)
      BY DEF ConfigInv
    <2>2. configProc[q].at \in Resting
      BY <1>1, <2>1 DEF Relies, ConfAt, Resting, LeasedOps
    <2> QED BY <1>1, <1>4, <2>1, <2>2, RestingRely
  <1> QED BY <1>1, <1>6, <1>7 DEF ConfigInv

LEMMA ConfigStart == Config!Init => ConfigInv
  <1> SUFFICES ASSUME Config!Init PROVE ConfigInv
    OBVIOUS
  <1>1. PICK keys \in [Entries -> ApiKeys] :
          files = [config |-> [keys |-> keys, theme |-> "auto", shortcuts |-> {}, table |-> [lo |-> 0, hi |-> 1]],
                   secrets |-> [e \in Entries |-> NoKey]]
    BY DEF Config!Init, NoKey
  <1>2. /\ temp = [config |-> Config!Missing, secrets |-> Config!Missing]
        /\ configProc = [p \in Procs |-> Config!Idle] /\ saved = Config!Preferences(files.config)
    BY DEF Config!Init
  <1>3. TheFiles(files) /\ TheFiles(temp)
    BY <1>1, <1>2 DEF TheFiles
  <1>4. /\ files["config"] \in DocOf(keys, "auto", {}, [lo |-> 0, hi |-> 1])
        /\ IsKeys(keys) /\ IsKeys(files["secrets"])
    BY <1>1 DEF DocOf, IsKeys
  <1>5. \A e \in Entries : keys[e] # NoKey
    BY ConfigConstants DEF NoKey, Config!NoKey
  <1>6. files["config"].keys = keys /\ files["config"].table = [lo |-> 0, hi |-> 1]
    BY <1>4 DEF DocOf
  <1>7. IsDoc(files["config"]) /\ Config!ValidTable(files["config"].table)
    BY <1>4, <1>6 DEF IsDoc, DocOf, Config!ValidTable
  <1>8. FilesKept(files, saved)
    BY SMTT(40), <1>2, <1>3, <1>4, <1>5, <1>6, <1>7 DEF FilesKept, KeyIn
  <1>9. \A p \in Procs : configProc[p] = Config!Idle
    BY <1>2
  <1>10. \A p \in Procs : /\ Relies(p, configProc[p], files["config"], files["secrets"], lease, temp)
                          /\ configProc[p].op = "idle"
    BY <1>9, IdleRelies
  <1> QED BY <1>2, <1>3, <1>8, <1>10 DEF ConfigInv

LEMMA ConfigNextKeeps ==
  ASSUME MigratesAlone, ConfigInv, Config!Next
  PROVE  ConfigInv'
  BY SaveThemeKeeps, BindKeeps, UpdateKeeps, LeaseKeeps, ReadLeasedKeeps, OpenKeeps, FillKeeps, RenameKeeps, FailsKeeps,
     OfferKeeps, DeclineKeeps, MigrateKeeps, LoadConfigKeeps, LoadSecretsKeeps, LoadedKeeps, ConfigCrashKeeps,
     UserEditKeeps DEF Config!Next

\* A step of the other parts leaves the configuration as it is.
LEMMA ConfigSteps == [Next]_vars => Config!Next \/ UNCHANGED configVars
  BY DEF Next, vars

LEMMA ConfigInvariant == MigratesAlone => (Spec => []ConfigInv)
  <1> SUFFICES ASSUME MigratesAlone PROVE Spec => []ConfigInv
    OBVIOUS
  <1>1. Init => ConfigInv
    BY ConfigStart DEF Init
  <1>2. ConfigInv /\ [Next]_vars => ConfigInv'
    <2>1. CASE UNCHANGED configVars
      BY <2>1 DEF configVars, ConfigInv
    <2> QED BY <2>1, ConfigSteps, ConfigNextKeeps
  <1> QED BY <1>1, <1>2, PTL DEF Spec

\* Every start finds a key for every entry through a migration that stops between its two files, no crash leaves half a
\* configuration, no save erases what another saved, and two edits validated apart do not together save a table neither
\* validated (config.py).  A migration takes no lease: this is about one that has the files to itself.
THEOREM ConfigStaysKept == MigratesAlone => (Spec => []ConfigIsKept)
  <1> SUFFICES ASSUME MigratesAlone PROVE Spec => []ConfigIsKept
    OBVIOUS
  <1>1. ConfigInv => ConfigIsKept
    <2> SUFFICES ASSUME ConfigInv
                 PROVE  Config!LoadsFindTheirKeys /\ Config!SavesAreKept /\ Config!SettingsStayValid
      BY DEF ConfigIsKept
    <2>1. ASSUME NEW p \in Procs, configProc[p].at = "loaded"
          PROVE  AllKeys(configProc[p].seen)
      BY <2>1, ConfOfProc DEF Relies
    <2>2. FilesKept(files, saved)
      BY DEF ConfigInv
    <2>3. files.config # Config!Torn
      BY <2>2, DocIsWhole DEF FilesKept
    <2> QED BY <2>1, <2>2, <2>3
            DEF Config!LoadsFindTheirKeys, Config!SavesAreKept, Config!SettingsStayValid, Config!config, FilesKept,
                AllKeys, NoKey
  <1> QED BY <1>1, ConfigInvariant, PTL
=============================================================================
