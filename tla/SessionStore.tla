---------------------------- MODULE SessionStore ----------------------------
(***************************************************************************)
(* The life of session families in one project directory, shared by        *)
(* several wizolt processes: a run creates or resumes a session under its  *)
(* family's lease, saves it, hands off to another session (/sessions), and *)
(* in the background sweeps what the retention time has expired            *)
(* (__main__.py, agent/lifecycle.py, session/store.py, ui/cli/commands.py).*)
(*                                                                         *)
(* The lease itself is SessionLease's subject; here it is the process that *)
(* holds it.  A family is a root session and the logs of its subagents,    *)
(* which are one "kid" here.  A process that ends has closed what it held, *)
(* by main's finally blocks or by its death.                               *)
(***************************************************************************)
EXTENDS Naturals, Sequences, FiniteSets

CONSTANTS Procs,      \* wizolt processes of one data directory
          Sessions,   \* uids of root sessions
          MaxRecords, \* bound on the records of one log
          MaxStarts,  \* bound on the processes started
          MaxSweeps   \* bound on the retention passes

VARIABLES
    logs,   \* the logs there are: <<uid, "root">> or <<uid, "kid">>
    aged,   \* root logs not written since the retention time's cutoff
    saves,  \* [Sessions -> records committed to the log, ever]
    latest, \* the project's pointer file
    lease,  \* [Sessions -> the process that owns the family]
    run,    \* [Procs -> what main is doing]
    pass,   \* [Procs -> its retention pass]
    starts, passes

vars == <<logs, aged, saves, latest, lease, run, pass, starts, passes>>

None == "none"
Stages == {"off", "start", "open", "live", "closing"}
Off == [at |-> "off", uid |-> None, steps |-> <<>>, base |-> 0, save |-> None, held |-> None, next |-> None, lent |-> None]
NoPass == [at |-> "off", todo |-> {}, members |-> {}, family |-> None, steps |-> <<>>, there |-> FALSE, due |-> FALSE, stale |-> FALSE]

HasRoot(u) == <<u, "root">> \in logs
Rooted == {u \in Sessions : HasRoot(u)}
Without(p) == [u \in Sessions |-> IF lease[u] = p THEN None ELSE lease[u]]
SetRun(p, r) == run' = [run EXCEPT ![p] = r]
SetPass(p, r) == pass' = [pass EXCEPT ![p] = r]
Storage == <<logs, aged, saves, latest>>

\* The process ends: main's outer finally closes the current session and a reservation.
Exit(p) == SetRun(p, Off) /\ SetPass(p, NoPass) /\ lease' = Without(p)

-----------------------------------------------------------------------------
(* Opening.                                                                *)

\* main: a new session, `--resume UID` or the project's latest.
Start(p) ==
    /\ run[p].at = "off" /\ starts < MaxStarts
    /\ \E want \in {"new", "latest"} \cup Rooted : SetRun(p, [Off EXCEPT !.at = "start", !.uid = want])
    /\ starts' = starts + 1
    /\ UNCHANGED <<Storage, lease, pass, passes>>

\* create_session and ensure_ownership: a uid of its own, owned before anything can run.
Create(p) ==
    /\ run[p].at = "start" /\ run[p].uid = "new"
    /\ \E u \in Sessions :
          /\ saves[u] = 0 /\ lease[u] = None /\ ~HasRoot(u)
          /\ lease' = [lease EXCEPT ![u] = p]
          /\ SetRun(p, [Off EXCEPT !.at = "live", !.uid = u])
    /\ UNCHANGED <<Storage, pass, starts, passes>>

\* resolve_uid: for latest the pointer if it still names a log, else the newest
\* log (any of them: file times are not modelled).
Named(want) ==
    IF want # "latest" THEN {want}
    ELSE IF latest \in Rooted THEN {latest}
    ELSE IF Rooted = {} THEN {None} ELSE Rooted

\* Mutant: the snapshot is decoded before the family is owned.
OpenOrder_mut == <<"decode", "acquire">>
\* load_session: the snapshot is decoded under the lease only.
OpenOrder == <<"acquire", "decode">>

\* resolve_uid and find_session_path: the file before the lease.
Locate(p) ==
    /\ run[p].at = "start" /\ run[p].uid # "new"
    /\ \E u \in Named(run[p].uid) :
          IF u \in Rooted
          THEN SetRun(p, [run[p] EXCEPT !.at = "open", !.uid = u, !.steps = OpenOrder]) /\ UNCHANGED <<lease, pass>>
          ELSE Exit(p)
    /\ UNCHANGED <<Storage, starts, passes>>

Opened(r) == IF Len(r.steps) > 1 THEN [r EXCEPT !.steps = Tail(@)]
             ELSE [r EXCEPT !.at = "live", !.steps = <<>>, !.lent = None]
Opening(p, step) == run[p].at = "open" /\ Head(run[p].steps) = step

\* The lease the previous run reserved is used as it is; a busy family ends the process.
Acquire(p) ==
    LET u == run[p].uid
    IN  /\ Opening(p, "acquire")
        /\ IF run[p].lent = u \/ lease[u] = None
           THEN lease' = [lease EXCEPT ![u] = p] /\ SetRun(p, Opened(run[p])) /\ UNCHANGED pass
           ELSE Exit(p)
        /\ UNCHANGED <<Storage, starts, passes>>

\* Existence is checked again under the lease; SessionSnapshotStore.load; adopt_ownership.
Decode(p) ==
    /\ Opening(p, "decode")
    /\ IF HasRoot(run[p].uid)
       THEN SetRun(p, Opened([run[p] EXCEPT !.base = saves[run[p].uid]])) /\ UNCHANGED <<lease, pass>>
       ELSE Exit(p)
    /\ UNCHANGED <<Storage, starts, passes>>

\* A log that does not decode, or a feature that does not start: the lease is closed.
OpenFails(p) ==
    /\ Opening(p, "decode")
    /\ Exit(p)
    /\ UNCHANGED <<Storage, starts, passes>>

-----------------------------------------------------------------------------
(* The session is open: saves, a subagent, the handoff, the end.           *)

Idle(p) == run[p].at = "live" /\ run[p].save = None

\* execute: the record is committed; the pointer's failure is not the save's.
Commit(p) ==
    LET u == run[p].uid
    IN  /\ saves[u] < MaxRecords
        /\ logs' = logs \cup {<<u, "root">>}
        /\ saves' = [saves EXCEPT ![u] = @ + 1]
        /\ aged' = aged \ {u}
        /\ latest' \in {latest, u}

\* save_snapshot during a turn.
Save(p) ==
    /\ Idle(p) /\ Commit(p)
    /\ SetRun(p, [run[p] EXCEPT !.base = @ + 1])
    /\ UNCHANGED <<lease, pass, starts, passes>>

\* The user ends the run, whose last act is a save (save_and_emit_resume).
Quit(p) ==
    /\ Idle(p)
    /\ SetRun(p, [run[p] EXCEPT !.save = "exit"])
    /\ UNCHANGED <<Storage, lease, pass, starts, passes>>

\* What follows the save: the handoff is published, an earlier reservation
\* closed; or the run winds up.
Publish(p, r) ==
    /\ SetRun(p, IF r.save = "handoff" THEN [r EXCEPT !.save = None, !.next = r.held, !.held = None]
                 ELSE [r EXCEPT !.save = None, !.at = "closing", !.base = 0])
    /\ lease' = IF r.save = "handoff" /\ r.next # None THEN [lease EXCEPT ![r.next] = None] ELSE lease

SaveAndPublish(p) ==
    /\ run[p].save # None /\ Commit(p)
    /\ Publish(p, [run[p] EXCEPT !.base = @ + 1])
    /\ UNCHANGED <<pass, starts, passes>>

\* plan returns None: nothing was added since the last record.
NothingToSave(p) ==
    /\ run[p].save # None
    /\ Publish(p, run[p])
    /\ UNCHANGED <<Storage, pass, starts, passes>>

\* Mutant: a failed save leaves the target reserved.
Unreserved_mut(p) == lease
\* sessions_command: the target's lease is closed when the save failed.
Unreserved(p) == IF run[p].held = None THEN lease ELSE [lease EXCEPT ![run[p].held] = None]

\* The append fails: this run goes on, except at its end.
SaveFails(p) ==
    /\ run[p].save # None
    /\ IF run[p].save = "exit" THEN Exit(p)
       ELSE /\ lease' = Unreserved(p)
            /\ SetRun(p, [run[p] EXCEPT !.save = None, !.held = None]) /\ UNCHANGED pass
    /\ UNCHANGED <<Storage, starts, passes>>

\* A subagent's own log, under its root's lease (borrow_ownership).
SaveKid(p) ==
    /\ Idle(p) /\ <<run[p].uid, "kid">> \notin logs
    /\ logs' = logs \cup {<<run[p].uid, "kid">>}
    /\ UNCHANGED <<aged, saves, latest, lease, run, pass, starts, passes>>

\* /sessions: the target, from a list that may be old, is reserved before this
\* session is saved; a busy one is a command error.
Reserve(p) ==
    /\ Idle(p)
    /\ \E u \in Sessions \ {run[p].uid} :
          /\ saves[u] > 0 /\ lease[u] = None
          /\ lease' = [lease EXCEPT ![u] = p]
          /\ SetRun(p, [run[p] EXCEPT !.held = u, !.save = "handoff"])
    /\ UNCHANGED <<Storage, pass, starts, passes>>

\* Mutant: the target is released with the session.
CarriedOver_mut(p) == Without(p)
\* main: only this session's own lease is released.
CarriedOver(p) == [lease EXCEPT ![run[p].uid] = None]

\* The background work is joined; main closes the session and starts the next run, or ends.
Close(p) ==
    /\ run[p].at = "closing" /\ pass[p].at = "off"
    /\ IF run[p].next = None THEN Exit(p)
       ELSE /\ lease' = CarriedOver(p)
            /\ SetRun(p, [Off EXCEPT !.at = "start", !.uid = run[p].next, !.lent = run[p].next]) /\ UNCHANGED pass
    /\ UNCHANGED <<Storage, starts, passes>>

Crash(p) ==
    /\ run[p].at # "off"
    /\ Exit(p)
    /\ UNCHANGED <<Storage, starts, passes>>

-----------------------------------------------------------------------------
(* Retention.                                                              *)

\* clean_expired lists the directory, family by family.
Scan(p) ==
    /\ run[p].at = "live" /\ pass[p].at = "off" /\ passes < MaxSweeps
    /\ SetPass(p, [NoPass EXCEPT !.at = "family", !.members = logs, !.todo = {f[1] : f \in logs} \ {run[p].uid}])
    /\ passes' = passes + 1
    /\ UNCHANGED <<Storage, lease, run, starts>>

\* Mutant: the family's age is read before its lease is taken.
SweepOrder_mut == <<"age", "lease">>
\* Eligibility is read again under the lease.
SweepOrder == <<"lease", "age">>

NextFamily(p) ==
    /\ pass[p].at = "family" /\ pass[p].steps = <<>>
    /\ \E u \in pass[p].todo : SetPass(p, [pass[p] EXCEPT !.family = u, !.todo = @ \ {u}, !.steps = SweepOrder])
    /\ UNCHANGED <<Storage, lease, run, starts, passes>>

Left(p) == {f \in pass[p].members : f[1] = pass[p].family}

Judging(p, step) == pass[p].at = "family" /\ pass[p].steps # <<>> /\ Head(pass[p].steps) = step
Judged(r) == IF Len(r.steps) > 1 THEN [r EXCEPT !.steps = Tail(@)] ELSE [r EXCEPT !.steps = <<>>, !.at = "delete"]

\* Mutant: a family that is in use is swept all the same.
Sweepable_mut(u) == TRUE
\* A family some runtime owns is passed over, however old its log looks.
Sweepable(u) == lease[u] = None

TakeFamily(p) ==
    /\ Judging(p, "lease")
    /\ IF Sweepable(pass[p].family)
       THEN /\ lease' = [lease EXCEPT ![pass[p].family] = p]
            /\ SetPass(p, Judged(pass[p]))
       ELSE SetPass(p, [pass[p] EXCEPT !.steps = <<>>, !.family = None, !.members = @ \ Left(p)]) /\ UNCHANGED lease
    /\ UNCHANGED <<Storage, run, starts, passes>>

ReadAge(p) ==
    LET u == pass[p].family
    IN  /\ Judging(p, "age")
        /\ SetPass(p, Judged([pass[p] EXCEPT !.there = HasRoot(u), !.due = HasRoot(u) /\ u \in aged]))
        /\ UNCHANGED <<Storage, lease, run, starts, passes>>

\* A child expires with its root, or when its root is gone.
Expired(p, f) == IF f[2] = "kid" THEN ~pass[p].there \/ pass[p].due ELSE pass[p].due

\* One log with its assets, sidecar and history.
Delete(p) ==
    /\ pass[p].at = "delete"
    /\ \E f \in Left(p) :
          LET gone == f \in logs /\ Expired(p, f)
          IN  /\ logs' = IF gone THEN logs \ {f} ELSE logs
              /\ aged' = IF gone /\ f[2] = "root" THEN aged \ {f[1]} ELSE aged
              /\ SetPass(p, [pass[p] EXCEPT !.members = @ \ {f}, !.stale = @ \/ (gone /\ f = <<latest, "root">>)])
    /\ UNCHANGED <<saves, latest, lease, run, starts, passes>>

LeaveFamily(p) ==
    /\ pass[p].at = "delete" /\ Left(p) = {}
    /\ lease' = [lease EXCEPT ![pass[p].family] = None]
    /\ SetPass(p, [NoPass EXCEPT !.at = "family", !.todo = pass[p].todo, !.members = pass[p].members, !.stale = pass[p].stale])
    /\ UNCHANGED <<Storage, run, starts, passes>>

\* The pointer is cleared when it named a deleted log, and with the last log.
EndPass(p) ==
    /\ pass[p].at = "family" /\ pass[p].steps = <<>> /\ pass[p].todo = {}
    /\ latest' = IF pass[p].stale \/ logs = {} THEN None ELSE latest
    /\ SetPass(p, NoPass)
    /\ UNCHANGED <<logs, aged, saves, lease, run, starts, passes>>

\* A log passes the retention time, in use or not.
Age ==
    /\ \E u \in Rooted \ aged : aged' = aged \cup {u}
    /\ UNCHANGED <<logs, saves, latest, lease, run, pass, starts, passes>>

-----------------------------------------------------------------------------
Init ==
    /\ \E known \in SUBSET Sessions :
          /\ logs = known \X {"root"}
          /\ saves = [u \in Sessions |-> IF u \in known THEN 1 ELSE 0]
          /\ latest \in known \cup {None}
    /\ aged = {} /\ lease = [u \in Sessions |-> None]
    /\ run = [p \in Procs |-> Off] /\ pass = [p \in Procs |-> NoPass]
    /\ starts = 0 /\ passes = 0

Next ==
    \/ \E p \in Procs : Start(p) \/ Create(p) \/ Locate(p) \/ Acquire(p) \/ Decode(p) \/ OpenFails(p)
    \/ \E p \in Procs : Save(p) \/ Quit(p) \/ SaveAndPublish(p) \/ NothingToSave(p) \/ SaveFails(p) \/ SaveKid(p)
    \/ \E p \in Procs : Reserve(p) \/ Close(p) \/ Crash(p)
    \/ \E p \in Procs : Scan(p) \/ NextFamily(p) \/ TakeFamily(p) \/ ReadAge(p) \/ Delete(p) \/ LeaveFamily(p) \/ EndPass(p)
    \/ Age

Spec == Init /\ [][Next]_vars

-----------------------------------------------------------------------------
(* What is promised.                                                       *)

\* What an open session remembers is its log: no other process wrote a record
\* since it was decoded, and no retention pass removed it, so the next delta
\* applies (lifecycle.py:50-52, store.py:558-559).
SessionsKnowTheirLog ==
    \A p \in Procs : run[p].at = "live" =>
        /\ lease[run[p].uid] = p
        /\ run[p].base = saves[run[p].uid]
        /\ run[p].base > 0 => HasRoot(run[p].uid)

\* A retention pass removes a log only while that log is older than the
\* retention time (store.py:433-434: eligibility is re-read under the lease).
OnlyTheExpiredGo ==
    [][\A u \in Sessions : (HasRoot(u) /\ <<u, "root">> \notin logs') => u \in aged]_vars

\* A process owns just what it has open, has reserved or is sweeping: a failed
\* handoff strands nothing, and a published one is owned until the next run
\* opens it (commands.py:439-441, __main__.py:307-308).
OwnershipIsAccounted ==
    \A p \in Procs : \A u \in Sessions :
        LET r == run[p]
        IN  lease[u] = p <=>
              \/ r.at \in {"live", "closing"} /\ r.uid = u
              \/ r.at = "open" /\ r.uid = u /\ (r.lent = u \/ Head(r.steps) = "decode")
              \/ u \in {r.held, r.next, r.lent}
              \/ pass[p].at = "delete" /\ pass[p].family = u
              \/ pass[p].at = "family" /\ pass[p].family = u /\ pass[p].steps # <<>> /\ Head(pass[p].steps) = "age"
=============================================================================
