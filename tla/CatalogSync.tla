---------------------------- MODULE CatalogSync ----------------------------
(***************************************************************************)
(* The provider catalog on disk and its refresh from the remote            *)
(* (providers/sync.py): processes that share one data directory probe the  *)
(* cache, ask the remote without holding anything, and commit the answer   *)
(* under a cross-process lock.  The cache and the ETag stored beside it    *)
(* are two files, replaced one after the other.                            *)
(*                                                                         *)
(* A process runs two tasks that may fetch: its background refresh and     *)
(* /catalog sync.  An ETag names the document it was served with.          *)
(***************************************************************************)
EXTENDS Naturals, Sequences

CONSTANTS Procs,      \* processes sharing a data directory
          Published,  \* the documents the remote will serve, in order: [version, text]
          Bundled,    \* [Procs -> document]: what each installed release ships
          MaxFaults,  \* bound on crashes and on removals of the cache
          MaxFetches, \* bound on the fetches that are started
          None        \* no document

VARIABLES
    remote,   \* index in Published of what the remote serves
    cache,    \* catalog.json, or None
    etag,     \* the document catalog-etag.txt names, or None
    lock,     \* the task that holds catalog.lock, or None
    task,     \* [Tasks -> [at, attempt, probe, response, asked, answer, cancelled]]
    proc,     \* [Procs -> [active, checking, due]]
    faults,
    fetches

vars == <<remote, cache, etag, lock, task, proc, faults, fetches>>

Tasks == Procs \X {"refresh", "sync"}
Of(t) == t[1]

Idle == [at |-> "idle", attempt |-> 0, probe |-> None, response |-> None, asked |-> 0, answer |-> None, cancelled |-> FALSE]

-----------------------------------------------------------------------------
(* CatalogRepository.                                                      *)

\* select: the highest version; a cached copy of the bundled version never replaces it.
select(p) == IF cache # None /\ cache.version > Bundled[p].version THEN cache ELSE Bundled[p]

\* probe: the cache's identity and the ETag beside it, read together under the lock.
Probe(t) ==
    /\ task[t].at = "probe" /\ lock = None
    /\ task' = [task EXCEPT ![t] = IF @.cancelled THEN Idle
           ELSE [@ EXCEPT !.at = "request", !.probe = [cached |-> cache, etag |-> IF cache = None THEN None ELSE etag]]]
    /\ proc' = [proc EXCEPT ![Of(t)].checking = @ /\ ~(task[t].cancelled /\ t[2] = "refresh")]
    /\ UNCHANGED <<remote, cache, etag, lock, faults, fetches>>

\* _request: the conditional GET; 304 when the remote still serves what the ETag names.
Request(t) ==
    /\ task[t].at = "request"
    /\ task' = [task EXCEPT ![t].at = "commit", ![t].asked = remote,
                            ![t].response = IF task[t].probe.etag = Published[remote] THEN None ELSE Published[remote]]
    /\ UNCHANGED <<remote, cache, etag, lock, proc, faults, fetches>>

\* Mutant: the answer is compared with the cache it was asked about.
Current_mut(t) ==
    LET cached == task[t].probe.cached
    IN  IF cached # None /\ cached.version > Bundled[Of(t)].version THEN cached ELSE Bundled[Of(t)]
\* commit: the cache as it is now is what an answer is compared with.
Current(t) == select(Of(t))

\* Mutant: a 304 is taken at its word.
StillDescribes_mut(t) == TRUE
\* A 304 counts for the document it was asked about, or when a newer one is there.
StillDescribes(t) ==
    LET cached == task[t].probe.cached
    IN  cache # None /\ (cache = cached \/ (cached # None /\ cache.version > cached.version))

\* Mutant: the ETag is stored first.
WriteOrder_mut == <<"etag", "cache">>
\* _write_cache: two atomic replaces.
WriteOrder == <<"cache", "etag">>
Replace(file, doc) ==
    /\ cache' = IF file = "cache" THEN doc ELSE cache
    /\ etag' = IF file = "etag" THEN doc ELSE etag

-----------------------------------------------------------------------------
(* CatalogRuntime.                                                         *)

\* Mutant: a cancelled refresh keeps its claim.
Released_mut(t, ok) == [proc[Of(t)] EXCEPT !.checking = @ /\ task[t].cancelled, !.due = @ /\ task[t].cancelled]
\* refresh and sync, at their end: the refresh gives its claim up, and the 72 h gate closes unless
\* it was cancelled; only sync activates what it fetched.
Released(t, ok) ==
    IF t[2] = "refresh" THEN [proc[Of(t)] EXCEPT !.checking = FALSE, !.due = @ /\ task[t].cancelled]
    ELSE [proc[Of(t)] EXCEPT !.due = @ /\ (task[t].cancelled \/ ~ok)]

Activated(t, record, doc) ==
    IF t[2] = "sync" /\ ~task[t].cancelled /\ doc.version > record.active.version
    THEN [record EXCEPT !.active = doc] ELSE record

\* A fetch ends with a document, or with None when it failed or was cancelled.
Ends(t, doc) ==
    /\ task' = [task EXCEPT ![t] = IF doc = None \/ @.cancelled THEN Idle ELSE [Idle EXCEPT !.asked = task[t].asked, !.answer = doc]]
    /\ proc' = [proc EXCEPT ![Of(t)] = IF doc = None THEN Released(t, FALSE) ELSE Activated(t, Released(t, TRUE), doc)]

RequestFails(t) ==
    /\ task[t].at = "request"
    /\ Ends(t, None)
    /\ UNCHANGED <<remote, cache, etag, lock, faults, fetches>>

\* commit of a 304.
CommitNotModified(t) ==
    /\ task[t].at = "commit" /\ task[t].response = None /\ lock = None
    /\ IF StillDescribes(t) \/ task[t].attempt = 2 \/ task[t].cancelled
       THEN Ends(t, Current(t))
       ELSE task' = [task EXCEPT ![t] = [Idle EXCEPT !.at = "probe", !.attempt = 2]] /\ UNCHANGED proc
    /\ UNCHANGED <<remote, cache, etag, lock, faults, fetches>>

\* commit of a body that does not win: older, the same, or a conflict under the same version.
CommitDeclined(t) ==
    /\ task[t].at = "commit" /\ task[t].response # None /\ lock = None
    /\ task[t].response.version <= Current(t).version
    /\ Ends(t, IF task[t].response.version = Current(t).version /\ task[t].response # Current(t) THEN None ELSE Current(t))
    /\ UNCHANGED <<remote, cache, etag, lock, faults, fetches>>

CommitWrites(t) ==
    /\ task[t].at = "commit" /\ task[t].response # None /\ lock = None
    /\ task[t].response.version > Current(t).version
    /\ lock' = t /\ Replace(WriteOrder[1], task[t].response)
    /\ task' = [task EXCEPT ![t].at = "write"]
    /\ UNCHANGED <<remote, proc, faults, fetches>>
WriteSecond(t) ==
    /\ task[t].at = "write"
    /\ lock' = None /\ Replace(WriteOrder[2], task[t].response)
    /\ Ends(t, task[t].response)
    /\ UNCHANGED <<remote, faults, fetches>>

\* refresh_due claims the check; /catalog sync asks always.
Start(t) ==
    /\ task[t].at = "idle" /\ fetches < MaxFetches /\ fetches' = fetches + 1
    /\ t[2] = "refresh" => proc[Of(t)].due /\ ~proc[Of(t)].checking
    /\ task' = [task EXCEPT ![t] = [Idle EXCEPT !.at = "probe", !.attempt = 1]]
    /\ proc' = [proc EXCEPT ![Of(t)].checking = @ \/ t[2] = "refresh"]
    /\ UNCHANGED <<remote, cache, etag, lock, faults>>

\* Shutdown or Ctrl-C: a request is closed at once, a disk step admitted to the executor is waited for.
Cancel(t) ==
    /\ task[t].at # "idle" /\ ~task[t].cancelled
    /\ IF task[t].at = "request"
       THEN task' = [task EXCEPT ![t] = Idle] /\ proc' = [proc EXCEPT ![Of(t)].checking = @ /\ t[2] # "refresh"]
       ELSE task' = [task EXCEPT ![t].cancelled = TRUE] /\ UNCHANGED proc
    /\ UNCHANGED <<remote, cache, etag, lock, faults, fetches>>

-----------------------------------------------------------------------------
(* Around it.                                                              *)

Publish ==
    /\ remote < Len(Published) /\ remote' = remote + 1
    /\ UNCHANGED <<cache, etag, lock, task, proc, faults, fetches>>

\* The cache is removed, or found corrupt, which reads the same.
RemoveCache ==
    /\ cache # None /\ lock = None /\ faults < MaxFaults
    /\ faults' = faults + 1 /\ cache' = None
    /\ UNCHANGED <<remote, etag, lock, task, proc, fetches>>

\* A process dies, its lock with it, and starts again.
Crash(p) ==
    /\ faults < MaxFaults
    /\ faults' = faults + 1
    /\ lock' = IF lock # None /\ lock[1] = p THEN None ELSE lock
    /\ task' = [t \in Tasks |-> IF Of(t) = p THEN Idle ELSE task[t]]
    /\ proc' = [proc EXCEPT ![p] = [@ EXCEPT !.checking = FALSE, !.active = select(p)]]
    /\ UNCHANGED <<remote, cache, etag, fetches>>

Init ==
    /\ remote = 1 /\ cache = None /\ etag = None /\ lock = None /\ faults = 0 /\ fetches = 0
    /\ task = [t \in Tasks |-> Idle]
    /\ proc = [p \in Procs |-> [active |-> Bundled[p], checking |-> FALSE, due |-> TRUE]]

Next ==
    \/ \E t \in Tasks :
        \/ Start(t) \/ Probe(t) \/ Request(t) \/ RequestFails(t) \/ CommitNotModified(t)
        \/ CommitDeclined(t) \/ CommitWrites(t) \/ WriteSecond(t) \/ Cancel(t)
    \/ Publish \/ RemoveCache
    \/ \E p \in Procs : Crash(p)

Spec == Init /\ [][Next]_vars

-----------------------------------------------------------------------------
(* Properties.                                                             *)

\* A fetch that succeeds returns a catalog at least as new as what the remote served when it was
\* asked, whoever rewrote the cache meanwhile and through a crash between its two files
\* (providers/sync.py:157-190, 210-217).
AnswerIsCurrent ==
    \A t \in Tasks : task[t].answer # None => task[t].answer.version >= Published[task[t].asked].version

\* "The cache is never downgraded" (providers/sync.py:161-163).
CacheNeverDowngraded ==
    [][cache # None /\ cache' # None => cache'.version >= cache.version]_vars

\* The claim on the check lasts as long as the refresh that holds it, however that ends: a later
\* refresh is not shut out (providers/sync.py:346-382).
CheckIsReleased == \A p \in Procs : proc[p].checking = (task[<<p, "refresh">>].at # "idle")

\* "etag: only ever set when it belongs to the valid cache above" (providers/sync.py:46-47).
\* Not kept: a process may die between the two files, and the next
\* probe then gets a 304 only for bytes it no longer has, so AnswerIsCurrent stands.
EtagBelongsToTheCache ==
    \A t \in Tasks : task[t].at = "request" => task[t].probe.etag \in {None, task[t].probe.cached}
=============================================================================
