---------------------------- MODULE SessionLease ----------------------------
(***************************************************************************)
(* The flock lease of wizolt/session/ownership.py for one session family.  *)
(*                                                                         *)
(* An opener (a Session being opened, or a retention pass that wants to    *)
(* delete the family) and a sweeper (SessionLease.reclaim_unused, which    *)
(* unlinks lock files nobody owns) run the same _lock_file: open the path, *)
(* flock the descriptor without blocking, then compare the locked inode    *)
(* with the one the path names now.  Each system call is a step of its     *)
(* own, so that a sweep may overtake an opener between any two of them.    *)
(*                                                                         *)
(* An inode is pinned while it is linked or open, and its number may be    *)
(* used again afterwards: identity is only as good as the pin.             *)
(***************************************************************************)
EXTENDS Naturals

CONSTANTS Openers,    \* callers of SessionLease.acquire
          Sweepers,   \* callers of SessionLease.reclaim_unused
          Inodes,     \* inode numbers the file system hands out
          NoInode,    \* the path is not linked; the descriptor is closed
          Free,       \* a lock state: no open file description holds the flock
          Orphan,     \* a lock state: only a forked child's descriptor holds it
          MaxSweeps   \* bound: lock files one process lifetime's sweeps visit

Actors == Openers \cup Sweepers

ASSUME DistinctNames ==
  /\ Openers \cap Sweepers = {}
  /\ NoInode \notin Inodes
  /\ Free \notin Actors
  /\ Orphan \notin Actors
  /\ Free # Orphan

ASSUME SweepBound == MaxSweeps \in Nat

VARIABLES path,     \* the inode the lock path names
          pc,       \* where each actor is in _lock_file and after it
          fd,       \* the inode each actor's descriptor refers to
          lock,     \* which open file description holds each inode's flock
          shared,   \* inodes whose locked description a forked child inherited
          sweeps    \* lock files visited so far

vars == <<path, pc, fd, lock, shared, sweeps>>

\* "idle": no descriptor.  "open": at the top of the loop.  "flock", "check":
\* before those calls.  "held": the lease is returned to its caller.  "unlink",
\* "unlinked": the two halves of reclaiming one lock file.
Locations == {"idle", "open", "flock", "check", "held", "unlink", "unlinked"}

\* The locations of an actor whose description holds a flock.
Locking == {"check", "held", "unlink", "unlinked"}

TypeOK ==
  /\ path \in Inodes \cup {NoInode}
  /\ pc \in [Actors -> Locations]
  /\ fd \in [Actors -> Inodes \cup {NoInode}]
  /\ lock \in [Inodes -> Actors \cup {Free, Orphan}]
  /\ shared \in SUBSET Inodes
  /\ sweeps \in Nat

Init ==
  /\ path \in Inodes \cup {NoInode}        \* a crash may have left a lock file
  /\ pc = [a \in Actors |-> "idle"]
  /\ fd = [a \in Actors |-> NoInode]
  /\ lock = [i \in Inodes |-> Free]
  /\ shared = {}
  /\ sweeps = 0

\* An inode number the file system may give to a new file: neither linked,
\* nor open in an actor, nor open in a forked child.
Unused(i) ==
  /\ path # i
  /\ \A a \in Actors : fd[a] # i
  /\ i \notin shared

\* os.close: the description loses its flock unless a forked child shares it.
ClosedLock(i) ==
  IF i \in shared THEN [lock EXCEPT ![i] = Orphan] ELSE [lock EXCEPT ![i] = Free]

Goto(a, location) == pc' = [pc EXCEPT ![a] = location]

CloseAnd(a, location) ==
  /\ fd' = [fd EXCEPT ![a] = NoInode]
  /\ lock' = ClosedLock(fd[a])
  /\ Goto(a, location)

-----------------------------------------------------------------------------
(* _lock_file, shared by both kinds of actor.                              *)

StartAcquire(o) ==
  /\ pc[o] = "idle"
  /\ Goto(o, "open")
  /\ UNCHANGED <<path, fd, lock, shared, sweeps>>

\* The sweep only visits a lock file that its scandir saw.
StartSweep(s) ==
  /\ pc[s] = "idle"
  /\ path # NoInode
  /\ sweeps < MaxSweeps
  /\ sweeps' = sweeps + 1
  /\ Goto(s, "open")
  /\ UNCHANGED <<path, fd, lock, shared>>

OpenExisting(a) ==
  /\ pc[a] = "open"
  /\ path # NoInode
  /\ fd' = [fd EXCEPT ![a] = path]
  /\ Goto(a, "flock")
  /\ UNCHANGED <<path, lock, shared, sweeps>>

\* O_CREAT: only an acquisition creates the lock file.
OpenCreating(o) ==
  /\ pc[o] = "open"
  /\ path = NoInode
  /\ \E i \in Inodes : /\ Unused(i)
                       /\ path' = i
                       /\ fd' = [fd EXCEPT ![o] = i]
  /\ Goto(o, "flock")
  /\ UNCHANGED <<lock, shared, sweeps>>

\* create=False on an unlinked path: FileNotFoundError, and the sweep moves on.
SweepFindsNothing(s) ==
  /\ pc[s] = "open"
  /\ path = NoInode
  /\ Goto(s, "idle")
  /\ UNCHANGED <<path, fd, lock, shared, sweeps>>

\* Mutant: LOCK_SH instead of LOCK_EX.
SharedFlock(a) ==
  /\ pc[a] = "flock"
  /\ lock' = [lock EXCEPT ![fd[a]] = a]
  /\ Goto(a, "check")
  /\ UNCHANGED <<path, fd, shared, sweeps>>

Flock(a) ==
  /\ pc[a] = "flock"
  /\ lock[fd[a]] = Free
  /\ lock' = [lock EXCEPT ![fd[a]] = a]
  /\ Goto(a, "check")
  /\ UNCHANGED <<path, fd, shared, sweeps>>

\* Mutant: a busy file is opened again instead of reported.
SpinningFlockBusy(a) ==
  /\ pc[a] = "flock"
  /\ lock[fd[a]] # Free
  /\ fd' = [fd EXCEPT ![a] = NoInode]
  /\ Goto(a, "open")
  /\ UNCHANGED <<path, lock, shared, sweeps>>

\* EWOULDBLOCK: SessionBusyError for an opener, the next file for a sweep.
FlockBusy(a) ==
  /\ pc[a] = "flock"
  /\ lock[fd[a]] # Free
  /\ fd' = [fd EXCEPT ![a] = NoInode]
  /\ Goto(a, "idle")
  /\ UNCHANGED <<path, lock, shared, sweeps>>

\* Mutant: the locked inode is returned without comparing it with the path.
TrustingCheck(a, location) ==
  /\ pc[a] = "check"
  /\ Goto(a, location)
  /\ UNCHANGED <<path, fd, lock, shared, sweeps>>

\* fstat equals stat: the locked inode is the one the path names.
CheckCurrent(a, location) ==
  /\ pc[a] = "check"
  /\ path = fd[a]
  /\ Goto(a, location)
  /\ UNCHANGED <<path, fd, lock, shared, sweeps>>

\* Reclamation overtook open(): give the old inode back and start again.
CheckStale(a) ==
  /\ pc[a] = "check"
  /\ path # fd[a]
  /\ CloseAnd(a, "open")
  /\ UNCHANGED <<path, shared, sweeps>>

-----------------------------------------------------------------------------
(* What each kind of actor does with the locked descriptor.                *)

CloseLease(o) ==
  /\ pc[o] = "held"
  /\ CloseAnd(o, "idle")
  /\ UNCHANGED <<path, shared, sweeps>>

Unlink(s) ==
  /\ pc[s] = "unlink"
  /\ path' = NoInode
  /\ Goto(s, "unlinked")
  /\ UNCHANGED <<fd, lock, shared, sweeps>>

CloseSwept(s) ==
  /\ pc[s] = "unlinked"
  /\ CloseAnd(s, "idle")
  /\ UNCHANGED <<path, shared, sweeps>>

\* The kernel closes a dead process's descriptors, wherever it was.
Crash(a) ==
  /\ pc[a] # "idle"
  /\ fd' = [fd EXCEPT ![a] = NoInode]
  /\ lock' = IF pc[a] \in Locking THEN ClosedLock(fd[a]) ELSE lock
  /\ Goto(a, "idle")
  /\ UNCHANGED <<path, shared, sweeps>>

\* Another thread may fork while a descriptor is locked: the child shares it ...
Fork(a) ==
  /\ pc[a] \in Locking
  /\ shared' = shared \cup {fd[a]}
  /\ UNCHANGED <<path, pc, fd, lock, sweeps>>

\* Mutant: the child unlocks the description it shares with its parent.
UnlockInChild(i) ==
  /\ i \in shared
  /\ shared' = shared \ {i}
  /\ lock' = [lock EXCEPT ![i] = Free]
  /\ UNCHANGED <<path, pc, fd, sweeps>>

\* ... until the child closes it, in _close_after_fork, by exec, or by dying.
\* It closes without LOCK_UN: the description lives on in the parent.
CloseInChild(i) ==
  /\ i \in shared
  /\ shared' = shared \ {i}
  /\ lock' = IF lock[i] = Orphan THEN [lock EXCEPT ![i] = Free] ELSE lock
  /\ UNCHANGED <<path, pc, fd, sweeps>>

-----------------------------------------------------------------------------
OpenerStep(o) ==
  \/ OpenExisting(o)
  \/ OpenCreating(o)
  \/ Flock(o)
  \/ FlockBusy(o)
  \/ CheckCurrent(o, "held")
  \/ CheckStale(o)

SweeperStep(s) ==
  \/ OpenExisting(s)
  \/ SweepFindsNothing(s)
  \/ Flock(s)
  \/ FlockBusy(s)
  \/ CheckCurrent(s, "unlink")
  \/ CheckStale(s)
  \/ Unlink(s)
  \/ CloseSwept(s)

Next ==
  \/ \E o \in Openers : StartAcquire(o) \/ OpenerStep(o) \/ CloseLease(o)
  \/ \E s \in Sweepers : StartSweep(s) \/ SweeperStep(s)
  \/ \E a \in Actors : Crash(a) \/ Fork(a)
  \/ \E i \in Inodes : CloseInChild(i)

Spec == Init /\ [][Next]_vars

\* _lock_file and the sweep are synchronous code without a blocking call, so
\* each started run keeps taking its steps.  Nobody has to close a lease, start
\* an acquisition or crash.
FairSpec ==
  /\ Spec
  /\ \A o \in Openers : WF_vars(OpenerStep(o))
  /\ \A s \in Sweepers : WF_vars(SweeperStep(s))

-----------------------------------------------------------------------------
(* Properties.                                                             *)

\* The family has at most one writable owner: two acquisitions that both
\* returned are the same one, however sweeps, crashes, forks and reused inode
\* numbers are interleaved (ownership.py, SessionLease.acquire).
MutualExclusion ==
  \A o, p \in Openers : pc[o] = "held" /\ pc[p] = "held" => o = p

\* A live lease keeps the authority it was granted: the path still names the
\* locked inode, so assert_owned cannot report that the lock file "was
\* replaced while held", and a later opener meets the owner's flock.
LeaseStaysAnchored ==
  \A o \in Openers : pc[o] = "held" => path = fd[o] /\ lock[fd[o]] = o

\* A sweep unlinks a lock file that no opener owns (reclaim_unused: "a live
\* owner may not have saved yet").
SweepSparesOwners ==
  [][\A o \in Openers : pc[o] = "held" => path' = path]_vars

\* An opener that started comes to an end, owning the family or not: a sweep
\* can send it around the loop again only as often as there are sweeps.
OpenSettles ==
  \A o \in Openers : pc[o] = "open" ~> pc[o] \in {"idle", "held"}

\* The inductive invariant: who holds a flock and where it stands agree, and
\* an actor past its check still has the inode the path names.
LockAgrees ==
  /\ \A i \in Inodes : lock[i] \in Actors => pc[lock[i]] \in Locking /\ fd[lock[i]] = i
  /\ \A a \in Actors : pc[a] \in Locking => fd[a] \in Inodes /\ lock[fd[a]] = a

DescriptorAgrees ==
  \A a \in Actors : pc[a] \in {"idle", "open"} <=> fd[a] = NoInode

ValidatedIsCurrent ==
  \A a \in Actors : pc[a] \in {"held", "unlink"} => path = fd[a]

OrphanIsShared == \A i \in Inodes : lock[i] = Orphan => i \in shared

LeaseInv ==
  TypeOK /\ LockAgrees /\ DescriptorAgrees /\ ValidatedIsCurrent /\ OrphanIsShared

\* The owner the abstract lease speaks of.
owner ==
  IF \E o \in Openers : pc[o] = "held" THEN CHOOSE o \in Openers : pc[o] = "held" ELSE Free

Abstract == INSTANCE ExclusiveLease WITH Nobody <- Free

\* The flock protocol implements the lease its callers rely on.
ImplementsLease == Abstract!Spec
=============================================================================
