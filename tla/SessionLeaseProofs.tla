------------------------- MODULE SessionLeaseProofs -------------------------
(***************************************************************************)
(* The flock protocol is correct for any number of openers, sweepers,      *)
(* inodes, crashes and forks.  LeaseInv is inductive: it says where every  *)
(* flock stands and that an actor past its inode check still stands on the *)
(* inode the path names; the safety properties follow from it.             *)
(***************************************************************************)
EXTENDS SessionLease, TLAPS

LEMMA InitInv == Init => LeaseInv
BY DistinctNames DEF Init, LeaseInv, TypeOK, LockAgrees, DescriptorAgrees,
   ValidatedIsCurrent, OrphanIsShared, Locations, Locking

\* Each action preserves LeaseInv.
LEMMA StepInv == LeaseInv /\ [Next]_vars => LeaseInv'
<1> SUFFICES ASSUME LeaseInv, [Next]_vars PROVE LeaseInv'
  OBVIOUS
<1> USE DistinctNames DEF LeaseInv, TypeOK, LockAgrees, DescriptorAgrees, ValidatedIsCurrent,
      OrphanIsShared, Locations, Locking, Actors, Goto
<1>1. ASSUME NEW o \in Openers, StartAcquire(o) PROVE LeaseInv'
  BY <1>1 DEF StartAcquire
<1>2. ASSUME NEW s \in Sweepers, StartSweep(s) PROVE LeaseInv'
  BY <1>2, SweepBound DEF StartSweep
<1>3. ASSUME NEW a \in Actors, OpenExisting(a) PROVE LeaseInv'
  BY <1>3 DEF OpenExisting
<1>4. ASSUME NEW o \in Openers, OpenCreating(o) PROVE LeaseInv'
  BY <1>4 DEF OpenCreating
<1>5. ASSUME NEW s \in Sweepers, SweepFindsNothing(s) PROVE LeaseInv'
  BY <1>5 DEF SweepFindsNothing
<1>6. ASSUME NEW a \in Actors, Flock(a) PROVE LeaseInv'
  BY <1>6 DEF Flock
<1>7. ASSUME NEW a \in Actors, FlockBusy(a) PROVE LeaseInv'
  BY <1>7 DEF FlockBusy
<1>8. ASSUME NEW a \in Actors, NEW l \in {"held", "unlink"}, CheckCurrent(a, l) PROVE LeaseInv'
  BY <1>8 DEF CheckCurrent
<1>9. ASSUME NEW a \in Actors, CheckStale(a) PROVE LeaseInv'
  BY <1>9 DEF CheckStale, CloseAnd, ClosedLock
<1>10. ASSUME NEW o \in Openers, CloseLease(o) PROVE LeaseInv'
  BY <1>10 DEF CloseLease, CloseAnd, ClosedLock
<1>11. ASSUME NEW s \in Sweepers, Unlink(s) PROVE LeaseInv'
  BY <1>11 DEF Unlink
<1>12. ASSUME NEW s \in Sweepers, CloseSwept(s) PROVE LeaseInv'
  BY <1>12 DEF CloseSwept, CloseAnd, ClosedLock
<1>13. ASSUME NEW a \in Actors, Crash(a) PROVE LeaseInv'
  BY <1>13 DEF Crash, ClosedLock
<1>14. ASSUME NEW a \in Actors, Fork(a) PROVE LeaseInv'
  BY <1>14 DEF Fork
<1>15. ASSUME NEW i \in Inodes, CloseInChild(i) PROVE LeaseInv'
  BY <1>15 DEF CloseInChild
<1>16. CASE UNCHANGED vars
  BY <1>16 DEF vars
<1>17. QED
  BY <1>1, <1>2, <1>3, <1>4, <1>5, <1>6, <1>7, <1>8, <1>9, <1>10, <1>11, <1>12, <1>13,
     <1>14, <1>15, <1>16 DEF Next, OpenerStep, SweeperStep

\* The inductive invariant holds of every run of the protocol.
THEOREM LeaseInvariant == Spec => []LeaseInv
BY InitInv, StepInv, PTL DEF Spec

LEMMA InvExcludes == LeaseInv => MutualExclusion /\ LeaseStaysAnchored
BY DistinctNames DEF LeaseInv, TypeOK, LockAgrees, ValidatedIsCurrent, MutualExclusion,
   LeaseStaysAnchored, Locking, Actors

\* Two acquisitions of one family never both hold it (SessionLease.acquire).
THEOREM OneOwner == Spec => []MutualExclusion
BY LeaseInvariant, InvExcludes, PTL

\* A live lease keeps its flock and the inode its path names (assert_owned).
THEOREM LeaseIsNeverReplaced == Spec => []LeaseStaysAnchored
BY LeaseInvariant, InvExcludes, PTL

-----------------------------------------------------------------------------
LEMMA StepSparesOwners ==
  LeaseInv /\ [Next]_vars => \A o \in Openers : pc[o] = "held" => path' = path
<1> SUFFICES ASSUME LeaseInv, [Next]_vars, NEW o \in Openers, pc[o] = "held"
             PROVE  path' = path
  OBVIOUS
<1>1. path = fd[o] /\ lock[fd[o]] = o /\ fd[o] \in Inodes
  BY DEF LeaseInv, LockAgrees, ValidatedIsCurrent, Locking, Actors
<1>2. ASSUME NEW s \in Sweepers, Unlink(s) PROVE FALSE
  BY <1>1, <1>2, DistinctNames DEF Unlink, LeaseInv, LockAgrees, ValidatedIsCurrent, Locking, Actors
<1>3. ASSUME NEW p \in Openers, OpenCreating(p) PROVE FALSE
  BY <1>1, <1>3, DistinctNames DEF OpenCreating
<1>4. QED
  BY <1>2, <1>3 DEF Next, OpenerStep, SweeperStep, StartAcquire, StartSweep, OpenExisting,
     SweepFindsNothing, Flock, FlockBusy, CheckCurrent, CheckStale, CloseLease, CloseSwept,
     Crash, Fork, CloseInChild, vars

\* No step of a sweep, or of anybody else, moves the path under a live owner.
THEOREM SweepsSpareOwners == Spec => SweepSparesOwners
BY LeaseInvariant, StepSparesOwners, PTL DEF Spec, SweepSparesOwners

-----------------------------------------------------------------------------
(* Refinement: only the validated return of an acquisition and the end of  *)
(* a held lease change the abstract owner.                                 *)

LEMMA OwnerIsHeld ==
  ASSUME MutualExclusion
  PROVE  /\ \A o \in Openers : pc[o] = "held" => owner = o
         /\ (\A o \in Openers : pc[o] # "held") => owner = Free
BY DEF MutualExclusion, owner

LEMMA OwnerIsHeldAfter ==
  ASSUME MutualExclusion'
  PROVE  /\ \A o \in Openers : pc'[o] = "held" => owner' = o
         /\ (\A o \in Openers : pc'[o] # "held") => owner' = Free
BY DEF MutualExclusion, owner

LEMMA SameHoldersSameOwner ==
  ASSUME \A o \in Openers : pc[o] = "held" <=> pc'[o] = "held"
  PROVE  owner' = owner
BY DEF owner

LEMMA StepRefines ==
  LeaseInv /\ LeaseInv' /\ [Next]_vars => [Abstract!Next]_owner
<1> SUFFICES ASSUME LeaseInv, LeaseInv', [Next]_vars PROVE [Abstract!Next]_owner
  OBVIOUS
<1>1. MutualExclusion /\ MutualExclusion'
  BY InvExcludes, PTL
<1>2. ASSUME NEW o \in Openers, pc[o] # "held", pc'[o] = "held",
             pc' = [pc EXCEPT ![o] = "held"]
      PROVE  Abstract!Acquire(o)
  \* o enters: nobody was in, for LeaseInv' would make two owners of them.
  <2>1. \A p \in Openers : pc[p] # "held"
    BY <1>1, <1>2 DEF MutualExclusion, LeaseInv, TypeOK, Actors
  <2>2. owner = Free /\ owner' = o
    BY <1>1, <1>2, <2>1, OwnerIsHeld, OwnerIsHeldAfter
  <2>3. QED
    BY <2>2 DEF Abstract!Acquire
<1>3. ASSUME NEW o \in Openers, pc[o] = "held", pc' = [pc EXCEPT ![o] = "idle"]
      PROVE  Abstract!Release(o)
  <2>1. \A p \in Openers : pc'[p] # "held"
    BY <1>1, <1>3 DEF MutualExclusion, LeaseInv, TypeOK, Actors
  <2>2. owner = o /\ owner' = Free
    BY <1>1, <1>3, <2>1, OwnerIsHeld, OwnerIsHeldAfter
  <2>3. QED
    BY <2>2 DEF Abstract!Release
<1>4. ASSUME \A o \in Openers : pc[o] = "held" <=> pc'[o] = "held"
      PROVE  UNCHANGED owner
  BY <1>4, SameHoldersSameOwner
<1>5. ASSUME NEW o \in Openers, CheckCurrent(o, "held") PROVE Abstract!Next
  BY <1>2, <1>5 DEF CheckCurrent, Goto, Abstract!Next, LeaseInv, TypeOK, Actors
<1>6. ASSUME NEW o \in Openers, pc[o] = "held", CloseLease(o) \/ Crash(o) PROVE Abstract!Next
  BY <1>3, <1>6 DEF CloseLease, CloseAnd, Crash, Goto, Abstract!Next
<1>7. ASSUME NEW a \in Actors, NEW l \in Locations \ {"held"}, Goto(a, l),
             a \in Openers => pc[a] # "held"
      PROVE  UNCHANGED owner
  BY <1>4, <1>7, DistinctNames DEF Goto, LeaseInv, TypeOK, Actors, Locations
<1>8. ASSUME NEW o \in Openers, StartAcquire(o) \/ OpenExisting(o) \/ OpenCreating(o)
             \/ Flock(o) \/ FlockBusy(o) \/ CheckStale(o) \/ (pc[o] # "held" /\ Crash(o))
      PROVE  UNCHANGED owner
  BY <1>7, <1>8 DEF StartAcquire, OpenExisting, OpenCreating, Flock, FlockBusy, CheckStale,
     CloseAnd, Crash, Locations, Actors
<1>9. ASSUME NEW s \in Sweepers, StartSweep(s) \/ SweeperStep(s) \/ Crash(s)
      PROVE  UNCHANGED owner
  BY <1>7, <1>9, DistinctNames DEF StartSweep, SweeperStep, OpenExisting, SweepFindsNothing, Flock,
     FlockBusy, CheckCurrent, CheckStale, CloseAnd, Unlink, CloseSwept, Crash, Locations, Actors
<1>10. CASE UNCHANGED pc
  BY <1>4, <1>10
<1>11. QED
  BY <1>5, <1>6, <1>8, <1>9, <1>10 DEF Next, OpenerStep, Fork, CloseInChild, CloseLease, vars, Actors

\* The flock protocol implements the lease SessionFamily is built on.
THEOREM LeaseImplemented == Spec => ImplementsLease
<1>1. Init => Abstract!Init
  BY DistinctNames DEF Init, Abstract!Init, owner, Actors
<1>2. QED
  BY <1>1, LeaseInvariant, StepRefines, PTL DEF Spec, ImplementsLease, Abstract!Spec
=============================================================================
