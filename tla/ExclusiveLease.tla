--------------------------- MODULE ExclusiveLease ---------------------------
(***************************************************************************)
(* What wizolt/session/ownership.py promises its callers: one writable     *)
(* owner per session family at a time.  Nothing is said here of lock       *)
(* files, descriptors or the retention sweep; SessionLease shows that the  *)
(* flock protocol implements this, and SessionFamily is built on it.       *)
(***************************************************************************)
CONSTANTS Openers,   \* Session objects and retention passes that open the family
          Nobody     \* the owner of a family that nobody holds

VARIABLE owner

TypeOK == owner \in Openers \cup {Nobody}

Init == owner = Nobody

\* SessionLease.acquire returns: the family had no owner.
Acquire(o) == owner = Nobody /\ owner' = o

\* SessionLease.close, or the death of the owning process.
Release(o) == owner = o /\ owner' = Nobody

Next == \E o \in Openers : Acquire(o) \/ Release(o)

Spec == Init /\ [][Next]_owner
=============================================================================
