\* Two openers race each other and two sweeps for one lock path.
CONSTANTS
  Openers = {o1, o2}
  Sweepers = {s1, s2}
  Inodes = {i1, i2, i3}
  NoInode = NoInode
  Free = Free
  Orphan = Orphan
  MaxSweeps = 2
SPECIFICATION FairSpec
PROPERTY OpenSettles
PROPERTY SweepSparesOwners
PROPERTY ImplementsLease
CHECK_DEADLOCK TRUE
