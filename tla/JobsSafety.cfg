\* Three jobs on two threads; one of them cannot always be killed.
SPECIFICATION FairSpec
CONSTANTS
  N = 3
  W = 2
  Producing = {1}
  Stubborn = {2}
  MaxEdit = 1
INVARIANTS Accounted Bounded NoOrphan BlameIsCause PassIsWhole Attested JobsInv
PROPERTIES Finishes
CHECK_DEADLOCK FALSE
