SPECIFICATION MCSpec
CONSTANTS
  Process = {p1, p2}
  N = 2
  Source = {s1, s2}
  Alien = {x}
  Map = {m1, m2}
  Mode = {new}
  NewMode = new
  Absent = absent
  MaxCall = 2
  MaxFault = 1
  MaxEdit = 1
INVARIANTS SyncInv Undone Truthful
SYMMETRY Symmetric
CHECK_DEADLOCK FALSE
