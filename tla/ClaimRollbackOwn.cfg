SPECIFICATION Spec
CONSTANTS
  Process = {p1, p2}
  N = 1
  Source = {s1}
  Alien = {x}
  Map = {m1}
  Mode = {new}
  NewMode = new
  Absent = absent
  MaxCall = 2
  MaxFault = 1
  MaxEdit = 0
INVARIANT RollbackOwn
CHECK_DEADLOCK FALSE
