SPECIFICATION Spec
CONSTANTS
  Process = {p1}
  Value = {v1}
  p1 = p1
  v1 = v1
  Nothing = Nothing
  MaxCall = 5
  MaxEdit = 0
  MaxCrash = 1
  MaxRecord = 1
  Last = 3
  Jobs <- ClaimJobs
INVARIANTS ResumeReuses
CHECK_DEADLOCK FALSE
