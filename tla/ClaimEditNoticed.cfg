\* One job, whose inputs are changed and put back while its child runs.
SPECIFICATION FairSpec
CONSTANTS
  N = 1
  W = 1
  Producing = {1}
  Stubborn = {}
  MaxEdit = 1
PROPERTY EditsNoticed
CHECK_DEADLOCK FALSE
