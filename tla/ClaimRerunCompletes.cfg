\* A commit that leaves one target as it is, without any fault.
SPECIFICATION MCFairSpec
CONSTANTS
  N = 2
  Content = {"old", "new"}
  Wanted = {"new"}
  StartData = {"new", "old"}
  Ino = {1, 2, 3, 4}
  NoFile = NoFile
  NoIno = NoIno
  Torn = Torn
  MaxCommit = 1
  MaxCrash = 0
  MaxExternal = 0
  MaxInvalid = 0
PROPERTIES RerunCompletes
