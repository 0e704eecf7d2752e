\* A crash while a new target is rolled back.
SPECIFICATION MCFairSpec
CONSTANTS
  N = 1
  Content = {"old", "new"}
  Wanted = {"new"}
  StartData = {NoFile}
  Ino = {1, 2, 3, 4}
  NoFile = NoFile
  NoIno = NoIno
  Torn = Torn
  MaxCommit = 1
  MaxCrash = 1
  MaxExternal = 0
  MaxInvalid = 1
PROPERTIES TombstoneCleaned
