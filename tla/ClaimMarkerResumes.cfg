\* A crash during the removal of the evidence.
SPECIFICATION MCFairSpec
CONSTANTS
  N = 1
  Content = {"old", "new"}
  Wanted = {"new"}
  StartData = {"old", NoFile}
  Ino = {1, 2, 3, 4}
  NoFile = NoFile
  NoIno = NoIno
  Torn = Torn
  MaxCommit = 1
  MaxCrash = 1
  MaxExternal = 0
  MaxInvalid = 0
PROPERTIES MarkerResumes
