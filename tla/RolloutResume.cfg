\* Repeated recovery after crashes, with the fairness of FairSpec.
SPECIFICATION MCFairSpec
CONSTANTS
  N = 2
  Content = {"old", "new"}
  Wanted = {"new"}
  StartData = {"old", NoFile}
  Ino = {1, 2, 3, 4}
  NoFile = NoFile
  NoIno = NoIno
  Torn = Torn
  MaxCommit = 1
  MaxCrash = 1
  MaxExternal = 0
  MaxInvalid = 0
PROPERTIES Resumes
