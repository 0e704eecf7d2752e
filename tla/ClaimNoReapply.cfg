\* A foreign write between the marker check and the publication.
SPECIFICATION MCSpec
CONSTANTS
  N = 1
  Content = {"old", "new"}
  Wanted = {"new"}
  StartData = {"old"}
  Ino = {1, 2, 3, 4}
  NoFile = NoFile
  NoIno = NoIno
  Torn = Torn
  MaxCommit = 1
  MaxCrash = 1
  MaxExternal = 1
  MaxInvalid = 0
PROPERTIES NoReapply
