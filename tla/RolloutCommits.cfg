\* Two transactions in a row over one target, with crashes, a foreign write and
\* a failing validation: the second recovers what the first left.
SPECIFICATION MCSpec
CONSTANTS
  N = 1
  Content = {"old", "new"}
  Wanted = {"old", "new"}
  StartData = {"old", NoFile}
  Ino = {i1, i2, i3}
  NoFile = NoFile
  NoIno = NoIno
  Torn = Torn
  MaxCommit = 2
  MaxCrash = 2
  MaxExternal = 1
  MaxInvalid = 1
SYMMETRY Symmetry
INVARIANTS LInv
