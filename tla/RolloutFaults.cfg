\* Two crashes, a foreign write and a failing validation at any point of one
\* transaction over two targets.
SPECIFICATION MCSpec
CONSTANTS
  N = 2
  Content = {"old", "new", "ext"}
  Wanted = {"new"}
  StartData = {"old", "new", NoFile}
  Ino = {i1, i2, i3, i4}
  NoFile = NoFile
  NoIno = NoIno
  Torn = Torn
  MaxCommit = 1
  MaxCrash = 2
  MaxExternal = 1
  MaxInvalid = 1
SYMMETRY Symmetry
INVARIANTS Durability PartialHasJournal VacantHasGuard MarkerSealed NoOrphanArtifact JournalOwned CleanFailure
PROPERTIES NoClobber ImplementsAllOrNothing
