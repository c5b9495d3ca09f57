SPECIFICATION FairSpec
CONSTANTS
  Threads = {s1, s2}
  Main = Main
  MaxEdits = 3
  MaxTimers = 1
INVARIANTS
  TypeOK
  RenamesItsOwn
PROPERTIES
  BackupStaysWhole
  IsStore
  ChangeIsTried
  QuitEnds
