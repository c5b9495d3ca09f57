SPECIFICATION Spec
CONSTANTS
  Project = {p1, p2, p3}
  Folder = {f1}
  Main = Main
  Extra = {w1}
  None = None
  MaxStale = 1
  MaxCloses = 1
  MaxGone = 1
SYMMETRY Symmetry
INVARIANTS
  TypeOK
  ListsAgree
PROPERTIES
  WindowsAreScrubbed
  NothingVanishes
  NewIsPlaced
  LoadRepairs
  WatcherSparesBusy
