SPECIFICATION FairSpec
CONSTANTS
  Terminals = {t1, t2}
  Sessions = TRUE
  Unwritable = {}
  Codes = {"ok"}
  Projects = {p1, p2}
  Worktrees = {p2}
  MaxCloses = 2
CHECK_DEADLOCK FALSE
INVARIANTS
  TypeOK
  OnePlace
  CanBeUndone
  NoLeak
PROPERTIES
  UndoIsLocal
  IsDecision
  SoftCloseIsDecided
  DoomedIsReaped
