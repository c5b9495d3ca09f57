SPECIFICATION Spec
CONSTANTS
  Terminals = {t1, t2}
  Sessions = TRUE
  Unwritable = {t1}
  Codes = {"fail"}
  Projects = {p1, p2}
  Worktrees = {p2}
  MaxCloses = 2
SYMMETRY Symmetry
CHECK_DEADLOCK FALSE
PROPERTIES
  GraceIsFull
