SPECIFICATION Spec
CONSTANTS
  Project = {p1, p2}
  Terminal = {a, b, c, d}
  None = None
SYMMETRY Symmetry
INVARIANTS
  DropJoinsGroup
