SPECIFICATION Spec
CONSTANTS
  Name = {n1, n2}
  Poll = {t1, t2}
  PortSets = {a}
  None = None
  Polls = 3
  MaxListings = 2
SYMMETRY Symmetry
INVARIANTS
  TypeOK
  NoPortsWithoutProcess
  DetectionGoesOn
PROPERTIES
  PollIsCurrent
  ServiceIsNotLost
