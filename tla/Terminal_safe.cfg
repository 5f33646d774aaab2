SPECIFICATION Spec
CONSTANTS
  n1 = n1
  Projects = {p1, p2}
  Default = p1
  Names = {n1}
  Ids = {i1, i2}
  Inputs <- Lines
  MaxHistory = 2
  MaxSubmits = 3
  MaxOthers = 1
  None = None
CHECK_DEADLOCK FALSE
SYMMETRY Alike
INVARIANTS
  TypeOK
  OneCommandAtATime
  LinesOfThisProject
  RefreshedAfterChange
