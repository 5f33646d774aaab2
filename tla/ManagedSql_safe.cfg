\* Two API processes, as on Netlify, three documents, two names of one ident and another.
CONSTANTS
  i1 = i1  i2 = i2  i3 = i3  n1 = n1  n2 = n2  n3 = n3  p1 = p1  p2 = p2
  None = None
  Instances = {i1, i2, i3}
  Names = {n1, n2, n3}
  Ident <- SafeIdent
  Engines = {"postgres", "mysql"}
  Modes = {TRUE, FALSE}
  Sizes = {1, 2}
  MaxSize = 2
  Apis = {p1, p2}
  NumPorts = 2
  MaxInstances = 2
  MaxStorage = 2
  MaxRequests = 3
  MaxFaults = 1
  MaxDeaths = 1
SPECIFICATION Spec
SYMMETRY Symmetry
CHECK_DEADLOCK FALSE
INVARIANTS
  TypeOK
  CompleteOwns
  PortsDiffer
  OvershootBounded
  NoStuckPlaceholder
