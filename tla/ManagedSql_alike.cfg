\* One API process, nothing fails: names that _safe_ident makes one.
CONSTANTS
  i1 = i1  i2 = i2  i3 = i3  n1 = n1  n2 = n2  n3 = n3  p1 = p1  p2 = p2
  None = None
  Instances = {i1, i2}
  Names = {n1, n2, n3}
  Ident <- SafeIdent
  Engines = {"postgres"}
  Modes = {FALSE}
  Sizes = {1}
  MaxSize = 2
  Apis = {p1}
  NumPorts = 1
  MaxInstances = 2
  MaxStorage = 3
  MaxRequests = 3
  MaxFaults = 0
  MaxDeaths = 0
SPECIFICATION Spec
CHECK_DEADLOCK FALSE
INVARIANTS
  CompleteHasDatabase
