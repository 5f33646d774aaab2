SPECIFICATION Spec
CONSTANTS
  p1 = p1
  p2 = p2
  n1 = n1
  n2 = n2
  Processes = {p1, p2}
  Names = {n1, n2}
  Servers = {"python", "other", "node"}
  KeyServers = {"python", "other"}
  MaxCommands = 4
  MaxTroubles = 1
  None = None
SYMMETRY Symmetry
CHECK_DEADLOCK FALSE
INVARIANTS
  TypeOK
  LastLoginStands
  CommandsGoHome
