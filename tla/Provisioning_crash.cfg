\* One deployment; the worker may die once and is started again.
CONSTANTS
  d1 = d1  d2 = d2  n1 = n1  n2 = n2  w1 = w1  w2 = w2  h1 = h1  h2 = h2
  None = None
  Deployments = {d1}
  Names = {n1}
  Workers = {w1}
  Handlers = {h1}
  MaxAttempts = 2
  Scalers <- KedaCpu
  Kubeconfigs <- Connected
  MaxFaults = 0
  MaxCrashes = 1
  MaxResets = 0
SPECIFICATION FairSpec
CHECK_DEADLOCK FALSE
PROPERTIES
  ReachesTerminal
