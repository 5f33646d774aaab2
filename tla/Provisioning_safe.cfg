\* Two workers, two deployments of one Kubernetes name, a request at a time.
CONSTANTS
  d1 = d1  d2 = d2  n1 = n1  n2 = n2  w1 = w1  w2 = w2  h1 = h1  h2 = h2
  None = None
  Deployments = {d1, d2}
  Names = {n1}
  Workers = {w1, w2}
  Handlers = {h1}
  MaxAttempts = 2
  Scalers <- KedaBoth
  Kubeconfigs <- Connected
  MaxFaults = 2
  MaxCrashes = 1
  MaxResets = 0
SPECIFICATION Spec
SYMMETRY Alike
CHECK_DEADLOCK FALSE
INVARIANTS
  TypeOK
  ExclusiveClaim
  RunningOwnsCluster
PROPERTIES
  QueueContract
