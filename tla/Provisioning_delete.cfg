\* One deployment, nothing fails or dies; a delete may overlap the provisioning.
CONSTANTS
  d1 = d1  d2 = d2  n1 = n1  n2 = n2  w1 = w1  w2 = w2  h1 = h1  h2 = h2
  None = None
  Deployments = {d1}
  Names = {n1}
  Workers = {w1}
  Handlers = {h1}
  MaxAttempts = 2
  Scalers <- KedaCpu
  Kubeconfigs <- Connected
  MaxFaults = 0
  MaxCrashes = 0
  MaxResets = 0
SPECIFICATION Spec
CHECK_DEADLOCK FALSE
INVARIANTS
  DeletedHasNoScaler
