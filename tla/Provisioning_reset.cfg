\* Two workers, each with or without a cluster, and one deployment; an operator
\* resets the jobs twice, whoever is alive.
CONSTANTS
  d1 = d1  d2 = d2  n1 = n1  n2 = n2  w1 = w1  w2 = w2  h1 = h1  h2 = h2
  None = None
  Deployments = {d1}
  Names = {n1}
  Workers = {w1, w2}
  Handlers = {h1}
  MaxAttempts = 2
  Scalers <- KedaCpu
  Kubeconfigs = {TRUE, FALSE}
  MaxFaults = 2
  MaxCrashes = 0
  MaxResets = 2
SPECIFICATION FairSpec
CHECK_DEADLOCK FALSE
INVARIANTS
  MeteredOnce
  TriesBounded
  SuccessIsVisible
PROPERTIES
  EveryJobSettles
  DeploymentSettles
