\* The one API process beside nginx, no worker, TCP balancers.
CONSTANTS
  b1 = b1  b2 = b2  b3 = b3  api = api  netlify = netlify  worker = worker
  None = None
  Torn = Torn
  Apis = {api}
  Api = api
  Workers = {}
  Balancers = {b1, b2}
  NumNames = 1
  Ports = {19400}
  Protocols = {"TCP"}
  Patches <- Bodies
  MaxChanges = 4
  MaxDeaths = 0
SPECIFICATION Spec
SYMMETRY Alike
CHECK_DEADLOCK FALSE
INVARIANTS
  PortsUnique
