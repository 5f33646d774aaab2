\* Two balancers, the API beside nginx, a Netlify function and a worker.
CONSTANTS
  b1 = b1  b2 = b2  b3 = b3  api = api  netlify = netlify  worker = worker
  None = None
  Torn = Torn
  Apis = {api, netlify}
  Api = api
  Workers = {worker}
  Balancers = {b1, b2}
  NumNames = 2
  Ports = {19400}
  Protocols = {"HTTPS", "TCP"}
  Patches <- Bodies
  MaxChanges = 3
  MaxDeaths = 1
SPECIFICATION Spec
SYMMETRY Alike
CHECK_DEADLOCK FALSE
INVARIANTS
  TypeOK
  SoloSyncExact
  CertsFit
  NginxRunsTheFiles
