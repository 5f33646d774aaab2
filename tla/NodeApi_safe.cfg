SPECIFICATION Spec
CONSTANTS
  r1 = r1
  r2 = r2
  a0 = a0
  a1 = a1
  a2 = a2
  Requests = {r1, r2}
  Servers = {s1}
  Functions = {f1}
  Accounts = {a0, a1, a2}
  Email <- Addresses
  Registered = {a0}
  Keys = {k1, k2, k3}
  Deployments = {d1, d2, d3}
  Names = {n1}
  Operations = {"register", "login", "list", "createKey", "deleteKey", "deploy", "metric"}
  MaxRequests = 3
  MaxFaults = 1
  None = None
CHECK_DEADLOCK FALSE
INVARIANTS
  TypeOK
  HandlersSeeWholeDatabase
  OneUserPerAddress
  ConfirmedAccountsStay
  RunningOwnsObjects
  DeployingIsInHand
  RevokedKeyRefused
PROPERTY
  EveryRequestEnds
