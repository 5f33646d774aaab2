SPECIFICATION Spec
CONSTANTS
  Projects = {p1, p2}
  First = p1
  Ids = {i1}
  Watched = {"deployments", "secrets"}
  Held = {"secrets"}
  Visited = {"run-services", "sec-secret-manager"}
  MaxSteps = 3
  None = None
CHECK_DEADLOCK FALSE
INVARIANTS
  TypeOK
  OneHandlerAtATime
  TabFollowsUrl
  ListsCatchUp
PROPERTIES
  RevealedGoes
  PollsUntilSettled
