CONSTANTS
  Requests = {r1, r2}
  Commands = {}
  Ids = {i1, i2}
  Hosts = {}
  Containers = {c1, c2}
  Tokens = {t1}
  Ttls <- MCTtls
  MaxClock = 0
  MaxPassword = 3
SPECIFICATION Spec
INVARIANT RestingRouteHasCredential
CHECK_DEADLOCK FALSE
