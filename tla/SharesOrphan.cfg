CONSTANTS
  Requests = {r1}
  Commands = {}
  Ids = {i1, i2}
  Hosts = {}
  Containers = {c1, c2}
  Tokens = {}
  Ttls <- MCTtls
  MaxClock = 1
  MaxPassword = 1
SPECIFICATION Spec
INVARIANT WithdrawnLeavesNoCredential
CHECK_DEADLOCK FALSE
