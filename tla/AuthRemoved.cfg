CONSTANTS
  Requests = {r1}
  Scopes = {s1, s2}
  Addresses = {a1}
  Limit = 2
  Window = 2
  Lock = 3
  Life = 2
  MaxClock = 2
  MaxCredential = 2
SPECIFICATION Spec
INVARIANT ChangeOrRemovalEndsSessions
CHECK_DEADLOCK FALSE
