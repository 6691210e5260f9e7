CONSTANTS
  Requests = {r1, r2}
  Scopes = {s1}
  Addresses = {a1}
  Limit = 2
  Window = 2
  Lock = 3
  Life = 2
  MaxClock = 4
  MaxCredential = 2
SPECIFICATION Spec
INVARIANTS
  TypeOK
  SessionsFollowTheCredential
  FailuresLock
  OvershootIsBounded
PROPERTIES
  LockLasts
  EveryLoginIsAnswered
CHECK_DEADLOCK FALSE
