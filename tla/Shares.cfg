CONSTANTS
  Requests = {r1, r2}
  Commands = {k1}
  Ids = {i1, i2}
  Hosts = {h1}
  Containers = {c1, c2}
  Tokens = {t1}
  Ttls <- MCTtls
  MaxClock = 1
  MaxPassword = 2
SPECIFICATION Spec
INVARIANTS TypeOK CredentialBeforeRouter OneSharePerContainer TokensAsTold NewestPasswordWins LoginRoutersFollowStore WithdrawnStaysWithdrawn
PROPERTIES PasswordChangeBumpsEpoch ImplementsDirectory
CONSTRAINT UntilStale
SYMMETRY MCSymmetry
CHECK_DEADLOCK FALSE
