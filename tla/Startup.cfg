\* An account, two sessions, two requests at a time; two secrets.
CONSTANTS
  Users = {ann}
  Tokens = {t1, t2}
  Requests = {r1, r2}
  Ttl = 2
  Secrets = {"first", "second"}
  None = None
  MaxAttempts = 2
  Environments <- SomeEnvironments
SPECIFICATION StartupFairSpec
INVARIANTS StartupTypeOK LateBound NoOrphan ServesReady
PROPERTIES SessionKept Decided ComesUp PurgedInTheEnd
