\* Two attempts, three requests at a time; time and the purge go on.
CONSTANTS
  Attempts = {s1, s2}
  Requests = {r1, r2, r3}
  Lifetime = 1
  None = None
SPECIFICATION SsoFairSpec
INVARIANTS UsedOnce InTime
PROPERTIES AttemptKept Dropped
