\* One user, two sessions, two calls at a time.
CONSTANTS
  Sessions = {s1, s2}
  Calls = {c1, c2}
  None = None
SPECIFICATION ListFairSpec
INVARIANTS ListTypeOK OwnSeatsShown
PROPERTIES Unstuck
