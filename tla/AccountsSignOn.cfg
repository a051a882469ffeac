\* Two requests at a time: sign-ons, creations, and one erasure.
CONSTANTS
  ada = ada
  alan = alan
  google = google
  corp = corp
  Ids = {a1, a2, a3}
  Emails = {ada, alan, root}
  Identities = {google, corp}
  Claims <- CrossedClaims
  Creatable = {ada, alan}
  SeedEmail = root
  DefaultAdmin = FALSE
  Requests = {r1, r2}
  Erasers = {r1}
  None = None
SPECIFICATION AccountsSpec
SYMMETRY AccountsSymmetry
INVARIANTS AccountsTypeOK OneAccount AdminRemains
PROPERTIES SignedOnAsLinked
\* All ids may have been given to accounts when the server starts again.
CHECK_DEADLOCK FALSE
