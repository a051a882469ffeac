\* Two admins erase each other.
CONSTANTS
  ada = ada
  alan = alan
  google = google
  corp = corp
  Ids = {a1, a2}
  Emails = {ada, alan, root}
  Identities = {google, corp}
  Claims <- OneClaim
  Creatable = {ada}
  SeedEmail = root
  DefaultAdmin = FALSE
  Requests = {r1, r2}
  Erasers = {r1, r2}
  None = None
SPECIFICATION AccountsSpec
SYMMETRY AccountsSymmetry
INVARIANT AdminRemains
\* All ids may have been given to accounts when the server starts again.
CHECK_DEADLOCK FALSE
