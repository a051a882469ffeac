\* Two first logins with one email and two identities.
CONSTANTS
  ada = ada
  alan = alan
  google = google
  corp = corp
  Ids = {a1, a2}
  Emails = {ada, alan, root}
  Identities = {google, corp}
  Claims <- SharedEmail
  Creatable = {}
  SeedEmail = None
  DefaultAdmin = FALSE
  Requests = {r1, r2}
  Erasers = {}
  None = None
SPECIFICATION AccountsFairSpec
PROPERTIES WinnerIsFound
\* All ids may have been given to accounts when the server starts again.
CHECK_DEADLOCK FALSE
