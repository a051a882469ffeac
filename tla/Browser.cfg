\* Two accounts, two tabs, two sessions, two calls at a time; safety only,
\* so that symmetry is sound.
CONSTANTS
  Users = {ann, bob}
  Tokens = {t1, t2}
  Requests = {r1, r2}
  Tabs = {b1, b2}
  Ttl = 1
  Secrets = {"first"}
  None = None
SPECIFICATION BrowserSpec
INVARIANTS BrowserTypeOK SameIdentity LogoutKills
PROPERTIES StaysOut
SYMMETRY BrowserSymmetry
