\* SEED_ADMIN_EMAIL is configured with a capital letter.
CONSTANTS
  root = root
  Mailboxes = {root}
  Ids = {a1, a2}
  Emails <- NormalEmails
  Identities = {}
  Claims = {}
  Creatable <- NormalEmails
  SeedEmail <- Capitalised
  DefaultAdmin = FALSE
  Requests = {r1}
  Erasers = {}
  None = None
SPECIFICATION AccountsSpec
INVARIANT SeedSignsIn
CHECK_DEADLOCK FALSE
