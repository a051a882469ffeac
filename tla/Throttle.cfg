\* Two accounts, two attempts at a time; time goes on.
CONSTANTS
  Emails = {e1, e2}
  Requests = {r1, r2}
  MaxFailures = 2
  Window = 3
  None = None
SPECIFICATION ThrottleFairSpec
INVARIANTS WindowBound RecentBound JustThrottled
PROPERTIES Isolated Released
