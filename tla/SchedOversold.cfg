\* Two requests at a time for the last seat.
CONSTANTS
  Users = {manager, ann, bob}
  Managers = {manager}
  Trainings = {t1}
  Sessions = {s1}
  Requests = {r1, r2}
  Capacities = {1}
  None = None
SPECIFICATION FairSpec
PROPERTIES AdmitsWithinCapacity
\* Once every account is erased nobody can send a request.
CHECK_DEADLOCK FALSE
