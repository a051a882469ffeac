\* Three users, two trainings, one session with one seat or no limit, two
\* requests; safety only, so that symmetry is sound.
CONSTANTS
  Users = {manager, ann, bob}
  Managers = {manager}
  Trainings = {t1, t2}
  Sessions = {s1}
  Requests = {r1, r2}
  Capacities = {0, 1}
  None = None
SPECIFICATION Spec
SYMMETRY SchedulingSymmetry
INVARIANTS TypeOK SeatBound Integrity
PROPERTIES ClosedToNewcomers SeatKept ImplementsSeatBook
\* Once every account is erased nobody can send a request.
CHECK_DEADLOCK FALSE
