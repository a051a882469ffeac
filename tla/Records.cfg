\* Records of two users, completed, assigned, deleted and reported.
CONSTANTS
  Users = {ann, bob}
  Trainings = {t1}
  Certifications = {c1}
  Requests = {r1, r2}
  Warning = 1
  Scores = {fair, good}
  None = None
SPECIFICATION RecordsSpec
SYMMETRY RecordsSymmetry
INVARIANTS RecordsTypeOK RecordsIntegrity ReportComplete
PROPERTIES RecordsKept
