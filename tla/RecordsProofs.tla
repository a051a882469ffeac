--------------------------- MODULE RecordsProofs ---------------------------
(* Records outlive neither their person nor their thing, are changed by     *)
(* nobody else's requests, and a report misses nobody - for any users,      *)
(* trainings, certifications, requests, scores and warning period.          *)
EXTENDS Records, TLAPS

LEMMA IdleType == \A reply \in Replies : Idle(reply) \in Request
  BY DEF Idle, Request

LEMMA EnterType ==
  ASSUME RecordsTypeOK, NEW r \in Requests, NEW pc \in Statements,
         NEW u \in Users \cup {None}, NEW t \in Trainings \cup {None},
         NEW c \in Certifications \cup {None}, Enter(r, pc, u, t, c)
  PROVE  req' \in [Requests -> Request] /\ req'[r].pc = pc
<1>1. Idle("none") \in Request
  BY IdleType DEF Replies
<1> DEFINE entry == [Idle("none") EXCEPT
              !.pc = pc, !.user = u, !.training = t, !.certification = c]
<1>2. entry \in Request /\ entry.pc = pc
  BY <1>1 DEF Request
<1> QED BY <1>2 DEF Enter, RecordsTypeOK

LEMMA EnterPc ==
  ASSUME RecordsTypeOK, NEW r \in Requests, NEW pc, NEW u, NEW t, NEW c,
         Enter(r, pc, u, t, c)
  PROVE  req'[r].pc = pc
  BY DEF Enter, RecordsTypeOK, Idle

LEMMA FinishType ==
  ASSUME RecordsTypeOK, NEW r \in Requests, NEW reply \in Replies,
         Finish(r, reply)
  PROVE  /\ req' \in [Requests -> Request]
         /\ req'[r].pc = "idle" /\ req'[r].reply = reply
<1>1. Idle(reply) \in Request /\ Idle(reply).pc = "idle"
      /\ Idle(reply).reply = reply
  BY IdleType DEF Idle
<1> QED BY <1>1 DEF Finish, RecordsTypeOK

LEMMA GotoType ==
  ASSUME RecordsTypeOK, NEW r \in Requests, NEW pc \in Statements,
         Goto(r, pc)
  PROVE  req' \in [Requests -> Request] /\ req'[r].pc = pc
  BY DEF Goto, RecordsTypeOK, Request

\* What a step of r does to the other slots: nothing.
Others(r) == \A q \in Requests : q # r => req'[q] = req[q]

LEMMA OthersStay ==
  ASSUME RecordsTypeOK, NEW r \in Requests,
         Receive(r) \/ Abort(r) \/ HandleRecords(r)
  PROVE  Others(r)
<1> USE DEF RecordsTypeOK, Others, Finish, Goto, Enter
<1>1. CASE Receive(r)  BY <1>1 DEF Receive
<1>2. CASE Abort(r)  BY <1>2 DEF Abort
<1>3. CASE Complete(r)  BY <1>3 DEF Complete
<1>4. CASE CompleteInsert(r)  BY <1>4 DEF CompleteInsert
<1>5. CASE Assign(r)  BY <1>5 DEF Assign
<1>6. CASE AssignUser(r)  BY <1>6 DEF AssignUser
<1>7. CASE AssignInsert(r)  BY <1>7 DEF AssignInsert
<1>8. CASE Compliance(r)  BY <1>8 DEF Compliance
<1>9. CASE Statuses(r)  BY <1>9 DEF Statuses
<1>10. CASE ReportDone(r)  BY <1>10 DEF ReportDone
<1> QED
  BY <1>1, <1>2, <1>3, <1>4, <1>5, <1>6, <1>7, <1>8, <1>9, <1>10
  DEF HandleRecords
-----------------------------------------------------------------------------
LEMMA NextDayType == \A days \in Days : NextDay(days) \in Days
  BY RecordsAssumption DEF Days, NextDay

LEMMA CandidatesType == Candidates \in SUBSET Users
  BY DEF Candidates

LEMMA WatchType ==
  ASSUME RecordsTypeOK, Watch
  PROVE  steady' \in [Requests -> SUBSET Users]
  BY DEF RecordsTypeOK, Watch

\* The variables of RecordsTypeOK but for req.
TablesOK == /\ accounts \subseteq Users
            /\ training \in [Trainings -> Life]
            /\ certification \in [Certifications -> Life]
            /\ completed \in [Users -> [Trainings -> Scores \cup {None}]]
            /\ expiry \in [Users -> [Certifications -> Days \cup {None}]]
            /\ steady \in [Requests -> SUBSET Users]

LEMMA TypeStep ==
  ASSUME RecordsTypeOK, [RecordsNext]_recordsVars
  PROVE  RecordsTypeOK'
<1>0. TablesOK /\ req \in [Requests -> Request]
  BY DEF RecordsTypeOK, TablesOK
<1> SUFFICES TablesOK' /\ req' \in [Requests -> Request]
  BY DEF RecordsTypeOK, TablesOK
<1>1. ASSUME NEW r \in Requests, Receive(r)
      PROVE  TablesOK' /\ req' \in [Requests -> Request]
  <2> SUFFICES req' \in [Requests -> Request]
    BY <1>0, <1>1 DEF Receive, Tables, TablesOK
  <2>1. CASE \E u \in accounts, t \in Trainings :
               Enter(r, "complete", u, t, None)
    BY <1>0, <2>1, EnterType DEF TablesOK, Statements
  <2>2. CASE \E u \in Users, c \in Certifications :
               Enter(r, "assign", u, None, c)
    BY <2>2, EnterType DEF Statements
  <2>3. CASE Enter(r, "compliance", None, None, None)
    BY <2>3, EnterType DEF Statements
  <2> QED BY <1>1, <2>1, <2>2, <2>3 DEF Receive
<1>2. ASSUME NEW r \in Requests, Abort(r)
      PROVE  TablesOK' /\ req' \in [Requests -> Request]
  BY <1>0, <1>2, FinishType DEF Abort, Tables, TablesOK, Replies
<1>3. ASSUME NEW r \in Requests, Complete(r) \/ Assign(r) \/ AssignUser(r)
      PROVE  TablesOK' /\ req' \in [Requests -> Request]
  <2>1. req' \in [Requests -> Request]
    BY <1>3, FinishType, GotoType
    DEF Complete, Assign, AssignUser, Statements, Replies
  <2> QED
    BY <1>0, <1>3, <2>1 DEF Complete, Assign, AssignUser, Tables, TablesOK
<1>4. ASSUME NEW r \in Requests, CompleteInsert(r)
      PROVE  TablesOK' /\ req' \in [Requests -> Request]
  <2>1. req' \in [Requests -> Request]
    BY <1>4, FinishType DEF CompleteInsert, Replies
  <2>2. completed' \in [Users -> [Trainings -> Scores \cup {None}]]
    <3>1. ASSUME NEW score \in Scores
          PROVE  [completed EXCEPT ![req[r].user][req[r].training] = score]
                   \in [Users -> [Trainings -> Scores \cup {None}]]
      BY <1>0 DEF TablesOK
    <3>2. \/ completed' = completed
          \/ \E score \in Scores : completed' =
               [completed EXCEPT ![req[r].user][req[r].training] = score]
      BY <1>4 DEF CompleteInsert
    <3> QED BY <1>0, <3>1, <3>2 DEF TablesOK
  <2> QED BY <1>0, <1>4, <2>1, <2>2 DEF CompleteInsert, TablesOK
<1>5. ASSUME NEW r \in Requests, AssignInsert(r)
      PROVE  TablesOK' /\ req' \in [Requests -> Request]
  <2>1. req' \in [Requests -> Request]
    BY <1>5, FinishType DEF AssignInsert, Replies
  <2>2. expiry' \in [Users -> [Certifications -> Days \cup {None}]]
    <3>1. ASSUME NEW days \in Days
          PROVE  [expiry EXCEPT ![req[r].user][req[r].certification] = days]
                   \in [Users -> [Certifications -> Days \cup {None}]]
      BY <1>0 DEF TablesOK
    <3>2. \/ expiry' = expiry
          \/ \E days \in Days : expiry' =
               [expiry EXCEPT ![req[r].user][req[r].certification] = days]
      BY <1>5 DEF AssignInsert
    <3> QED BY <1>0, <3>1, <3>2 DEF TablesOK
  <2> QED BY <1>0, <1>5, <2>1, <2>2, WatchType DEF AssignInsert, TablesOK
<1>6. ASSUME NEW r \in Requests, Compliance(r)
      PROVE  TablesOK' /\ req' \in [Requests -> Request]
  <2>1. [req[r] EXCEPT !.pc = "statuses", !.todo = Candidates] \in Request
    BY <1>0, CandidatesType DEF Request, Statements
  <2>2. req' \in [Requests -> Request]
    BY <1>0, <1>6, <2>1 DEF Compliance
  <2>3. steady' \in [Requests -> SUBSET Users]
    BY <1>0, <1>6 DEF Compliance, TablesOK, FlaggedUsers
  <2> QED BY <1>0, <1>6, <2>2, <2>3 DEF Compliance, Tables, TablesOK
<1>7. ASSUME NEW r \in Requests, Statuses(r)
      PROVE  TablesOK' /\ req' \in [Requests -> Request]
  <2>1. PICK u \in req[r].todo : req' = [req EXCEPT ![r] = Looked(r, u)]
    BY <1>7 DEF Statuses
  <2>2. req[r] \in Request /\ u \in Users
    BY <1>0, <2>1 DEF Request
  <2>3. Looked(r, u) \in Request
    BY <2>2 DEF Looked, Request
  <2>4. req' \in [Requests -> Request]
    BY <1>0, <2>1, <2>3
  <2> QED BY <1>0, <1>7, <2>4 DEF Statuses, Tables, TablesOK
<1>8. ASSUME NEW r \in Requests, ReportDone(r)
      PROVE  TablesOK' /\ req' \in [Requests -> Request]
  <2>1. req' \in [Requests -> Request]
    BY <1>8, FinishType DEF ReportDone, Replies
  <2> QED BY <1>0, <1>8, <2>1 DEF ReportDone, Tables, TablesOK
<1>9. ASSUME NEW t \in Trainings, TrainingCreate(t) \/ TrainingDelete(t)
      PROVE  TablesOK' /\ req' \in [Requests -> Request]
  <2>1. CASE TrainingCreate(t)
    BY <1>0, <2>1 DEF TrainingCreate, TablesOK, Life
  <2>2. CASE TrainingDelete(t)
    <3>1. completed' \in [Users -> [Trainings -> Scores \cup {None}]]
      BY <1>0, <2>2 DEF TrainingDelete, TablesOK
    <3>2. training' \in [Trainings -> Life]
      BY <1>0, <2>2 DEF TrainingDelete, TablesOK, Life
    <3> QED BY <1>0, <2>2, <3>1, <3>2 DEF TrainingDelete, TablesOK
  <2> QED BY <1>9, <2>1, <2>2
<1>10. ASSUME NEW c \in Certifications,
              CertificationCreate(c) \/ CertificationDelete(c)
       PROVE  TablesOK' /\ req' \in [Requests -> Request]
  <2>1. CASE CertificationCreate(c)
    BY <1>0, <2>1 DEF CertificationCreate, TablesOK, Life
  <2>2. CASE CertificationDelete(c)
    <3>1. expiry' \in [Users -> [Certifications -> Days \cup {None}]]
      BY <1>0, <2>2 DEF CertificationDelete, TablesOK
    <3>2. certification' \in [Certifications -> Life]
      BY <1>0, <2>2 DEF CertificationDelete, TablesOK, Life
    <3> QED BY <1>0, <2>2, <3>1, <3>2, WatchType DEF CertificationDelete, TablesOK
  <2> QED BY <1>10, <2>1, <2>2
<1>11. ASSUME NEW u \in Users, EraseUser(u)
       PROVE  TablesOK' /\ req' \in [Requests -> Request]
  <2>1. expiry' \in [Users -> [Certifications -> Days \cup {None}]]
    BY <1>0, <1>11 DEF EraseUser, TablesOK
  <2>2. completed' \in [Users -> [Trainings -> Scores \cup {None}]]
    BY <1>0, <1>11 DEF EraseUser, TablesOK
  <2> QED BY <1>0, <1>11, <2>1, <2>2, WatchType DEF EraseUser, TablesOK
<1>12. CASE Midnight
  <2>1. expiry' \in [Users -> [Certifications -> Days \cup {None}]]
    BY <1>0, <1>12, NextDayType DEF Midnight, TablesOK
  <2> QED BY <1>0, <1>12, <2>1, WatchType DEF Midnight, TablesOK
<1>13. CASE UNCHANGED recordsVars
  BY <1>0, <1>13 DEF recordsVars, TablesOK
<1> QED
  BY <1>1, <1>2, <1>3, <1>4, <1>5, <1>6, <1>7, <1>8, <1>9, <1>10, <1>11,
     <1>12, <1>13
  DEF RecordsNext, HandleRecords

\* The variables of Records keep their types.
THEOREM RecordsTyped == RecordsSpec => []RecordsTypeOK
<1>1. RecordsInit => RecordsTypeOK
  BY IdleType DEF RecordsInit, RecordsTypeOK, Life, Replies
<1> QED BY <1>1, TypeStep, PTL DEF RecordsSpec
-----------------------------------------------------------------------------
LEMMA IntegrityStep ==
  ASSUME RecordsTypeOK, RecordsIntegrity, [RecordsNext]_recordsVars
  PROVE  RecordsIntegrity'
<1> USE DEF RecordsTypeOK, RecordsIntegrity
<1>1. ASSUME NEW r \in Requests,
             \/ Receive(r) \/ Abort(r) \/ Complete(r)
             \/ Assign(r) \/ AssignUser(r)
             \/ Compliance(r) \/ Statuses(r) \/ ReportDone(r)
      PROVE  RecordsIntegrity'
  BY <1>1 DEF Receive, Abort, Complete, Assign, AssignUser,
              Compliance, Statuses, ReportDone, Tables
<1>2. ASSUME NEW r \in Requests, CompleteInsert(r)
      PROVE  RecordsIntegrity'
  <2>1. ASSUME NEW u \in Users, NEW t \in Trainings, completed'[u][t] # None
        PROVE  u \in accounts /\ training[t] = "live"
    <3>1. CASE completed' = completed
      BY <2>1, <3>1
    <3>2. CASE completed' # completed
      <4>1. /\ req[r].user \in accounts /\ training[req[r].training] = "live"
            /\ \E score \in Scores : completed' =
                 [completed EXCEPT ![req[r].user][req[r].training] = score]
        BY <1>2, <3>2 DEF CompleteInsert
      <4>2. completed'[u][t] = completed[u][t]
              \/ (u = req[r].user /\ t = req[r].training)
        BY <4>1
      <4> QED BY <2>1, <4>1, <4>2
    <3> QED BY <3>1, <3>2
  <2> QED BY <1>2, <2>1 DEF CompleteInsert
<1>3. ASSUME NEW r \in Requests, AssignInsert(r)
      PROVE  RecordsIntegrity'
  <2>1. ASSUME NEW u \in Users, NEW c \in Certifications,
               expiry'[u][c] # None
        PROVE  u \in accounts /\ certification[c] = "live"
    <3>1. CASE expiry' = expiry
      BY <2>1, <3>1
    <3>2. CASE expiry' # expiry
      <4>1. /\ req[r].user \in accounts
            /\ certification[req[r].certification] = "live"
            /\ \E days \in Days : expiry' =
                 [expiry EXCEPT ![req[r].user][req[r].certification] = days]
        BY <1>3, <3>2 DEF AssignInsert
      <4>2. expiry'[u][c] = expiry[u][c]
              \/ (u = req[r].user /\ c = req[r].certification)
        BY <4>1
      <4> QED BY <2>1, <4>1, <4>2
    <3> QED BY <3>1, <3>2
  <2> QED BY <1>3, <2>1 DEF AssignInsert
<1>4. ASSUME NEW t \in Trainings, TrainingCreate(t)
      PROVE  RecordsIntegrity'
  BY <1>4 DEF TrainingCreate
<1>5. ASSUME NEW t \in Trainings, TrainingDelete(t)
      PROVE  RecordsIntegrity'
  BY <1>5 DEF TrainingDelete
<1>6. ASSUME NEW c \in Certifications, CertificationCreate(c)
      PROVE  RecordsIntegrity'
  BY <1>6 DEF CertificationCreate
<1>7. ASSUME NEW c \in Certifications, CertificationDelete(c)
      PROVE  RecordsIntegrity'
  BY <1>7 DEF CertificationDelete
<1>8. ASSUME NEW u \in Users, EraseUser(u)
      PROVE  RecordsIntegrity'
  BY <1>8 DEF EraseUser
<1>9. CASE Midnight
  BY <1>9 DEF Midnight
<1>10. CASE UNCHANGED recordsVars
  BY <1>10 DEF recordsVars
<1> QED
  BY <1>1, <1>2, <1>3, <1>4, <1>5, <1>6, <1>7, <1>8, <1>9, <1>10
  DEF RecordsNext, HandleRecords

\* No completion and no certificate outlives its account, its training or its
\* certification, whatever was looked up before the INSERT.
THEOREM NothingKept == RecordsSpec => []RecordsIntegrity
<1>1. RecordsInit => RecordsIntegrity
  BY DEF RecordsInit, RecordsIntegrity
<1> QED BY <1>1, RecordsTyped, IntegrityStep, PTL DEF RecordsSpec
-----------------------------------------------------------------------------
\* ReportComplete is not inductive: it needs that whoever is steady is flagged
\* at this moment, so that the report finds something when it looks.
SteadyFlagged == \A r \in Requests : steady[r] \subseteq FlaggedUsers

LEMMA FlaggedAreCandidates ==
  ASSUME RecordsTypeOK
  PROVE  FlaggedUsers \subseteq Candidates
<1> SUFFICES ASSUME NEW u \in Users, NEW c \in Certifications,
                    expiry[u][c] # None, StatusOf(expiry[u][c]) # "valid"
             PROVE  expiry[u][c] <= Warning
  BY DEF FlaggedUsers, Flagged, Candidates
<1>1. expiry[u][c] \in Int
  BY RecordsAssumption DEF RecordsTypeOK, Days
<1> QED BY <1>1, RecordsAssumption DEF StatusOf

LEMMA SteadyStep ==
  ASSUME RecordsTypeOK, SteadyFlagged, [RecordsNext]_recordsVars
  PROVE  SteadyFlagged'
<1>1. ASSUME UNCHANGED <<expiry, steady>>  PROVE SteadyFlagged'
  BY <1>1 DEF SteadyFlagged, FlaggedUsers, Flagged
<1>2. ASSUME Watch  PROVE SteadyFlagged'
  BY <1>2 DEF SteadyFlagged, Watch
<1>3. ASSUME NEW r \in Requests, Compliance(r) \/ ReportDone(r)
      PROVE  SteadyFlagged'
  <2>1. FlaggedUsers' = FlaggedUsers
    BY <1>3 DEF Compliance, ReportDone, Tables, FlaggedUsers, Flagged
  <2>2. \A q \in Requests :
          steady'[q] = steady[q] \/ steady'[q] \subseteq FlaggedUsers
    BY <1>3 DEF Compliance, ReportDone, RecordsTypeOK
  <2> QED BY <2>1, <2>2 DEF SteadyFlagged
<1>4. \/ UNCHANGED <<expiry, steady>> \/ Watch
      \/ \E r \in Requests : Compliance(r) \/ ReportDone(r)
  BY DEF RecordsNext, HandleRecords, Receive, Abort, Complete, CompleteInsert,
         Assign, AssignUser, AssignInsert, Statuses, Tables, TrainingCreate,
         TrainingDelete, CertificationCreate, CertificationDelete, EraseUser,
         Midnight, recordsVars
<1> QED BY <1>1, <1>2, <1>3, <1>4

LEMMA CompleteStep ==
  ASSUME RecordsTypeOK, RecordsTypeOK', SteadyFlagged, ReportComplete,
         [RecordsNext]_recordsVars
  PROVE  ReportComplete'
<1> SUFFICES ASSUME NEW q \in Requests, At(q, "statuses")'
             PROVE  steady'[q] \subseteq req'[q].todo \cup req'[q].entries
  BY DEF ReportComplete
<1>0. steady'[q] \subseteq steady[q] \/ Compliance(q)
  <2>1. CASE steady' = steady
    BY <2>1
  <2>2. CASE Watch
    BY <2>2 DEF Watch, RecordsTypeOK
  <2>3. ASSUME NEW r \in Requests, Compliance(r) \/ ReportDone(r)
        PROVE  steady'[q] \subseteq steady[q] \/ Compliance(q)
    BY <2>3 DEF Compliance, ReportDone, RecordsTypeOK
  <2> QED
    BY <2>1, <2>2, <2>3
    DEF RecordsNext, HandleRecords, Receive, Abort, Complete, CompleteInsert,
        Assign, AssignUser, AssignInsert, Statuses, TrainingCreate,
        TrainingDelete, CertificationCreate, CertificationDelete, EraseUser,
        Midnight, recordsVars
<1>1. CASE Compliance(q)
  <2>1. req'[q].todo = Candidates /\ steady'[q] = FlaggedUsers
    BY <1>1 DEF Compliance, RecordsTypeOK, Request
  <2> QED BY <2>1, FlaggedAreCandidates
<1>2. CASE steady'[q] \subseteq steady[q] /\ req'[q] = req[q]
  BY <1>2 DEF ReportComplete, At
<1>3. CASE steady'[q] \subseteq steady[q] /\ Statuses(q)
  <2>1. PICK u \in req[q].todo : req' = [req EXCEPT ![q] = Looked(q, u)]
    BY <1>3 DEF Statuses
  <2>2. /\ req'[q].todo = req[q].todo \ {u}
        /\ req'[q].entries = IF Flagged(u) = {} THEN req[q].entries
                                               ELSE req[q].entries \cup {u}
    <3>1. req[q] \in Request /\ req'[q] = Looked(q, u)
      BY <2>1 DEF RecordsTypeOK
    <3> QED BY <3>1 DEF Looked, Request
  <2>3. u \in steady[q] => Flagged(u) # {}
    BY DEF SteadyFlagged, FlaggedUsers
  <2>4. steady[q] \subseteq req[q].todo \cup req[q].entries
    BY <1>3 DEF ReportComplete, Statuses
  <2> QED BY <1>3, <2>2, <2>3, <2>4
<1>4. req'[q] = req[q] \/ Statuses(q) \/ Compliance(q)
  <2>1. ASSUME NEW r \in Requests,
               Receive(r) \/ Abort(r) \/ HandleRecords(r), r # q
        PROVE  req'[q] = req[q]
    BY <2>1, OthersStay DEF Others
  <2>2. CASE Receive(q)
    BY <2>2, EnterPc DEF Receive, At
  <2>3. CASE \/ Abort(q) \/ CompleteInsert(q) \/ AssignInsert(q)
             \/ ReportDone(q)
    BY <2>3, FinishType
    DEF Abort, CompleteInsert, AssignInsert, ReportDone, At, Replies
  <2>4. CASE Complete(q) \/ Assign(q) \/ AssignUser(q)
    BY <2>4, FinishType, GotoType
    DEF Complete, Assign, AssignUser, At, Replies, Statements
  <2>5. CASE UNCHANGED req
    BY <2>5
  <2> QED
    BY <2>1, <2>2, <2>3, <2>4, <2>5
    DEF RecordsNext, HandleRecords, TrainingCreate, TrainingDelete,
        CertificationCreate, CertificationDelete, EraseUser, Midnight,
        recordsVars
<1> QED BY <1>0, <1>1, <1>2, <1>3, <1>4

\* Whoever has a certification to report all the while is in the report.
THEOREM ReportsComplete == RecordsSpec => []ReportComplete
<1>1. RecordsInit => SteadyFlagged /\ ReportComplete
  BY DEF RecordsInit, SteadyFlagged, ReportComplete, At, Idle
<1> QED
  BY <1>1, RecordsTyped, SteadyStep, CompleteStep, PTL DEF RecordsSpec
-----------------------------------------------------------------------------
\* RecordsKept for one step, by tables.
KeptCompletions ==
  \A u \in accounts', t \in Trainings : training'[t] = "live" =>
    \/ completed'[u][t] = completed[u][t]
    \/ \E r \in Requests : /\ At(r, "complete_insert")
                          /\ req[r].user = u /\ req[r].training = t
                          /\ req'[r].reply = "ok"

KeptCertificates ==
  \A u \in accounts', c \in Certifications : certification'[c] = "live" =>
    \/ expiry'[u][c] = expiry[u][c]
    \/ \E r \in Requests : /\ At(r, "assign_insert")
                          /\ req[r].user = u
                          /\ req[r].certification = c
                          /\ req'[r].reply = "ok"
    \/ UNCHANGED req /\ expiry'[u][c] = NextDay(expiry[u][c])

LEMMA CompletionsStep ==
  ASSUME RecordsTypeOK, RecordsTypeOK', RecordsNext
  PROVE  KeptCompletions
<1> SUFFICES ASSUME NEW u \in accounts', NEW t \in Trainings,
                    training'[t] = "live", completed'[u][t] # completed[u][t]
             PROVE  \E r \in Requests :
                      /\ At(r, "complete_insert")
                      /\ req[r].user = u /\ req[r].training = t
                      /\ req'[r].reply = "ok"
  BY DEF KeptCompletions
<1>0. u \in Users
  BY DEF RecordsTypeOK
<1>1. ASSUME NEW r \in Requests, CompleteInsert(r)
      PROVE  /\ At(r, "complete_insert")
             /\ req[r].user = u /\ req[r].training = t
             /\ req'[r].reply = "ok"
  <2>1. /\ At(r, "complete_insert") /\ Finish(r, "ok")
        /\ \E score \in Scores : completed' =
             [completed EXCEPT ![req[r].user][req[r].training] = score]
    BY <1>1 DEF CompleteInsert
  <2>2. req[r].user = u /\ req[r].training = t
    BY <1>0, <2>1 DEF RecordsTypeOK
  <2> QED BY <2>1, <2>2, FinishType DEF Replies
<1>2. ASSUME NEW s \in Trainings, TrainingDelete(s)  PROVE FALSE
  <2>1. t # s
    BY <1>2 DEF TrainingDelete, RecordsTypeOK
  <2> QED BY <1>0, <1>2, <2>1 DEF TrainingDelete, RecordsTypeOK
<1>3. ASSUME NEW v \in Users, EraseUser(v)  PROVE FALSE
  <2>1. u # v
    BY <1>3 DEF EraseUser
  <2> QED BY <1>0, <1>3, <2>1 DEF EraseUser, RecordsTypeOK
<1>4. \/ UNCHANGED completed
      \/ \E r \in Requests : CompleteInsert(r)
      \/ \E s \in Trainings : TrainingDelete(s)
      \/ \E v \in Users : EraseUser(v)
  BY DEF RecordsNext, HandleRecords, Receive, Abort, Complete, Assign,
         AssignUser, AssignInsert, Compliance, Statuses, ReportDone, Tables,
         TrainingCreate, CertificationCreate, CertificationDelete, Midnight
<1> QED BY <1>1, <1>2, <1>3, <1>4

LEMMA CertificatesStep ==
  ASSUME RecordsTypeOK, RecordsTypeOK', RecordsNext
  PROVE  KeptCertificates
<1> SUFFICES ASSUME NEW u \in accounts', NEW c \in Certifications,
                    certification'[c] = "live",
                    expiry'[u][c] # expiry[u][c]
             PROVE  \/ \E r \in Requests :
                         /\ At(r, "assign_insert")
                         /\ req[r].user = u
                         /\ req[r].certification = c
                         /\ req'[r].reply = "ok"
                    \/ UNCHANGED req
                         /\ expiry'[u][c] = NextDay(expiry[u][c])
  BY DEF KeptCertificates
<1>0. u \in Users
  BY DEF RecordsTypeOK
<1>1. ASSUME NEW r \in Requests, AssignInsert(r)
      PROVE  /\ At(r, "assign_insert")
             /\ req[r].user = u /\ req[r].certification = c
             /\ req'[r].reply = "ok"
  <2>1. /\ At(r, "assign_insert") /\ Finish(r, "ok")
        /\ \E days \in Days : expiry' =
             [expiry EXCEPT ![req[r].user][req[r].certification] = days]
    BY <1>1 DEF AssignInsert
  <2>2. req[r].user = u /\ req[r].certification = c
    BY <1>0, <2>1 DEF RecordsTypeOK
  <2> QED BY <2>1, <2>2, FinishType DEF Replies
<1>2. ASSUME NEW d \in Certifications, CertificationDelete(d)  PROVE FALSE
  <2>1. c # d
    BY <1>2 DEF CertificationDelete, RecordsTypeOK
  <2> QED BY <1>0, <1>2, <2>1 DEF CertificationDelete, RecordsTypeOK
<1>3. ASSUME NEW v \in Users, EraseUser(v)  PROVE FALSE
  <2>1. u # v
    BY <1>3 DEF EraseUser
  <2> QED BY <1>0, <1>3, <2>1 DEF EraseUser, RecordsTypeOK
<1>4. ASSUME Midnight
      PROVE  UNCHANGED req /\ expiry'[u][c] = NextDay(expiry[u][c])
  BY <1>0, <1>4 DEF Midnight
<1>5. \/ UNCHANGED expiry \/ Midnight
      \/ \E r \in Requests : AssignInsert(r)
      \/ \E d \in Certifications : CertificationDelete(d)
      \/ \E v \in Users : EraseUser(v)
  BY DEF RecordsNext, HandleRecords, Receive, Abort, Complete, CompleteInsert,
         Assign, AssignUser, Compliance, Statuses, ReportDone, Tables,
         TrainingCreate, TrainingDelete, CertificationCreate
<1> QED BY <1>1, <1>2, <1>3, <1>4, <1>5

\* No completion or assignment touches the record of anybody or anything else.
THEOREM Kept == RecordsSpec => RecordsKept
<1> DEFINE Step == \A u \in accounts' :
      /\ \A t \in Trainings : training'[t] = "live" =>
           \/ completed'[u][t] = completed[u][t]
           \/ \E r \in Requests : /\ At(r, "complete_insert")
                                 /\ req[r].user = u /\ req[r].training = t
                                 /\ req'[r].reply = "ok"
      /\ \A c \in Certifications : certification'[c] = "live" =>
           \/ expiry'[u][c] = expiry[u][c]
           \/ \E r \in Requests : /\ At(r, "assign_insert")
                                 /\ req[r].user = u
                                 /\ req[r].certification = c
                                 /\ req'[r].reply = "ok"
           \/ UNCHANGED req /\ expiry'[u][c] = NextDay(expiry[u][c])
<1>1. RecordsTypeOK /\ RecordsTypeOK' /\ [RecordsNext]_recordsVars
        => [Step]_recordsVars
  <2> SUFFICES ASSUME RecordsTypeOK, RecordsTypeOK', RecordsNext
               PROVE  Step
    OBVIOUS
  <2>1. KeptCompletions /\ KeptCertificates
    BY CompletionsStep, CertificatesStep
  <2> QED BY <2>1 DEF KeptCompletions, KeptCertificates
<1> QED BY <1>1, RecordsTyped, PTL DEF RecordsSpec, RecordsKept
=============================================================================
