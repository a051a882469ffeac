-------------------------- MODULE SchedulingProofs --------------------------
(* What Scheduling guarantees for any number of users, sessions, trainings  *)
(* and simultaneous requests, and any capacities.                           *)
EXTENDS Scheduling, FiniteSetTheorems, TLAPS

-----------------------------------------------------------------------------
(* Types.                                                                   *)

LEMMA InitTypeOK == Init => TypeOK
  BY DEF Init, TypeOK, SessionRow, NoRow, Life, Status, Request, Replies, Idle,
         NoLimit

\* The ways a handler's row changes keep its type.
LEMMA FinishType ==
  ASSUME TypeOK, NEW r \in Requests, NEW reply \in Replies, Finish(r, reply)
  PROVE  req' \in [Requests -> Request]
  BY DEF TypeOK, Finish, Idle, Request

LEMMA GotoType ==
  ASSUME TypeOK, NEW r \in Requests, NEW pc \in Statements, Goto(r, pc)
  PROVE  req' \in [Requests -> Request]
  BY DEF TypeOK, Goto, Request

LEMMA DropType ==
  ASSUME TypeOK, NEW S, DropSessions(S)
  PROVE  /\ session' \in [Sessions -> SessionRow]
         /\ roster' \in [Sessions -> [Users -> Status]]
  BY DEF TypeOK, DropSessions, NoRow, SessionRow, Life, Empty, Status, NoLimit

\* One cell of the roster changes.
LEMMA RosterType ==
  ASSUME TypeOK, NEW s, NEW u, NEW status \in Status,
         roster' = [roster EXCEPT ![s][u] = status]
  PROVE  roster' \in [Sessions -> [Users -> Status]]
<1> DEFINE row == [roster[s] EXCEPT ![u] = status]
<1>1. CASE s \in Sessions
  <2>1. row \in [Users -> Status]
    BY <1>1 DEF TypeOK
  <2>2. roster' = [roster EXCEPT ![s] = row]
    OBVIOUS
  <2> QED
    BY <2>1, <2>2 DEF TypeOK
<1>2. CASE s \notin Sessions
  BY <1>2 DEF TypeOK
<1> QED
  BY <1>1, <1>2

LEMMA NextTypeOK == TypeOK /\ [Next]_vars => TypeOK'
<1> SUFFICES ASSUME TypeOK, [Next]_vars PROVE TypeOK'
  OBVIOUS
<1> USE DEF Replies, Statements
<1>1. CASE UNCHANGED vars
  BY <1>1 DEF vars, TypeOK
<1>2. ASSUME NEW r \in Requests, Receive(r) PROVE TypeOK'
  <2>1. req' \in [Requests -> Request]
    BY <1>2 DEF Receive, Enter, TypeOK, Request
  <2> QED
    BY <1>2, <2>1 DEF Receive, Tables, TypeOK
<1>3. ASSUME NEW r \in Requests, Abort(r) PROVE TypeOK'
  <2>1. req' \in [Requests -> Request]
    BY <1>3, FinishType DEF Abort
  <2> QED
    BY <1>3, <2>1 DEF Abort, Tables, TypeOK
<1>4. ASSUME NEW r \in Requests, SessionCreate(r) PROVE TypeOK'
  <2>1. req' \in [Requests -> Request]
    BY <1>4, FinishType, GotoType DEF SessionCreate
  <2> QED
    BY <1>4, <2>1 DEF SessionCreate, Tables, TypeOK
<1>5. ASSUME NEW r \in Requests, SessionInsert(r) PROVE TypeOK'
  <2>1. CASE LiveTraining(req[r].training) /\ req[r].user \in accounts
    <3> PICK s \in Sessions, c \in Capacities, started \in BOOLEAN :
          SessionInserted(r, s, c, started)
      BY <1>5, <2>1 DEF SessionInsert
    <3>1. req' \in [Requests -> Request]
      <4> DEFINE row == [req[r] EXCEPT !.pc = "session_view", !.session = s]
      <4>1. row \in Request
        BY DEF TypeOK, Request
      <4>2. req' = [req EXCEPT ![r] = row]
        BY DEF SessionInserted
      <4> QED
        BY <4>1, <4>2 DEF TypeOK
    <3>2. session' \in [Sessions -> SessionRow]
      BY <2>1 DEF SessionInserted, TypeOK, SessionRow, Life, LiveTraining
    <3>3. peak' \in [Sessions -> Capacities \cup {NoLimit}]
      BY DEF SessionInserted, TypeOK
    <3> QED
      BY <1>5, <3>1, <3>2, <3>3 DEF SessionInsert, TypeOK
  <2>2. CASE ~(LiveTraining(req[r].training) /\ req[r].user \in accounts)
    BY <1>5, <2>2, FinishType DEF SessionInsert, TypeOK
  <2> QED
    BY <2>1, <2>2
<1>6. ASSUME NEW r \in Requests, SessionUpdate(r) PROVE TypeOK'
  <2>1. CASE /\ Finish(r, "refused") \/ Finish(r, "fk_error")
             /\ UNCHANGED <<session, peak>>
    BY <1>6, <2>1, FinishType DEF SessionUpdate, TypeOK
  <2>2. ASSUME NEW t \in Trainings, NEW c \in Capacities,
               NEW started \in BOOLEAN, SessionUpdated(r, t, c, started)
        PROVE  TypeOK'
    <3>1. req' \in [Requests -> Request]
      BY <2>2, GotoType DEF SessionUpdated
    <3>2. session' \in [Sessions -> SessionRow]
      BY <2>2 DEF SessionUpdated, TypeOK, SessionRow, Life
    <3>3. peak' \in [Sessions -> Capacities \cup {NoLimit}]
      BY <2>2 DEF SessionUpdated, TypeOK, Wider, NoLimit
    <3> QED
      BY <1>6, <3>1, <3>2, <3>3 DEF SessionUpdate, TypeOK
  <2> QED
    BY <1>6, <2>1, <2>2 DEF SessionUpdate
<1>7. ASSUME NEW r \in Requests, SessionView(r) PROVE TypeOK'
  <2>1. req' \in [Requests -> Request]
    BY <1>7, FinishType DEF SessionView
  <2> QED
    BY <1>7, <2>1 DEF SessionView, Tables, TypeOK
<1>8. ASSUME NEW r \in Requests, SessionDelete(r) PROVE TypeOK'
  <2>1. req' \in [Requests -> Request]
    BY <1>8, FinishType DEF SessionDelete
  <2>2. /\ session' \in [Sessions -> SessionRow]
        /\ roster' \in [Sessions -> [Users -> Status]]
    BY <1>8, DropType DEF SessionDelete, TypeOK
  <2> QED
    BY <1>8, <2>1, <2>2 DEF SessionDelete, TypeOK
<1>9. ASSUME NEW r \in Requests, TrainingCreate(r) PROVE TypeOK'
  <2>1. req' \in [Requests -> Request]
    BY <1>9, FinishType DEF TrainingCreate
  <2>2. training' \in [Trainings -> Life]
    BY <1>9 DEF TrainingCreate, TypeOK, Life
  <2> QED
    BY <1>9, <2>1, <2>2 DEF TrainingCreate, TypeOK
<1>10. ASSUME NEW r \in Requests, TrainingUpdate(r) PROVE TypeOK'
  <2>1. req' \in [Requests -> Request]
    BY <1>10, FinishType DEF TrainingUpdate
  <2> QED
    BY <1>10, <2>1 DEF TrainingUpdate, Tables, TypeOK
<1>11. ASSUME NEW r \in Requests, TrainingDelete(r) PROVE TypeOK'
  <2>1. req' \in [Requests -> Request]
    BY <1>11, FinishType DEF TrainingDelete
  <2>2. training' \in [Trainings -> Life]
    BY <1>11 DEF TrainingDelete, TypeOK, Life
  <2>3. /\ session' \in [Sessions -> SessionRow]
        /\ roster' \in [Sessions -> [Users -> Status]]
    BY <1>11, DropType DEF TrainingDelete, TypeOK
  <2> QED
    BY <1>11, <2>1, <2>2, <2>3 DEF TrainingDelete, TypeOK
<1>12. ASSUME NEW r \in Requests, Enroll(r) PROVE TypeOK'
  <2>1. req' \in [Requests -> Request]
    BY <1>12, FinishType, GotoType DEF Enroll
  <2> QED
    BY <1>12, <2>1 DEF Enroll, Tables, TypeOK
<1>13. ASSUME NEW r \in Requests, EnrollInsert(r) PROVE TypeOK'
  <2>1. req' \in [Requests -> Request]
    BY <1>13, FinishType DEF EnrollInsert
  <2>2. roster' \in [Sessions -> [Users -> Status]]
    BY <1>13, RosterType DEF EnrollInsert, TypeOK, Status
  <2> QED
    BY <1>13, <2>1, <2>2 DEF EnrollInsert, TypeOK
<1>14. ASSUME NEW r \in Requests, Cancel(r) PROVE TypeOK'
  <2>1. req' \in [Requests -> Request]
    BY <1>14, FinishType DEF Cancel
  <2>2. roster' \in [Sessions -> [Users -> Status]]
    BY <1>14, RosterType DEF Cancel, TypeOK, Status
  <2> QED
    BY <1>14, <2>1, <2>2 DEF Cancel, TypeOK
<1>15. ASSUME NEW s \in Sessions, StartPasses(s) PROVE TypeOK'
  <2>1. session' \in [Sessions -> SessionRow]
    BY <1>15 DEF StartPasses, TypeOK, SessionRow
  <2> QED
    BY <1>15, <2>1 DEF StartPasses, TypeOK
<1>16. ASSUME NEW u \in Users, EraseUser(u) PROVE TypeOK'
  <2>1. roster' \in [Sessions -> [Users -> Status]]
    BY <1>16 DEF EraseUser, TypeOK, Status
  <2> QED
    BY <1>16, <2>1 DEF EraseUser, TypeOK
<1> QED
  BY <1>1, <1>2, <1>3, <1>4, <1>5, <1>6, <1>7, <1>8, <1>9, <1>10, <1>11,
     <1>12, <1>13, <1>14, <1>15, <1>16 DEF Next, Handle

\* Every table and every handler's row keeps its type, whatever the order in
\* which requests run their statements.
THEOREM TypeCorrect == Spec => []TypeOK
<1>1. Init => TypeOK
  BY InitTypeOK
<1>2. TypeOK /\ [Next]_vars => TypeOK'
  BY NextTypeOK
<1> QED
  BY <1>1, <1>2, PTL DEF Spec
-----------------------------------------------------------------------------
(* Foreign keys.                                                            *)

LEMMA DropIntegrity ==
  ASSUME TypeOK, Integrity, NEW S, DropSessions(S), accounts' = accounts,
         \A s \in Sessions \ S : LiveSession(s) =>
                                   training'[session[s].training] = "live"
  PROVE  Integrity'
<1>1. ASSUME NEW s \in Sessions, LiveSession(s)'
      PROVE  LiveTraining(session[s].training)'
  BY <1>1 DEF DropSessions, NoRow, LiveSession, LiveTraining, Integrity, TypeOK
<1>2. ASSUME NEW s \in Sessions, NEW u \in Users, roster'[s][u] # "none"
      PROVE  LiveSession(s)' /\ u \in accounts'
  BY <1>2 DEF DropSessions, NoRow, LiveSession, Integrity, TypeOK, Empty
<1> QED
  BY <1>1, <1>2 DEF Integrity

LEMMA NextIntegrity == TypeOK /\ Integrity /\ [Next]_vars => Integrity'
<1> SUFFICES ASSUME TypeOK, Integrity, [Next]_vars PROVE Integrity'
  OBVIOUS
<1>1. CASE UNCHANGED Tables
  BY <1>1 DEF Tables, Integrity, LiveSession, LiveTraining
<1>2. ASSUME NEW r \in Requests, SessionInsert(r) PROVE Integrity'
  <2>1. CASE UNCHANGED Tables
    BY <2>1, <1>1
  <2>2. ASSUME NEW s \in Sessions, NEW c \in Capacities,
               NEW started \in BOOLEAN, SessionInserted(r, s, c, started),
               LiveTraining(req[r].training)
        PROVE  Integrity'
    BY <1>2, <2>2 DEF SessionInsert, SessionInserted, Integrity, LiveSession,
                      LiveTraining, TypeOK
  <2> QED
    BY <1>2, <2>1, <2>2 DEF SessionInsert, Tables
<1>3. ASSUME NEW r \in Requests, SessionUpdate(r) PROVE Integrity'
  <2>1. CASE UNCHANGED Tables
    BY <2>1, <1>1
  <2>2. ASSUME NEW t \in Trainings, NEW c \in Capacities,
               NEW started \in BOOLEAN, SessionUpdated(r, t, c, started),
               LiveTraining(t)
        PROVE  Integrity'
    BY <1>3, <2>2 DEF SessionUpdate, SessionUpdated, Integrity, LiveSession,
                      LiveTraining, TypeOK
  <2> QED
    BY <1>3, <2>1, <2>2 DEF SessionUpdate, Tables
<1>4. ASSUME NEW r \in Requests, SessionDelete(r) PROVE Integrity'
  BY <1>1, <1>4, DropIntegrity
     DEF SessionDelete, Tables, Integrity, LiveTraining
<1>5. ASSUME NEW r \in Requests, TrainingCreate(r) PROVE Integrity'
  BY <1>1, <1>5 DEF TrainingCreate, Tables, Integrity, LiveSession,
                    LiveTraining, TypeOK
<1>6. ASSUME NEW r \in Requests, TrainingDelete(r) PROVE Integrity'
  <2> DEFINE t == req[r].training
  <2>1. CASE LiveTraining(t)
    <3>1. DropSessions(SessionsOf(t)) /\ accounts' = accounts
      BY <1>6, <2>1 DEF TrainingDelete
    <3>2. ASSUME NEW s \in Sessions \ SessionsOf(t), LiveSession(s)
          PROVE  training'[session[s].training] = "live"
      BY <1>6, <2>1, <3>2
         DEF TrainingDelete, SessionsOf, Integrity, LiveTraining, TypeOK
    <3> QED
      BY <3>1, <3>2, DropIntegrity
  <2>2. CASE ~LiveTraining(t)
    BY <1>1, <1>6, <2>2 DEF TrainingDelete, Tables
  <2> QED
    BY <2>1, <2>2
<1>7. ASSUME NEW r \in Requests, EnrollInsert(r) PROVE Integrity'
  BY <1>1, <1>7 DEF EnrollInsert, Tables, Integrity, LiveSession,
                    LiveTraining, TypeOK
<1>8. ASSUME NEW r \in Requests, Cancel(r) PROVE Integrity'
  BY <1>1, <1>8 DEF Cancel, Tables, Integrity, LiveSession, LiveTraining,
                    TypeOK
<1>9. ASSUME NEW s \in Sessions, StartPasses(s) PROVE Integrity'
  BY <1>9 DEF StartPasses, Integrity, LiveSession, LiveTraining, TypeOK,
              SessionRow
<1>10. ASSUME NEW u \in Users, EraseUser(u) PROVE Integrity'
  BY <1>10 DEF EraseUser, Integrity, LiveSession, LiveTraining, TypeOK
<1> QED
  BY <1>1, <1>2, <1>3, <1>4, <1>5, <1>6, <1>7, <1>8, <1>9, <1>10
     DEF Next, Handle, Receive, Abort, SessionCreate, SessionView,
         TrainingUpdate, Enroll, vars, Tables

\* No enrollment outlives its session or its user, and no session its
\* training, with any number of requests under way: what the cascading
\* foreign keys of init.sql promise holds of every interleaving.
THEOREM NothingOutlives == Spec => []Integrity
<1>1. Init => Integrity
  BY DEF Init, Integrity, LiveSession, NoRow
<1>2. TypeOK /\ Integrity /\ [Next]_vars => Integrity'
  BY NextIntegrity
<1> QED
  BY <1>1, <1>2, TypeCorrect, PTL DEF Spec
-----------------------------------------------------------------------------
(* Seats.  As far as seats go a step does one of five things.               *)

\* Nobody new is waiting to insert a row.
NoneLetIn == \A s \in Sessions : Pending(s)' \subseteq Pending(s)

SeatsGivenUp == /\ \A s \in Sessions : Seats(s)' \subseteq Seats(s)
                /\ NoneLetIn
                /\ peak' = peak

Offered(s, c) == /\ session[s].life = "unborn"
                 /\ peak' = [peak EXCEPT ![s] = c]
                 /\ roster' = roster
                 /\ NoneLetIn

Resized(s, c) == /\ peak' = [peak EXCEPT ![s] = Wider(@, c)]
                 /\ roster' = roster
                 /\ NoneLetIn

LetIn(r) == /\ LiveSession(req[r].session)
            /\ ~session[req[r].session].started
            /\ ~Full(req[r].session)
            /\ Pending(req[r].session)' \subseteq Requests
            /\ \A s \in Sessions \ {req[r].session} :
                 Pending(s)' \subseteq Pending(s)
            /\ roster' = roster /\ peak' = peak

Seated(r) == /\ LiveSession(req[r].session)
             /\ req[r].user \in Users
             /\ r \in Pending(req[r].session)
             /\ \A s \in Sessions : Pending(s)' \subseteq Pending(s) \ {r}
             /\ roster' = [roster EXCEPT
                             ![req[r].session][req[r].user] = "enrolled"]
             /\ peak' = peak

\* A request that does not stand before its INSERT is not pending.
LEMMA NotPending ==
  ASSUME TypeOK, NEW r \in Requests, NEW row,
         req' = [req EXCEPT ![r] = row], row.pc # "enroll_insert"
  PROVE  /\ NoneLetIn
         /\ \A s \in Sessions : Pending(s)' \subseteq Pending(s) \ {r}
<1>1. req'[r] = row /\ \A q \in Requests \ {r} : req'[q] = req[q]
  BY DEF TypeOK
<1>2. \A s \in Sessions : Pending(s)' \subseteq Pending(s) \ {r}
  BY <1>1 DEF Pending
<1> QED
  BY <1>2 DEF NoneLetIn

LEMMA FinishNotPending ==
  ASSUME TypeOK, NEW r \in Requests, NEW reply, Finish(r, reply)
  PROVE  /\ NoneLetIn
         /\ \A s \in Sessions : Pending(s)' \subseteq Pending(s) \ {r}
<1>1. req' = [req EXCEPT ![r] = Idle(reply)]
  BY DEF Finish
<1>2. Idle(reply).pc # "enroll_insert"
  BY DEF Idle
<1> QED
  BY <1>1, <1>2, NotPending

LEMMA EnterNotPending ==
  ASSUME TypeOK, NEW r \in Requests, NEW pc, pc # "enroll_insert",
         NEW u, NEW s, NEW t, Enter(r, pc, u, s, t)
  PROVE  NoneLetIn
<1> DEFINE row == [pc |-> pc, user |-> u, session |-> s, training |-> t,
                   reply |-> "none"]
<1>1. req' = [req EXCEPT ![r] = row] /\ row.pc # "enroll_insert"
  BY DEF Enter
<1> QED
  BY <1>1, NotPending

LEMMA GotoNotPending ==
  ASSUME TypeOK, NEW r \in Requests, NEW pc \in Statements \ {"enroll_insert"},
         Goto(r, pc)
  PROVE  NoneLetIn
<1> DEFINE row == [req[r] EXCEPT !.pc = pc]
<1>1. req' = [req EXCEPT ![r] = row] /\ row.pc # "enroll_insert"
  BY DEF Goto, TypeOK, Request
<1> QED
  BY <1>1, NotPending

LEMMA StepShape ==
  ASSUME TypeOK, [Next]_vars
  PROVE  \/ SeatsGivenUp
         \/ \E s \in Sessions, c \in Capacities : Offered(s, c) \/ Resized(s, c)
         \/ \E r \in Requests : LetIn(r) \/ Seated(r)
<1> DEFINE Goal == \/ SeatsGivenUp
                   \/ \E s \in Sessions, c \in Capacities :
                        Offered(s, c) \/ Resized(s, c)
                   \/ \E r \in Requests : LetIn(r) \/ Seated(r)
<1> SUFFICES Goal
  OBVIOUS
<1> USE DEF Statements
<1>1. CASE UNCHANGED vars
  BY <1>1 DEF vars, SeatsGivenUp, NoneLetIn, Pending, Seats
<1>2. ASSUME roster' = roster, peak' = peak, NoneLetIn PROVE Goal
  BY <1>2 DEF SeatsGivenUp, Seats
<1>3. ASSUME NEW r \in Requests, Receive(r) PROVE Goal
  <2>1. NoneLetIn
    BY <1>3, EnterNotPending DEF Receive
  <2> QED
    BY <1>2, <1>3, <2>1 DEF Receive, Tables
<1>4. ASSUME NEW r \in Requests,
             Abort(r) \/ SessionCreate(r) \/ SessionView(r) \/ TrainingUpdate(r)
      PROVE  Goal
  <2>1. NoneLetIn
    BY <1>4, FinishNotPending, GotoNotPending
       DEF Abort, SessionCreate, SessionView, TrainingUpdate
  <2> QED
    BY <1>2, <1>4, <2>1
       DEF Abort, SessionCreate, SessionView, TrainingUpdate, Tables
<1>5. ASSUME NEW r \in Requests, SessionInsert(r) PROVE Goal
  <2>1. CASE Finish(r, "fk_error") /\ UNCHANGED <<session, peak>>
    BY <1>2, <1>5, <2>1, FinishNotPending DEF SessionInsert
  <2>2. ASSUME NEW s \in Sessions, NEW c \in Capacities,
               NEW started \in BOOLEAN, SessionInserted(r, s, c, started)
        PROVE  Goal
    <3> DEFINE row == [req[r] EXCEPT !.pc = "session_view", !.session = s]
    <3>1. req' = [req EXCEPT ![r] = row] /\ row.pc # "enroll_insert"
      BY <2>2 DEF SessionInserted, TypeOK, Request
    <3>2. NoneLetIn
      BY <3>1, NotPending
    <3>3. Offered(s, c)
      BY <1>5, <2>2, <3>2 DEF SessionInsert, SessionInserted, Offered
    <3> QED
      BY <3>3
  <2> QED
    BY <1>5, <2>1, <2>2 DEF SessionInsert
<1>6. ASSUME NEW r \in Requests, SessionUpdate(r) PROVE Goal
  <2>1. CASE /\ Finish(r, "refused") \/ Finish(r, "fk_error")
             /\ UNCHANGED <<session, peak>>
    BY <1>2, <1>6, <2>1, FinishNotPending DEF SessionUpdate
  <2>2. ASSUME NEW t \in Trainings, NEW c \in Capacities,
               NEW started \in BOOLEAN, SessionUpdated(r, t, c, started),
               LiveSession(req[r].session)
        PROVE  Goal
    <3>1. Resized(req[r].session, c)
      BY <1>6, <2>2, GotoNotPending
         DEF SessionUpdate, SessionUpdated, Resized
    <3> QED
      BY <2>2, <3>1 DEF LiveSession
  <2> QED
    BY <1>6, <2>1, <2>2 DEF SessionUpdate
<1>7. ASSUME NEW r \in Requests, SessionDelete(r) \/ TrainingDelete(r)
      PROVE  Goal
  <2>1. NoneLetIn /\ peak' = peak
    BY <1>7, FinishNotPending DEF SessionDelete, TrainingDelete
  <2>2. roster' = roster \/ \E S : DropSessions(S)
    BY <1>7 DEF SessionDelete, TrainingDelete
  <2>3. \A s \in Sessions : Seats(s)' \subseteq Seats(s)
    BY <2>2 DEF DropSessions, Seats, Empty
  <2> QED
    BY <2>1, <2>3 DEF SeatsGivenUp
<1>8. ASSUME NEW r \in Requests, TrainingCreate(r) PROVE Goal
  BY <1>2, <1>8, FinishNotPending DEF TrainingCreate
<1>9. ASSUME NEW r \in Requests, Enroll(r) PROVE Goal
  <2>1. CASE Finish(r, "refused") \/ Finish(r, "ok")
    BY <1>2, <1>9, <2>1, FinishNotPending DEF Enroll, Tables
  <2>2. CASE /\ LiveSession(req[r].session)
             /\ ~session[req[r].session].started /\ ~Full(req[r].session)
             /\ Goto(r, "enroll_insert")
    <3>1. LetIn(r)
      BY <1>9, <2>2 DEF Enroll, Tables, LetIn, Goto, Pending, TypeOK
    <3> QED
      BY <3>1
  <2> QED
    BY <1>9, <2>1, <2>2 DEF Enroll
<1>10. ASSUME NEW r \in Requests, EnrollInsert(r) PROVE Goal
  <2> DEFINE s == req[r].session
             u == req[r].user
  <2>1. CASE LiveSession(s) /\ u \in accounts
    <3>1. Seated(r)
      BY <1>10, <2>1, FinishNotPending
         DEF EnrollInsert, Seated, Pending, At, TypeOK
    <3> QED
      BY <3>1
  <2>2. CASE ~(LiveSession(s) /\ u \in accounts)
    BY <1>2, <1>10, <2>2, FinishNotPending DEF EnrollInsert
  <2> QED
    BY <2>1, <2>2
<1>11. ASSUME NEW r \in Requests, Cancel(r) PROVE Goal
  <2>1. NoneLetIn /\ peak' = peak
    BY <1>11, FinishNotPending DEF Cancel
  <2>2. \A s \in Sessions : Seats(s)' \subseteq Seats(s)
    BY <1>11 DEF Cancel, Seats, TypeOK
  <2> QED
    BY <2>1, <2>2 DEF SeatsGivenUp
<1>12. ASSUME NEW s \in Sessions, StartPasses(s) PROVE Goal
  BY <1>2, <1>12 DEF StartPasses, NoneLetIn, Pending
<1>13. ASSUME NEW u \in Users, EraseUser(u) PROVE Goal
  BY <1>13 DEF EraseUser, SeatsGivenUp, NoneLetIn, Pending, Seats
<1> QED
  BY <1>1, <1>3, <1>4, <1>5, <1>6, <1>7, <1>8, <1>9, <1>10, <1>11, <1>12,
     <1>13 DEF Next, Handle
-----------------------------------------------------------------------------
(* SeatBound is not inductive by itself: Enroll compares the count with the *)
(* capacity the session has now, SeatBound with the widest it ever had.     *)

PeakCovers == \A s \in Sessions : LiveSession(s) =>
  \/ peak[s] = NoLimit
  \/ session[s].cap # NoLimit /\ session[s].cap <= peak[s]

LEMMA CapacityNat == \A c \in Capacities \cup {NoLimit} : c \in Nat
<1>1. \A c \in Capacities : c \in Nat
  BY SchedulingAssumption
<1> QED
  BY <1>1 DEF NoLimit

LEMMA NextPeakCovers ==
  ASSUME TypeOK, PeakCovers, [Next]_vars PROVE PeakCovers'
<1> USE CapacityNat DEF NoLimit
<1>1. CASE UNCHANGED <<session, peak>>
  BY <1>1 DEF PeakCovers, LiveSession
<1>2. ASSUME NEW r \in Requests, SessionInsert(r) PROVE PeakCovers'
  <2>1. ASSUME NEW s \in Sessions, NEW c \in Capacities,
               NEW started \in BOOLEAN, SessionInserted(r, s, c, started)
        PROVE  PeakCovers'
    BY <2>1 DEF SessionInserted, PeakCovers, LiveSession, TypeOK
  <2> QED
    BY <1>1, <1>2, <2>1 DEF SessionInsert
<1>3. ASSUME NEW r \in Requests, SessionUpdate(r) PROVE PeakCovers'
  <2>1. ASSUME NEW t \in Trainings, NEW c \in Capacities,
               NEW started \in BOOLEAN, SessionUpdated(r, t, c, started)
        PROVE  PeakCovers'
    BY <2>1 DEF SessionUpdated, PeakCovers, LiveSession, Wider, TypeOK
  <2> QED
    BY <1>1, <1>3, <2>1 DEF SessionUpdate
<1>4. ASSUME NEW r \in Requests, SessionDelete(r) \/ TrainingDelete(r)
      PROVE  PeakCovers'
  BY <1>1, <1>4 DEF SessionDelete, TrainingDelete, DropSessions, PeakCovers,
                    LiveSession, NoRow, TypeOK
<1>5. ASSUME NEW s \in Sessions, StartPasses(s) PROVE PeakCovers'
  BY <1>5 DEF StartPasses, PeakCovers, LiveSession, TypeOK, SessionRow
<1> QED
  BY <1>1, <1>2, <1>3, <1>4, <1>5
     DEF Next, Handle, Receive, Abort, SessionCreate, SessionView,
         TrainingCreate, TrainingUpdate, Enroll, EnrollInsert, Cancel,
         EraseUser, vars, Tables

LEMMA Counts ==
  /\ Cardinality(Requests) \in Nat \ {0}
  /\ \A S \in SUBSET Users : IsFiniteSet(S) /\ Cardinality(S) \in Nat
  /\ \A R \in SUBSET Requests :
       /\ IsFiniteSet(R)
       /\ Cardinality(R) \in Nat
       /\ Cardinality(R) <= Cardinality(Requests)
<1>1. Cardinality(Requests) \in Nat \ {0}
  BY SchedulingAssumption, FS_CardinalityType, FS_EmptySet
<1>2. ASSUME NEW S \in SUBSET Users
      PROVE  IsFiniteSet(S) /\ Cardinality(S) \in Nat
  BY SchedulingAssumption, FS_Subset, FS_CardinalityType
<1>3. ASSUME NEW R \in SUBSET Requests
      PROVE  /\ IsFiniteSet(R)
             /\ Cardinality(R) \in Nat
             /\ Cardinality(R) <= Cardinality(Requests)
  BY SchedulingAssumption, FS_Subset, FS_CardinalityType
<1> QED
  BY <1>1, <1>2, <1>3

\* A session nobody is let into keeps its bound while its peak only widens.
LEMMA QuietBound ==
  ASSUME NEW s \in Sessions, SeatBound,
         Seats(s)' \subseteq Seats(s), Pending(s)' \subseteq Pending(s),
         peak[s] \in Nat, peak'[s] \in Nat,
         peak'[s] # NoLimit => peak[s] # NoLimit /\ peak[s] <= peak'[s],
         peak'[s] # NoLimit
  PROVE  Cardinality(Seats(s)') + Cardinality(Pending(s)')
           <= peak'[s] + Cardinality(Requests) - 1
<1>1. /\ Seats(s) \in SUBSET Users /\ Seats(s)' \in SUBSET Users
      /\ Pending(s) \in SUBSET Requests /\ Pending(s)' \in SUBSET Requests
  BY DEF Seats, Pending
<1>2. /\ Cardinality(Seats(s)') <= Cardinality(Seats(s))
      /\ Cardinality(Pending(s)') <= Cardinality(Pending(s))
  BY <1>1, Counts, FS_Subset
<1>3. Cardinality(Seats(s)) + Cardinality(Pending(s))
        <= peak[s] + Cardinality(Requests) - 1
  BY DEF SeatBound
<1> QED
  BY <1>1, <1>2, <1>3, Counts

LEMMA NextSeatBound ==
  ASSUME TypeOK, Integrity, PeakCovers, SeatBound, [Next]_vars
  PROVE  SeatBound'
<1> DEFINE N == Cardinality(Requests)
<1>1. SUFFICES ASSUME NEW s \in Sessions, peak'[s] # NoLimit
               PROVE  Cardinality(Seats(s)') + Cardinality(Pending(s)')
                        <= peak'[s] + N - 1
  BY DEF SeatBound
<1>2. /\ Seats(s) \in SUBSET Users /\ Seats(s)' \in SUBSET Users
      /\ Pending(s) \in SUBSET Requests /\ Pending(s)' \in SUBSET Requests
  BY DEF Seats, Pending
<1>3. peak[s] \in Nat /\ peak'[s] \in Nat
  <2>1. TypeOK'
    BY NextTypeOK
  <2>2. peak[s] \in Capacities \cup {NoLimit}
    BY DEF TypeOK
  <2>3. peak'[s] \in Capacities \cup {NoLimit}
    BY <2>1 DEF TypeOK
  <2> QED
    BY <2>2, <2>3, CapacityNat
<1>4. CASE SeatsGivenUp
  BY <1>1, <1>3, <1>4, QuietBound DEF SeatsGivenUp, NoneLetIn
<1>5. ASSUME NEW t \in Sessions, NEW c \in Capacities, Offered(t, c)
      PROVE  Cardinality(Seats(s)') + Cardinality(Pending(s)')
               <= peak'[s] + N - 1
  <2>1. Seats(s)' = Seats(s) /\ Pending(s)' \subseteq Pending(s)
    BY <1>5 DEF Offered, Seats, NoneLetIn
  <2>2. CASE t = s
    <3>1. Seats(s)' = {}
      BY <1>5, <2>1, <2>2
         DEF Offered, Integrity, LiveSession, Seats, TypeOK
    <3>2. Cardinality(Seats(s)') = 0
      BY <3>1, FS_EmptySet
    <3> QED
      BY <1>1, <1>2, <1>3, <3>2, Counts DEF NoLimit
  <2>3. CASE t # s
    BY <1>1, <1>3, <1>5, <2>1, <2>3, QuietBound DEF Offered, TypeOK
  <2> QED
    BY <2>2, <2>3
<1>6. ASSUME NEW t \in Sessions, NEW c \in Capacities, Resized(t, c)
      PROVE  Cardinality(Seats(s)') + Cardinality(Pending(s)')
               <= peak'[s] + N - 1
  <2>1. Seats(s)' = Seats(s) /\ Pending(s)' \subseteq Pending(s)
    BY <1>6 DEF Resized, Seats, NoneLetIn
  <2>2. peak[s] # NoLimit /\ peak[s] <= peak'[s]
    BY <1>1, <1>3, <1>6 DEF Resized, Wider, TypeOK
  <2> QED
    BY <1>1, <1>3, <2>1, <2>2, QuietBound
<1>7. ASSUME NEW r \in Requests, LetIn(r)
      PROVE  Cardinality(Seats(s)') + Cardinality(Pending(s)')
               <= peak'[s] + N - 1
  <2>1. Seats(s)' = Seats(s) /\ peak' = peak
    BY <1>7 DEF LetIn, Seats
  <2>2. CASE req[r].session = s
    <3>1. session[s].cap # NoLimit /\ session[s].cap <= peak[s]
      BY <1>1, <1>7, <2>1, <2>2 DEF LetIn, PeakCovers
    <3>2. session[s].cap \in Nat
      <4>1. session[s].cap \in Capacities \cup {NoLimit}
        BY DEF TypeOK, SessionRow
      <4> QED
        BY <4>1, CapacityNat
    <3>3. ~(Cardinality(Seats(s)) >= session[s].cap)
      BY <1>7, <2>2, <3>1 DEF LetIn, Full
    <3> QED
      BY <1>2, <1>3, <2>1, <3>1, <3>2, <3>3, Counts
  <2>3. CASE req[r].session # s
    BY <1>1, <1>3, <1>7, <2>1, <2>3, QuietBound DEF LetIn
  <2> QED
    BY <2>2, <2>3
<1>8. ASSUME NEW r \in Requests, Seated(r)
      PROVE  Cardinality(Seats(s)') + Cardinality(Pending(s)')
               <= peak'[s] + N - 1
  <2> DEFINE u == req[r].user
  <2>1. peak' = peak /\ Pending(s)' \subseteq Pending(s) \ {r}
    BY <1>8 DEF Seated
  <2>2. CASE req[r].session = s
    <3>1. r \in Pending(s) /\ Seats(s)' \subseteq Seats(s) \cup {u}
      BY <1>8, <2>2 DEF Seated, Seats, TypeOK
    <3>2. /\ Seats(s) \cup {u} \in SUBSET Users
          /\ Pending(s) \ {r} \in SUBSET Requests
      BY <1>2, <1>8 DEF Seated
    <3>3. Cardinality(Seats(s)') <= Cardinality(Seats(s)) + 1
      <4>1. Cardinality(Seats(s) \cup {u}) <= Cardinality(Seats(s)) + 1
        <5>1. IsFiniteSet(Seats(s)) /\ Cardinality(Seats(s)) \in Nat
          BY <1>2, Counts
        <5>2. Cardinality(Seats(s) \cup {u}) =
                IF u \in Seats(s) THEN Cardinality(Seats(s))
                                  ELSE Cardinality(Seats(s)) + 1
          BY <5>1, FS_AddElement
        <5> QED
          BY <5>1, <5>2
      <4>2. Cardinality(Seats(s)') <= Cardinality(Seats(s) \cup {u})
        BY <3>1, <3>2, Counts, FS_Subset
      <4> QED
        BY <1>2, <3>2, <4>1, <4>2, Counts
    <3>4. Cardinality(Pending(s)') <= Cardinality(Pending(s)) - 1
      <4>1. Cardinality(Pending(s) \ {r}) = Cardinality(Pending(s)) - 1
        BY <1>2, <3>1, Counts, FS_RemoveElement
      <4>2. Cardinality(Pending(s)') <= Cardinality(Pending(s) \ {r})
        BY <2>1, <3>2, Counts, FS_Subset
      <4> QED
        BY <4>1, <4>2
    <3>5. Cardinality(Seats(s)) + Cardinality(Pending(s)) <= peak[s] + N - 1
      BY <1>1, <2>1 DEF SeatBound
    <3> QED
      BY <1>2, <1>3, <2>1, <3>3, <3>4, <3>5, Counts
  <2>3. CASE req[r].session # s
    <3>1. Seats(s)' \subseteq Seats(s)
      BY <1>8, <2>3 DEF Seated, Seats, TypeOK
    <3> QED
      BY <1>1, <1>3, <2>1, <3>1, QuietBound
  <2> QED
    BY <2>2, <2>3
<1> QED
  BY <1>4, <1>5, <1>6, <1>7, <1>8, StepShape

\* The inductive invariant.
IInv == TypeOK /\ Integrity /\ PeakCovers /\ SeatBound

THEOREM Inductive == Spec => []IInv
<1>1. Init => IInv
  <2> SUFFICES ASSUME Init PROVE IInv
    OBVIOUS
  <2>1. Integrity /\ PeakCovers
    BY DEF Init, Integrity, PeakCovers, LiveSession, NoRow
  <2>2. SeatBound
    BY DEF Init, SeatBound
  <2> QED
    BY <2>1, <2>2, InitTypeOK DEF IInv
<1>2. IInv /\ [Next]_vars => IInv'
  BY NextTypeOK, NextIntegrity, NextPeakCovers, NextSeatBound DEF IInv
<1> QED
  BY <1>1, <1>2, PTL DEF Spec

\* However many requests the server handles at once, a session is oversold by
\* less than that number over the widest capacity it was ever given: the gap
\* between the count and the INSERT of enroll costs no more than that.
THEOREM SeatsBounded == Spec => []SeatBound
  BY Inductive, PTL DEF IInv
-----------------------------------------------------------------------------
(* The seat book.                                                           *)

\* What a step does to the seats, as the book sees it.
SeatMap == [s \in Sessions |-> Seats(s)]

\* The book counts as the program does.
LEMMA SameCount ==
  ASSUME NEW S PROVE Book!Cardinality(S) = Cardinality(S)
  BY Zenon DEF Book!Cardinality, Cardinality

LEMMA BookStep ==
  ASSUME TypeOK, Integrity, SeatBound, [Next]_vars
  PROVE  Book!BookNext \/ UNCHANGED Book!bookVars
<1> DEFINE Slack == Cardinality(Requests) - 1
<1>1. CASE SeatsGivenUp
  <2>1. /\ SeatMap' \in [Sessions -> SUBSET Users]
        /\ \A s \in Sessions : SeatMap'[s] \subseteq SeatMap[s]
    BY <1>1 DEF SeatsGivenUp, SeatMap, Seats
  <2>2. Book!Release
    BY <1>1, <2>1 DEF Book!Release, SeatsGivenUp, SeatMap
  <2> QED
    BY <2>2 DEF Book!BookNext
<1>2. ASSUME NEW s \in Sessions, NEW c \in Capacities, Offered(s, c)
      PROVE  Book!BookNext
  <2>1. SeatMap[s] = {} /\ SeatMap' = SeatMap
    BY <1>2 DEF Offered, Integrity, LiveSession, SeatMap, Seats
  <2>2. Book!Offer(s, c)
    BY <1>2, <2>1 DEF Book!Offer, Offered, SeatMap
  <2> QED
    BY <2>2 DEF Book!BookNext
<1>3. ASSUME NEW s \in Sessions, NEW c \in Capacities, Resized(s, c)
      PROVE  Book!BookNext
  <2>1. SeatMap' = SeatMap
    BY <1>3 DEF Resized, SeatMap, Seats
  <2>2. Book!Resize(s, c)
    BY <1>3, <2>1 DEF Book!Resize, Book!Wider, Book!NoLimit, Wider, NoLimit,
                      Resized, SeatMap
  <2> QED
    BY <2>2 DEF Book!BookNext
<1>4. ASSUME NEW r \in Requests, LetIn(r)
      PROVE  UNCHANGED Book!bookVars
  BY <1>4 DEF LetIn, Book!bookVars, Seats
<1>5. ASSUME NEW r \in Requests, Seated(r)
      PROVE  Book!BookNext \/ UNCHANGED Book!bookVars
  <2> DEFINE s == req[r].session
             u == req[r].user
  <2>1. s \in Sessions /\ u \in Users /\ peak' = peak
    BY <1>5 DEF Seated, LiveSession
  <2>2. \A x \in Sessions :
          Seats(x)' = IF x = s THEN Seats(x) \cup {u} ELSE Seats(x)
    <3>1. \A x \in Sessions, v \in Users :
            roster'[x][v] = IF x = s /\ v = u THEN "enrolled" ELSE roster[x][v]
      BY <1>5, <2>1 DEF Seated, TypeOK
    <3> QED
      BY <2>1, <3>1 DEF Seats
  <2>3. CASE u \in Seats(s)
    <3>1. SeatMap' = SeatMap
      <4>1. \A x \in Sessions : Seats(x)' = Seats(x)
        BY <2>2, <2>3
      <4> QED
        BY <4>1 DEF SeatMap
    <3> QED
      BY <2>1, <3>1 DEF Book!bookVars, SeatMap
  <2>4. CASE u \notin Seats(s)
    <3>1. peak[s] # NoLimit => Cardinality(Seats(s)) < peak[s] + Slack
      <4>1. /\ Seats(s) \in SUBSET Users
            /\ Pending(s) \in SUBSET Requests /\ Pending(s) # {}
        BY <1>5 DEF Seated, Seats, Pending
      <4>2. Cardinality(Pending(s)) >= 1
        BY <4>1, Counts, FS_EmptySet
      <4>3. peak[s] \in Nat
        <5>1. peak[s] \in Capacities \cup {NoLimit}
          BY <2>1 DEF TypeOK
        <5> QED
          BY <5>1, CapacityNat
      <4> QED
        BY <2>1, <4>1, <4>2, <4>3, Counts DEF SeatBound
    <3>2. SeatMap' = [SeatMap EXCEPT ![s] = @ \cup {u}]
      BY <2>1, <2>2 DEF SeatMap
    <3>3. SeatMap[s] = Seats(s)
      BY <2>1 DEF SeatMap
    <3>4. Book!Admit(s, u)
      BY <2>1, <2>4, <3>1, <3>2, <3>3, SameCount
         DEF Book!Admit, Book!HasRoom, Book!NoLimit, NoLimit, SeatMap
    <3> QED
      BY <2>1, <3>4 DEF Book!BookNext
  <2> QED
    BY <2>3, <2>4
<1> QED
  BY <1>1, <1>2, <1>3, <1>4, <1>5, StepShape

\* Whatever the handlers do with trainings, sessions and enrollments, taken
\* together they keep a seat book in which at most |Requests| - 1 seats are
\* handed out past the capacity.
THEOREM Refinement == Spec => ImplementsSeatBook
<1>1. Init => Book!BookInit
  BY DEF Init, Book!BookInit, Book!NoLimit, NoLimit, Seats
<1>2. IInv /\ [Next]_vars => [Book!BookNext]_(Book!bookVars)
  BY BookStep DEF IInv
<1> QED
  BY <1>1, <1>2, Inductive, PTL DEF Spec, ImplementsSeatBook, Book!BookSpec

\* After a session has filled up or started nobody new gets past the checks
\* of enroll, and a seat goes only to a request that already was.
THEOREM Closed == Spec => ClosedToNewcomers
<1> DEFINE Step == \A s \in Sessions :
      session[s].started \/ Full(s) =>
        /\ Pending(s)' \subseteq Pending(s)
        /\ Seats(s)' \ Seats(s) \subseteq {req[r].user : r \in Pending(s)}
<1>1. IInv /\ [Next]_vars => Step
  <2> SUFFICES ASSUME TypeOK, [Next]_vars, NEW s \in Sessions,
                      session[s].started \/ Full(s)
               PROVE  /\ Pending(s)' \subseteq Pending(s)
                      /\ Seats(s)' \ Seats(s)
                           \subseteq {req[r].user : r \in Pending(s)}
    BY DEF IInv
  <2>1. CASE SeatsGivenUp
    BY <2>1 DEF SeatsGivenUp, NoneLetIn
  <2>2. ASSUME NEW t \in Sessions, NEW c \in Capacities,
               Offered(t, c) \/ Resized(t, c)
        PROVE  Pending(s)' \subseteq Pending(s) /\ Seats(s)' = Seats(s)
    BY <2>2 DEF Offered, Resized, NoneLetIn, Seats
  <2>3. ASSUME NEW r \in Requests, LetIn(r)
        PROVE  Pending(s)' \subseteq Pending(s) /\ Seats(s)' = Seats(s)
    BY <2>3 DEF LetIn, Seats
  <2>4. ASSUME NEW r \in Requests, Seated(r)
        PROVE  /\ Pending(s)' \subseteq Pending(s)
               /\ Seats(s)' \ Seats(s)
                    \subseteq {req[q].user : q \in Pending(s)}
    BY <2>4 DEF Seated, Seats, TypeOK
  <2> QED
    BY <2>1, <2>2, <2>3, <2>4, StepShape
<1>2. IInv /\ [Next]_vars => [Step]_vars
  BY <1>1
<1> QED
  BY <1>2, Inductive, PTL DEF Spec, ClosedToNewcomers

\* Nobody loses a seat but by a cancel request of their own, or with the
\* session or their account.
THEOREM SeatsStay == Spec => SeatKept
<1> DEFINE Step == \A s \in Sessions : \A u \in Seats(s) :
             \/ u \in Seats(s)'
             \/ u \notin accounts'
             \/ ~LiveSession(s)'
             \/ \E r \in Requests : /\ req[r].pc = "cancel"
                                    /\ req[r].user = u
                                    /\ req[r].session = s
                                    /\ req'[r].reply = "ok"
<1>1. TypeOK /\ [Next]_vars => [Step]_vars
  <2> SUFFICES ASSUME TypeOK, Next, NEW s \in Sessions, NEW u \in Seats(s),
                      u \notin Seats(s)'
               PROVE  \/ u \notin accounts'
                      \/ ~LiveSession(s)'
                      \/ \E r \in Requests : /\ req[r].pc = "cancel"
                                             /\ req[r].user = u
                                             /\ req[r].session = s
                                             /\ req'[r].reply = "ok"
    OBVIOUS
  <2>0. roster'[s][u] # roster[s][u] /\ roster[s][u] = "enrolled" /\ u \in Users
    BY DEF Seats
  <2>1. ASSUME NEW S, DropSessions(S)  PROVE ~LiveSession(s)'
    <3>1. s \in S
      BY <2>0, <2>1 DEF DropSessions
    <3> QED BY <2>1, <3>1 DEF DropSessions, LiveSession, NoRow
  <2>2. ASSUME NEW r \in Requests, EnrollInsert(r)  PROVE FALSE
    <3>1. roster' = [roster EXCEPT ![req[r].session][req[r].user] = "enrolled"]
      BY <2>0, <2>2 DEF EnrollInsert
    <3>2. roster'[s][u] = "enrolled" \/ roster'[s][u] = roster[s][u]
      BY <3>1 DEF TypeOK
    <3> QED BY <2>0, <3>2
  <2>3. ASSUME NEW r \in Requests, Cancel(r)
        PROVE  /\ req[r].pc = "cancel" /\ req[r].user = u
               /\ req[r].session = s /\ req'[r].reply = "ok"
    <3>1. /\ roster' = [roster EXCEPT ![req[r].session][req[r].user] = "cancelled"]
          /\ Finish(r, "ok") /\ At(r, "cancel")
      BY <2>0, <2>3 DEF Cancel
    <3>2. req[r].session = s /\ req[r].user = u
      BY <2>0, <3>1 DEF TypeOK
    <3> QED BY <3>1, <3>2 DEF Finish, Idle, At, TypeOK
  <2>4. ASSUME NEW v \in Users, EraseUser(v)  PROVE u \notin accounts'
    BY <2>0, <2>4 DEF EraseUser
  <2>5. ASSUME NEW r \in Requests, SessionDelete(r) \/ TrainingDelete(r)
        PROVE  ~LiveSession(s)'
    BY <2>0, <2>1, <2>5 DEF SessionDelete, TrainingDelete
  <2>6. \/ UNCHANGED roster
        \/ \E r \in Requests : \/ EnrollInsert(r) \/ Cancel(r)
                               \/ SessionDelete(r) \/ TrainingDelete(r)
        \/ \E v \in Users : EraseUser(v)
    BY DEF Next, Handle, Receive, Abort, SessionCreate, SessionInsert,
           SessionUpdate, SessionView, TrainingCreate, TrainingUpdate, Enroll,
           StartPasses, Tables
  <2> QED BY <2>0, <2>2, <2>3, <2>4, <2>5, <2>6
<1> QED
  BY <1>1, TypeCorrect, PTL DEF Spec, SeatKept
=============================================================================
