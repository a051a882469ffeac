----------------------------- MODULE Scheduling -----------------------------
(***************************************************************************)
(* Trainings, their scheduled sessions and the seats people take in them:  *)
(* the handlers of routes/sessions.rs and routes/trainings.rs over the     *)
(* tables trainings, training_sessions and session_enrollments.            *)
(*                                                                         *)
(* Every handler is an async function that runs one SQL statement after    *)
(* another on a pooled connection, each in a transaction of its own, so a  *)
(* statement is one step and the statements of different requests          *)
(* interleave freely.  What a handler keeps between two statements is its  *)
(* row of req.  Rows are named by ids that are never used again, so an id  *)
(* is "unborn", then "live", then "gone" for good.                         *)
(***************************************************************************)
EXTENDS Naturals, FiniteSets

CONSTANTS Users,      \* account ids
          Managers,   \* the accounts whose role is admin or manager
          Trainings,  \* training ids
          Sessions,   \* training_sessions ids
          Requests,   \* requests the server can work on at the same time
          Capacities, \* capacities a manager may type in; 0 stands for none
          None        \* an empty column

ASSUME SchedulingAssumption ==
  /\ IsFiniteSet(Users) /\ Managers \subseteq Users
  /\ IsFiniteSet(Requests) /\ Requests # {}
  /\ Capacities \subseteq Nat
  /\ None \notin Users \cup Trainings \cup Sessions

VARIABLES accounts,   \* the accounts that still exist
          training,   \* training[t]: the life of the row t
          session,    \* session[s]: the row s of training_sessions
          roster,     \* roster[s][u]: the status of the enrollment (s, u)
          req,        \* req[r]: the handler working on r, the last reply
          peak        \* history: the widest capacity s was ever stored with

vars == <<accounts, training, session, roster, req, peak>>

\* NULL in training_sessions.capacity.  A stored capacity is at least 1.
NoLimit == 0

Life == {"unborn", "live", "gone"}

\* No enrollment row, or its status.  No statement of the program writes
\* 'attended', the third status the table admits.
Status == {"none", "enrolled", "cancelled"}

\* A row of training_sessions.  started says whether starts_at <= now.
SessionRow == [life : Life, training : Trainings \cup {None},
               cap : Capacities \cup {NoLimit}, started : BOOLEAN]

\* Seeded fault: a session that is gone keeps no life.
NoRowDead(life) == [life |-> None, training |-> None, cap |-> NoLimit,
                    started |-> FALSE]

NoRow(life) == [life |-> life, training |-> None, cap |-> NoLimit,
                started |-> FALSE]

\* The statement a request is about to run, named after its handler.
Statements == {"session_create", "session_insert", "session_update",
               "session_view", "session_delete",
               "training_create", "training_update", "training_delete",
               "enroll", "enroll_insert", "cancel"}

\* How the last request ended: no answer worth the name (not finished, or
\* aborted), 2xx, 4xx, or the 500 that error.rs makes of a foreign key error.
Replies == {"none", "ok", "refused", "fk_error"}

Request == [pc : Statements \cup {"idle"}, user : Users \cup {None},
            session : Sessions \cup {None}, training : Trainings \cup {None},
            reply : Replies]

Idle(reply) == [pc |-> "idle", user |-> None, session |-> None,
                training |-> None, reply |-> reply]

TypeOK == /\ accounts \subseteq Users
          /\ training \in [Trainings -> Life]
          /\ session \in [Sessions -> SessionRow]
          /\ roster \in [Sessions -> [Users -> Status]]
          /\ req \in [Requests -> Request]
          /\ peak \in [Sessions -> Capacities \cup {NoLimit}]

Init == /\ accounts = Users
        /\ training = [t \in Trainings |-> "unborn"]
        /\ session = [s \in Sessions |-> NoRow("unborn")]
        /\ roster = [s \in Sessions |-> [u \in Users |-> "none"]]
        /\ req = [r \in Requests |-> Idle("none")]
        /\ peak = [s \in Sessions |-> NoLimit]
-----------------------------------------------------------------------------
\* The users holding a seat, as enrolled_count counts them.
Seats(s) == {u \in Users : roster[s][u] = "enrolled"}

\* Requests that found room in s and have not inserted their row yet.
Pending(s) == {r \in Requests : /\ req[r].pc = "enroll_insert"
                                /\ req[r].session = s}

LiveSession(s) == s \in Sessions /\ session[s].life = "live"
LiveTraining(t) == t \in Trainings /\ training[t] = "live"

At(r, pc) == req[r].pc = pc
Goto(r, pc) == req' = [req EXCEPT ![r].pc = pc]
Finish(r, reply) == req' = [req EXCEPT ![r] = Idle(reply)]

\* The middleware has resolved the caller and the handler is entered: what
\* AuthUser says is a copy that nothing revises later.
Enter(r, pc, u, s, t) ==
  req' = [req EXCEPT ![r] = [pc |-> pc, user |-> u, session |-> s,
                             training |-> t, reply |-> "none"]]

Tables == <<accounts, training, session, roster, peak>>

\* Bound: a request for a new row is received only while an id is left for it.
SessionIdLeft ==
  Cardinality({r \in Requests : req[r].pc \in {"session_create",
                                               "session_insert"}})
    < Cardinality({s \in Sessions : session[s].life = "unborn"})

TrainingIdLeft ==
  Cardinality({r \in Requests : req[r].pc = "training_create"})
    < Cardinality({t \in Trainings : training[t] = "unborn"})

\* Any user may enroll and cancel; everything else asks for a manager.
Receive(r) ==
  /\ At(r, "idle")
  /\ \E u \in accounts :
       \/ \E pc \in {"enroll", "cancel"}, s \in Sessions :
            Enter(r, pc, u, s, None)
       \/ /\ u \in Managers
          /\ \/ \E pc \in {"session_update", "session_delete"},
                   s \in Sessions : Enter(r, pc, u, s, None)
             \/ \E pc \in {"training_update", "training_delete"},
                   t \in Trainings : Enter(r, pc, u, None, t)
             \/ /\ SessionIdLeft
                /\ \E t \in Trainings : Enter(r, "session_create", u, None, t)
             \/ TrainingIdLeft /\ Enter(r, "training_create", u, None, None)
  /\ UNCHANGED Tables

\* The handler's future is dropped, or its statement fails: no connection
\* within the pool's 5 seconds, a lost database.  Statements that have
\* already run stay.
Abort(r) == ~At(r, "idle") /\ Finish(r, "none") /\ UNCHANGED Tables
-----------------------------------------------------------------------------
(* POST /api/sessions: look the training up, insert, read back.            *)

SessionCreate(r) ==
  /\ At(r, "session_create")
  /\ IF LiveTraining(req[r].training) THEN Goto(r, "session_insert")
                                      ELSE Finish(r, "refused")
  /\ UNCHANGED Tables

\* The body's capacity and times are stored as they come: a start in the
\* past is accepted.
SessionInserted(r, s, c, started) ==
  /\ session[s].life = "unborn"
  /\ session' = [session EXCEPT ![s] =
       [life |-> "live", training |-> req[r].training, cap |-> c,
        started |-> started]]
  /\ peak' = [peak EXCEPT ![s] = c]
  /\ req' = [req EXCEPT ![r] = [@ EXCEPT !.pc = "session_view",
                                          !.session = s]]

\* training_id and created_by are foreign keys.
SessionInsert(r) ==
  /\ At(r, "session_insert")
  /\ IF LiveTraining(req[r].training) /\ req[r].user \in accounts
     THEN \E s \in Sessions, c \in Capacities, started \in BOOLEAN :
            SessionInserted(r, s, c, started)
     ELSE Finish(r, "fk_error") /\ UNCHANGED <<session, peak>>
  /\ UNCHANGED <<accounts, training, roster>>

\* The row is read back for the answer; by now it may have been deleted.
SessionView(r) ==
  /\ At(r, "session_view")
  /\ Finish(r, IF LiveSession(req[r].session) THEN "ok" ELSE "refused")
  /\ UNCHANGED Tables

(* PUT /api/sessions/:id overwrites training, times and capacity without   *)
(* a look at the training or at the seats already taken.                   *)

Wider(c, d) == IF c = NoLimit \/ d = NoLimit THEN NoLimit
               ELSE IF c >= d THEN c ELSE d

SessionUpdated(r, t, c, started) ==
  LET s == req[r].session IN
  /\ session' = [session EXCEPT ![s] =
       [life |-> "live", training |-> t, cap |-> c, started |-> started]]
  /\ peak' = [peak EXCEPT ![s] = Wider(@, c)]
  /\ Goto(r, "session_view")

SessionUpdate(r) ==
  /\ At(r, "session_update")
  /\ \/ /\ ~LiveSession(req[r].session)
        /\ Finish(r, "refused")
        /\ UNCHANGED <<session, peak>>
     \/ /\ LiveSession(req[r].session)
        /\ \E t \in Trainings :
             IF LiveTraining(t)
             THEN \E c \in Capacities, started \in BOOLEAN :
                    SessionUpdated(r, t, c, started)
             ELSE Finish(r, "fk_error") /\ UNCHANGED <<session, peak>>
  /\ UNCHANGED <<accounts, training, roster>>

(* A deleted row takes along the rows whose foreign keys cascade.          *)

Empty == [u \in Users |-> "none"]

\* Seeded fault: the enrollments do not cascade.
DropSessionsOnly(S) ==
  /\ session' = [s \in Sessions |-> IF s \in S THEN NoRow("gone")
                                              ELSE session[s]]
  /\ UNCHANGED roster

DropSessions(S) ==
  /\ session' = [s \in Sessions |-> IF s \in S THEN NoRow("gone")
                                              ELSE session[s]]
  /\ roster' = [s \in Sessions |-> IF s \in S THEN Empty ELSE roster[s]]

SessionDelete(r) ==
  /\ At(r, "session_delete")
  /\ IF LiveSession(req[r].session)
     THEN DropSessions({req[r].session}) /\ Finish(r, "ok")
     ELSE Finish(r, "refused") /\ UNCHANGED <<session, roster>>
  /\ UNCHANGED <<accounts, training, peak>>

\* created_by is a foreign key here too.
TrainingCreate(r) ==
  /\ At(r, "training_create")
  /\ IF req[r].user \in accounts
     THEN \E t \in Trainings : /\ training[t] = "unborn"
                               /\ training' = [training EXCEPT ![t] = "live"]
                               /\ Finish(r, "ok")
     ELSE Finish(r, "fk_error") /\ UNCHANGED training
  /\ UNCHANGED <<accounts, session, roster, peak>>

\* Title, description and duration are not modelled.
TrainingUpdate(r) ==
  /\ At(r, "training_update")
  /\ Finish(r, IF LiveTraining(req[r].training) THEN "ok" ELSE "refused")
  /\ UNCHANGED Tables

SessionsOf(t) == {s \in Sessions : LiveSession(s) /\ session[s].training = t}

TrainingDelete(r) ==
  /\ At(r, "training_delete")
  /\ LET t == req[r].training IN
     IF LiveTraining(t)
     THEN /\ training' = [training EXCEPT ![t] = "gone"]
          /\ DropSessions(SessionsOf(t))
          /\ Finish(r, "ok")
     ELSE Finish(r, "refused") /\ UNCHANGED <<training, session, roster>>
  /\ UNCHANGED <<accounts, peak>>

(* POST /api/sessions/:id/enroll: one SELECT, decisions in the server, an  *)
(* upsert.  Nothing holds the session or the count still in between.       *)

\* Seeded fault: one seat too many counts as room.
FullOffByOne(s) == session[s].cap # NoLimit
                   /\ Cardinality(Seats(s)) > session[s].cap

Full(s) == session[s].cap # NoLimit /\ Cardinality(Seats(s)) >= session[s].cap

\* Seeded fault: the start time is not looked at.
EnrollLate(r) ==
  LET s == req[r].session
      enrolled == roster[s][req[r].user] = "enrolled"
  IN /\ At(r, "enroll")
     /\ \/ ~LiveSession(s) /\ Finish(r, "refused")
        \/ LiveSession(s) /\ enrolled /\ Finish(r, "ok")
        \/ LiveSession(s) /\ ~enrolled /\ Full(s) /\ Finish(r, "refused")
        \/ LiveSession(s) /\ ~enrolled /\ ~Full(s) /\ Goto(r, "enroll_insert")
     /\ UNCHANGED Tables

\* Seeded fault: the count is not looked at.
EnrollUncounted(r) ==
  LET s == req[r].session
      enrolled == roster[s][req[r].user] = "enrolled"
  IN /\ At(r, "enroll")
     /\ \/ ~LiveSession(s) /\ Finish(r, "refused")
        \/ LiveSession(s) /\ enrolled /\ Finish(r, "ok")
        \/ /\ LiveSession(s) /\ ~enrolled
           /\ IF session[s].started THEN Finish(r, "refused")
                                    ELSE Goto(r, "enroll_insert")
     /\ UNCHANGED Tables

Enroll(r) ==
  LET s == req[r].session
      enrolled == roster[s][req[r].user] = "enrolled"
  IN /\ At(r, "enroll")
     /\ \/ ~LiveSession(s) /\ Finish(r, "refused")
        \/ LiveSession(s) /\ enrolled /\ Finish(r, "ok")
        \/ /\ LiveSession(s) /\ ~enrolled
           /\ session[s].started \/ Full(s)
           /\ Finish(r, "refused")
        \/ /\ LiveSession(s) /\ ~enrolled
           /\ ~session[s].started /\ ~Full(s)
           /\ Goto(r, "enroll_insert")
     /\ UNCHANGED Tables

\* INSERT ... ON CONFLICT DO UPDATE: whatever the row says, or if there is
\* none, it says 'enrolled' afterwards.
EnrollInsert(r) ==
  /\ At(r, "enroll_insert")
  /\ LET s == req[r].session
         u == req[r].user
     IN IF LiveSession(s) /\ u \in accounts
        THEN roster' = [roster EXCEPT ![s][u] = "enrolled"] /\ Finish(r, "ok")
        ELSE Finish(r, "fk_error") /\ UNCHANGED roster
  /\ UNCHANGED <<accounts, training, session, peak>>

\* Seeded fault: the UPDATE forgets "AND user_id = $2".
CancelEverybody(r) ==
  /\ At(r, "cancel")
  /\ LET s == req[r].session IN
     IF Seats(s) # {}
     THEN /\ roster' = [roster EXCEPT ![s] =
               [u \in Users |-> IF u \in Seats(s) THEN "cancelled"
                                                  ELSE roster[s][u]]]
          /\ Finish(r, "ok")
     ELSE Finish(r, "refused") /\ UNCHANGED roster
  /\ UNCHANGED <<accounts, training, session, peak>>

\* POST /api/sessions/:id/cancel: allowed at any time, the caller's row only.
Cancel(r) ==
  /\ At(r, "cancel")
  /\ LET s == req[r].session
         u == req[r].user
     IN IF roster[s][u] = "enrolled"
        THEN roster' = [roster EXCEPT ![s][u] = "cancelled"] /\ Finish(r, "ok")
        ELSE Finish(r, "refused") /\ UNCHANGED roster
  /\ UNCHANGED <<accounts, training, session, peak>>
-----------------------------------------------------------------------------
\* starts_at passes while nobody looks.
StartPasses(s) ==
  /\ LiveSession(s) /\ ~session[s].started
  /\ session' = [session EXCEPT ![s].started = TRUE]
  /\ UNCHANGED <<accounts, training, roster, req, peak>>

\* DELETE /api/users/:id reaches its last statement.  The enrollments of u
\* cascade; what u created keeps standing without an author.
EraseUser(u) ==
  /\ u \in accounts
  /\ accounts' = accounts \ {u}
  /\ roster' = [s \in Sessions |-> [v \in Users |->
                  IF v = u THEN "none" ELSE roster[s][v]]]
  /\ UNCHANGED <<training, session, req, peak>>

Handle(r) == \/ SessionCreate(r) \/ SessionInsert(r) \/ SessionUpdate(r)
             \/ SessionView(r) \/ SessionDelete(r)
             \/ TrainingCreate(r) \/ TrainingUpdate(r) \/ TrainingDelete(r)
             \/ Enroll(r) \/ EnrollInsert(r) \/ Cancel(r)

Next == \/ \E r \in Requests : Receive(r) \/ Handle(r) \/ Abort(r)
        \/ \E s \in Sessions : StartPasses(s)
        \/ \E u \in Users : EraseUser(u)

Spec == Init /\ [][Next]_vars

\* The runtime polls every ready handler.
FairSpec == Spec /\ \A r \in Requests : WF_vars(Handle(r))
-----------------------------------------------------------------------------
(* Properties.                                                             *)

\* However the statements of handlers, deletions of sessions and trainings
\* and erasures of accounts interleave, no enrollment outlives its session or
\* its user, and no session its training: a row inserted by a request that
\* was already under way does not bring an erased user's data back
\* (sessions.rs:265-274 against users.rs:103-106 and the cascades of init.sql).
Integrity ==
  /\ \A s \in Sessions :
       LiveSession(s) => LiveTraining(session[s].training)
  /\ \A s \in Sessions, u \in Users :
       roster[s][u] # "none" => LiveSession(s) /\ u \in accounts

\* A session is oversold by no more than the requests the server handles at
\* the same time, less one: those that found room before the last seat went
\* (the count and the INSERT of enroll are two statements, sessions.rs:237-274).
\* Requests that found room count as seats already.
SeatBound == \A s \in Sessions :
  peak[s] # NoLimit =>
    Cardinality(Seats(s)) + Cardinality(Pending(s))
      <= peak[s] + Cardinality(Requests) - 1

\* From the moment a session is full or has started nobody new gets through
\* the checks of enroll: a seat goes only to a request that was already past
\* them (sessions.rs:253-263).
ClosedToNewcomers ==
  [][\A s \in Sessions :
       session[s].started \/ Full(s) =>
         /\ Pending(s)' \subseteq Pending(s)
         /\ Seats(s)' \ Seats(s) \subseteq {req[r].user : r \in Pending(s)}]_vars

\* A seat is lost only to its holder's own cancel request or with its session
\* or its holder's account: not to another user's request, a lowered
\* capacity, a moved start or a second enrollment (sessions.rs:265-269, 285-292).
SeatKept ==
  [][\A s \in Sessions : \A u \in Seats(s) :
       \/ u \in Seats(s)'
       \/ u \notin accounts'
       \/ ~LiveSession(s)'
       \/ \E r \in Requests : /\ req[r].pc = "cancel"
                              /\ req[r].user = u
                              /\ req[r].session = s
                              /\ req'[r].reply = "ok"]_vars

\* README.md:110, "enroll the current user (capacity- and time-checked)": a
\* seat is handed out only within the capacity the session has.
AdmitsWithinCapacity ==
  [][\A s \in Sessions :
       ~(Seats(s)' \subseteq Seats(s)) /\ session[s].cap # NoLimit =>
         Cardinality(Seats(s)') <= session[s].cap]_vars

\* Scheduling keeps the seat book: the seats are the enrolled rows, and the
\* slack is the number of requests that can be past the checks when the last
\* seat goes.
Book == INSTANCE SeatBook WITH
          seats <- [s \in Sessions |-> Seats(s)],
          Capacities <- Capacities \cup {NoLimit},
          Slack <- Cardinality(Requests) - 1

ImplementsSeatBook == Book!BookSpec
=============================================================================
