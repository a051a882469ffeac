------------------------------ MODULE Records ------------------------------
(***************************************************************************)
(* What people have achieved: completions of trainings and certifications  *)
(* with an expiry date - complete of routes/trainings.rs, the handlers of  *)
(* routes/certifications.rs, certification_statuses of routes/users.rs and *)
(* the compliance report of routes/reports.rs.                             *)
(*                                                                         *)
(* A step is one SQL statement, as everywhere.  A handler of one statement *)
(* is one step and needs no row in req; its caller may have been erased    *)
(* since the middleware let it in, so no account is asked for.             *)
(*                                                                         *)
(* An expiry date is kept as the number of days to it.                     *)
(***************************************************************************)
EXTENDS Integers, FiniteSets

CONSTANTS Users, Trainings, Certifications,
          Requests, \* requests of several statements handled at a time
          Warning,  \* EXPIRY_WARNING_DAYS
          Scores,   \* what a completion may be logged with, NULL included
          None

ASSUME RecordsAssumption ==
  /\ Warning \in Nat
  /\ None \notin Users \cup Trainings \cup Certifications \cup Scores

\* Bound: every day after expiry is like the first one, every day before the
\* warning like the last one.
Days == -1 .. Warning + 1

VARIABLES accounts,      \* the accounts that still exist
          training,      \* training[t]: the life of the row t
          certification, \* certification[c]: the life of the row c
          completed,     \* completed[u][t]: the score of the row (u, t) of
                         \* user_training_completions, or None
          expiry,        \* expiry[u][c]: days to the expiry_date of the row
                         \* (u, c) of user_certifications, or None
          req,           \* req[r]: the handler working on r
          steady         \* history: steady[r], users that have had a
                         \* certification to report ever since r's report
                         \* asked for candidates

recordsVars ==
  <<accounts, training, certification, completed, expiry, req, steady>>

Life == {"unborn", "live", "gone"}

\* complete: (see the training), insert.  assign: (see the certification, see
\* the target), insert.  compliance: ask for candidates, then their records
\* one after the other.
Statements == {"complete", "complete_insert",
               "assign", "assign_user", "assign_insert",
               "compliance", "statuses"}

\* 2xx; 404; 400; the 500 that error.rs makes of a foreign key error.
Replies == {"none", "ok", "not_found", "bad_request", "fk_error"}

\* user: the caller of complete, the target of assign.  todo, entries: the
\* candidates a report still has to look at, and those it has listed.
Request == [pc : Statements \cup {"idle"}, user : Users \cup {None},
            training : Trainings \cup {None},
            certification : Certifications \cup {None},
            todo : SUBSET Users, entries : SUBSET Users, reply : Replies]

Idle(reply) == [pc |-> "idle", user |-> None, training |-> None,
                certification |-> None, todo |-> {}, entries |-> {},
                reply |-> reply]

RecordsTypeOK ==
  /\ accounts \subseteq Users
  /\ training \in [Trainings -> Life]
  /\ certification \in [Certifications -> Life]
  /\ completed \in [Users -> [Trainings -> Scores \cup {None}]]
  /\ expiry \in [Users -> [Certifications -> Days \cup {None}]]
  /\ req \in [Requests -> Request]
  /\ steady \in [Requests -> SUBSET Users]

RecordsInit ==
  /\ accounts = Users
  /\ training = [t \in Trainings |-> "unborn"]
  /\ certification = [c \in Certifications |-> "unborn"]
  /\ completed = [u \in Users |-> [t \in Trainings |-> None]]
  /\ expiry = [u \in Users |-> [c \in Certifications |-> None]]
  /\ req = [r \in Requests |-> Idle("none")]
  /\ steady = [r \in Requests |-> {}]
-----------------------------------------------------------------------------
\* certification_statuses
StatusOf(days) == IF days < 0 THEN "expired"
                  ELSE IF days <= Warning THEN "expiring_soon" ELSE "valid"

\* The certifications of u that a report flags.
Flagged(u) == {c \in Certifications : /\ expiry[u][c] # None
                                      /\ StatusOf(expiry[u][c]) # "valid"}

\* Seeded fault: the SELECT leaves out the last day of the warning.
CandidatesLate == {u \in Users : \E c \in Certifications :
                     expiry[u][c] # None /\ expiry[u][c] < Warning}

\* The users that compliance's SELECT finds.
Candidates == {u \in Users : \E c \in Certifications :
                 expiry[u][c] # None /\ expiry[u][c] <= Warning}

FlaggedUsers == {u \in Users : Flagged(u) # {}}

\* The history of every report goes on with whoever is still flagged.
Watch == steady' = [r \in Requests |-> steady[r] \cap FlaggedUsers']

At(r, pc) == req[r].pc = pc
Goto(r, pc) == req' = [req EXCEPT ![r].pc = pc]
Finish(r, reply) == req' = [req EXCEPT ![r] = Idle(reply)]

Tables == <<accounts, training, certification, completed, expiry>>

Enter(r, pc, u, t, c) ==
  req' = [req EXCEPT ![r] = [Idle("none") EXCEPT
            !.pc = pc, !.user = u, !.training = t, !.certification = c]]

\* Anybody may complete any training, a manager may assign anything to
\* anybody, whether it is there or not; an admin may ask for the report.
Receive(r) ==
  /\ At(r, "idle")
  /\ \/ \E u \in accounts, t \in Trainings : Enter(r, "complete", u, t, None)
     \/ \E u \in Users, c \in Certifications : Enter(r, "assign", u, None, c)
     \/ Enter(r, "compliance", None, None, None)
  /\ UNCHANGED <<Tables, steady>>

\* The client hangs up or the statement fails.
Abort(r) == ~At(r, "idle") /\ Finish(r, "none") /\ UNCHANGED <<Tables, steady>>

(* POST /api/trainings/:id/complete                                        *)

Complete(r) ==
  /\ At(r, "complete")
  /\ IF training[req[r].training] = "live" THEN Goto(r, "complete_insert")
                                           ELSE Finish(r, "not_found")
  /\ UNCHANGED <<Tables, steady>>

\* Seeded fault: user_training_completions has no foreign keys.
CompleteUnchecked(r) ==
  /\ At(r, "complete_insert")
  /\ \E score \in Scores :
       completed' = [completed EXCEPT ![req[r].user][req[r].training] = score]
  /\ Finish(r, "ok")
  /\ UNCHANGED <<accounts, training, certification, expiry, steady>>

\* Seeded fault: ON CONFLICT (training_id), an UPDATE of everybody's row.
CompleteForAll(r) ==
  /\ At(r, "complete_insert")
  /\ LET t == req[r].training IN
     IF req[r].user \in accounts /\ training[t] = "live"
     THEN /\ \E score \in Scores :
               completed' = [u \in Users |->
                 IF u = req[r].user \/ completed[u][t] # None
                 THEN [completed[u] EXCEPT ![t] = score] ELSE completed[u]]
          /\ Finish(r, "ok")
     ELSE Finish(r, "fk_error") /\ UNCHANGED completed
  /\ UNCHANGED <<accounts, training, certification, expiry, steady>>

\* An upsert: the score replaces the one there.
CompleteInsert(r) ==
  /\ At(r, "complete_insert")
  /\ LET u == req[r].user
         t == req[r].training
     IN IF u \in accounts /\ training[t] = "live"
        THEN /\ \E score \in Scores :
                  completed' = [completed EXCEPT ![u][t] = score]
             /\ Finish(r, "ok")
        ELSE Finish(r, "fk_error") /\ UNCHANGED completed
  /\ UNCHANGED <<accounts, training, certification, expiry, steady>>

(* POST /api/certifications/:id/assign                                     *)

Assign(r) ==
  /\ At(r, "assign")
  /\ IF certification[req[r].certification] = "live"
     THEN Goto(r, "assign_user") ELSE Finish(r, "not_found")
  /\ UNCHANGED <<Tables, steady>>

AssignUser(r) ==
  /\ At(r, "assign_user")
  /\ IF req[r].user \in accounts
     THEN Goto(r, "assign_insert") ELSE Finish(r, "bad_request")
  /\ UNCHANGED <<Tables, steady>>

\* Any expiry date may be typed in, past ones too, and replaces the one there.
AssignInsert(r) ==
  /\ At(r, "assign_insert")
  /\ LET u == req[r].user
         c == req[r].certification
     IN IF u \in accounts /\ certification[c] = "live"
        THEN /\ \E days \in Days : expiry' = [expiry EXCEPT ![u][c] = days]
             /\ Finish(r, "ok")
        ELSE Finish(r, "fk_error") /\ UNCHANGED expiry
  /\ Watch
  /\ UNCHANGED <<accounts, training, certification, completed>>
-----------------------------------------------------------------------------
(* GET /api/reports/compliance: one SELECT for the users, then one for each *)
(* user's certifications, which are judged by the day it then is.           *)

Compliance(r) ==
  /\ At(r, "compliance")
  /\ req' = [req EXCEPT ![r] = [@ EXCEPT !.pc = "statuses",
                                          !.todo = Candidates]]
  /\ steady' = [steady EXCEPT ![r] = FlaggedUsers]
  /\ UNCHANGED Tables

\* Entries without a flagged certification are left out.
Looked(r, u) ==
  [req[r] EXCEPT !.todo = @ \ {u},
                 !.entries = IF Flagged(u) = {} THEN @ ELSE @ \cup {u}]

Statuses(r) ==
  /\ At(r, "statuses")
  /\ \E u \in req[r].todo : req' = [req EXCEPT ![r] = Looked(r, u)]
  /\ UNCHANGED <<Tables, steady>>

ReportDone(r) ==
  /\ At(r, "statuses") /\ req[r].todo = {}
  /\ Finish(r, "ok")
  /\ steady' = [steady EXCEPT ![r] = {}]
  /\ UNCHANGED Tables
-----------------------------------------------------------------------------
(* Handlers of one statement, and time.                                    *)

TrainingCreate(t) ==
  /\ training[t] = "unborn"
  /\ training' = [training EXCEPT ![t] = "live"]
  /\ UNCHANGED <<accounts, certification, completed, expiry, req, steady>>

CertificationCreate(c) ==
  /\ certification[c] = "unborn"
  /\ certification' = [certification EXCEPT ![c] = "live"]
  /\ UNCHANGED <<accounts, training, completed, expiry, req, steady>>

\* The completions of t cascade.
TrainingDelete(t) ==
  /\ training[t] = "live"
  /\ training' = [training EXCEPT ![t] = "gone"]
  /\ completed' = [u \in Users |-> [completed[u] EXCEPT ![t] = None]]
  /\ UNCHANGED <<accounts, certification, expiry, req, steady>>

\* Seeded fault: the records of c do not cascade.
CertificationDeleteOnly(c) ==
  /\ certification[c] = "live"
  /\ certification' = [certification EXCEPT ![c] = "gone"]
  /\ UNCHANGED <<accounts, training, completed, expiry, req, steady>>

\* The records of c cascade.
CertificationDelete(c) ==
  /\ certification[c] = "live"
  /\ certification' = [certification EXCEPT ![c] = "gone"]
  /\ expiry' = [u \in Users |-> [expiry[u] EXCEPT ![c] = None]]
  /\ Watch
  /\ UNCHANGED <<accounts, training, completed, req>>

\* DELETE /api/users/:id: all that u achieved cascades.
EraseUser(u) ==
  /\ u \in accounts
  /\ accounts' = accounts \ {u}
  /\ completed' = [completed EXCEPT ![u] = [t \in Trainings |-> None]]
  /\ expiry' = [expiry EXCEPT ![u] = [c \in Certifications |-> None]]
  /\ Watch
  /\ UNCHANGED <<training, certification, req>>

\* Seeded fault: days after the expiry are counted.
NextDayOn(days) == days - 1

NextDay(days) == IF days < 0 THEN days ELSE days - 1

\* Midnight.
Midnight ==
  /\ expiry' = [u \in Users |-> [c \in Certifications |->
       IF expiry[u][c] = None THEN None ELSE NextDay(expiry[u][c])]]
  /\ Watch
  /\ UNCHANGED <<accounts, training, certification, completed, req>>

HandleRecords(r) ==
  \/ Complete(r) \/ CompleteInsert(r)
  \/ Assign(r) \/ AssignUser(r) \/ AssignInsert(r)
  \/ Compliance(r) \/ Statuses(r) \/ ReportDone(r)

RecordsNext ==
  \/ \E r \in Requests : Receive(r) \/ Abort(r) \/ HandleRecords(r)
  \/ \E t \in Trainings : TrainingCreate(t) \/ TrainingDelete(t)
  \/ \E c \in Certifications : CertificationCreate(c) \/ CertificationDelete(c)
  \/ \E u \in Users : EraseUser(u)
  \/ Midnight

RecordsSpec == RecordsInit /\ [][RecordsNext]_recordsVars
-----------------------------------------------------------------------------
(* Properties.                                                             *)

\* No record outlives the account or the thing it records, although complete
\* and assign look for them long before they insert (trainings.rs:143-162,
\* certifications.rs:150-181): an erased user's data does not come back.
RecordsIntegrity ==
  /\ \A u \in Users, t \in Trainings :
       completed[u][t] # None => u \in accounts /\ training[t] = "live"
  /\ \A u \in Users, c \in Certifications :
       expiry[u][c] # None => u \in accounts /\ certification[c] = "live"

\* What somebody has achieved stays as it was logged until it is logged again
\* for the same person and thing, or one of the two is deleted: no completion
\* or assignment that runs at the same time, and no deletion of anything else,
\* changes it (trainings.rs:152-162, certifications.rs:166-181).
RecordsKept ==
  [][\A u \in accounts' :
       /\ \A t \in Trainings : training'[t] = "live" =>
            \/ completed'[u][t] = completed[u][t]
            \/ \E r \in Requests : /\ At(r, "complete_insert")
                                  /\ req[r].user = u /\ req[r].training = t
                                  /\ req'[r].reply = "ok"
       /\ \A c \in Certifications : certification'[c] = "live" =>
            \/ expiry'[u][c] = expiry[u][c]
            \/ \E r \in Requests : /\ At(r, "assign_insert")
                                  /\ req[r].user = u
                                  /\ req[r].certification = c
                                  /\ req'[r].reply = "ok"
            \/ UNCHANGED req /\ expiry'[u][c] = NextDay(expiry[u][c])
    ]_recordsVars

\* reports.rs:13-14, "Returns every user that has at least one certification
\* which is overdue (expired) or expiring within the warning window": whoever
\* has one all the while the report is put together is in it, whatever is
\* assigned, renewed, deleted or erased meanwhile, past midnight, and although
\* users are found by SQL and judged in the server.
ReportComplete == \A r \in Requests :
  At(r, "statuses") => steady[r] \subseteq req[r].todo \cup req[r].entries
=============================================================================
