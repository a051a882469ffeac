---------------------------- MODULE SessionList ----------------------------
(***************************************************************************)
(* The list of scheduled sessions as a page shows it to one user, and the  *)
(* button of every row: load, onCreate and toggleEnroll of                 *)
(* pages/SchedulePage.tsx, loadSessions, toggleEnroll and the page's other *)
(* calls of pages/TrainingDetailPage.tsx.                                  *)
(*                                                                         *)
(* A call is sent, executed by the server and settled by the page, in      *)
(* steps of their own: answers arrive in any order, and what a click acts  *)
(* on is the row as it was shown.  Of a row only two things matter: whether *)
(* it is there, and whether the user is enrolled.  A row without a free    *)
(* seat is one whose button is not clicked, or whose enroll is refused.    *)
(***************************************************************************)
EXTENDS FiniteSets

CONSTANTS Sessions,
          Calls,    \* Bound: calls under way at the same time
          None

VARIABLES page,     \* which of the two pages
          loaded,   \* whether the page has what it shows beside the list
          mine,     \* server: the sessions the user is enrolled in
          upcoming, \* server: the sessions there are that are not over
          shown,    \* the rows on the page
          busy,     \* busyId
          error,    \* whether the page shows an error
          call,     \* call[c]: a call under way
          excused   \* history: the rows are wrong for one of the two reasons
                    \* that OwnSeatsShown names

listVars == <<page, loaded, mine, upcoming, shown, busy, error, call, excused>>

\* What GET /api/sessions answers: the rows, and those that say "enrolled".
Rows == {rows \in [listed : SUBSET Sessions, enrolled : SUBSET Sessions] :
           rows.enrolled \subseteq rows.listed}

NoRows == [listed |-> {}, enrolled |-> {}]

\* "sent", then "done" or "failed" by the server.  "adrift": the page has
\* given the call up, or is gone, and the server may yet execute it.
States == {"sent", "done", "failed", "adrift"}
Call == [kind : {"none", "list", "create"}, session : {None}, at : States, rows : Rows]
        \cup
        [kind : {"enroll", "cancel"}, session : Sessions, at : States,
         rows : Rows]

Sent(kind, s) == [kind |-> kind, session |-> s, at |-> "sent", rows |-> NoRows]
NoCall == Sent("none", None)

ListTypeOK == /\ page \in {"schedule", "training"}
              /\ loaded \in BOOLEAN
              /\ mine \subseteq Sessions
              /\ upcoming \subseteq Sessions
              /\ shown \in Rows
              /\ busy \in Sessions \cup {None}
              /\ error \in BOOLEAN
              /\ call \in [Calls -> Call]
              /\ excused \in BOOLEAN

\* The page is mounted; its effect has called load, and getTraining.
ListInit == /\ page \in {"schedule", "training"}
            /\ loaded = (page = "schedule")
            /\ mine = {} /\ upcoming \in SUBSET Sessions
            /\ shown = NoRows /\ busy = None /\ error = FALSE
            /\ \E c \in Calls :
                 call = [d \in Calls |-> IF d = c THEN Sent("list", None)
                                                  ELSE NoCall]
            /\ excused = FALSE
-----------------------------------------------------------------------------
Toggle(c) == call[c].kind \in {"enroll", "cancel"}
Change(c) == Toggle(c) \/ call[c].kind = "create"
UnderWay(c) == call[c].kind # "none" /\ call[c].at # "adrift"

Put(c, what) == call' = [call EXCEPT ![c] = what]
Reached(c, state) == call' = [call EXCEPT ![c].at = state]

\* A page of a training shows nothing without it, nor with an error.
Rendered == page = "training" => loaded /\ ~error

Clickable(s) == busy # s /\ s \in shown.listed

Click(s) ==
  /\ Rendered /\ Clickable(s)
  /\ \E c \in Calls :
       /\ call[c] = NoCall
       /\ Put(c, Sent(IF s \in shown.enrolled THEN "cancel" ELSE "enroll", s))
  /\ busy' = s
  /\ error' = FALSE
  /\ UNCHANGED <<page, loaded, mine, upcoming, shown, excused>>

\* onCreate, whose button is disabled while a session is being saved.
Submit ==
  /\ page = "schedule"
  /\ \A c \in Calls : call[c].kind = "create" => ~UnderWay(c)
  /\ \E c \in Calls : call[c] = NoCall /\ Put(c, Sent("create", None))
  /\ error' = FALSE
  /\ UNCHANGED <<page, loaded, mine, upcoming, shown, busy, excused>>

(* The server.  Scheduling has the statements of these calls; here each of *)
(* them is one step.                                                       *)

\* list of sessions.rs, with upcoming: what is over is left out.
Read(c) ==
  /\ call[c].kind = "list" /\ call[c].at = "sent"
  /\ Put(c, [call[c] EXCEPT !.at = "done",
               !.rows = [listed |-> upcoming, enrolled |-> mine \cap upcoming]])
  /\ UNCHANGED <<page, loaded, mine, upcoming, shown, busy, error, excused>>

\* An id that nothing tells of: one that is made now.
Fresh(s) == /\ s \notin upcoming \cup mine \cup shown.listed
            /\ \A c \in Calls : /\ s \notin call[c].rows.listed
                               /\ s # call[c].session

\* To enroll once more is no error, to cancel once more is one.
Execute(c) ==
  LET s == call[c].session IN
  /\ Change(c) /\ call[c].at \in {"sent", "adrift"}
  /\ \/ /\ call[c].kind = "enroll" /\ s \in mine \cup upcoming
        /\ mine' = mine \cup {s} /\ UNCHANGED upcoming
     \/ /\ call[c].kind = "cancel" /\ s \in mine
        /\ mine' = mine \ {s} /\ UNCHANGED upcoming
     \/ /\ call[c].kind = "create"
        /\ \E new \in Sessions : Fresh(new) /\ upcoming' = upcoming \cup {new}
        /\ UNCHANGED mine
  /\ IF call[c].at = "sent"
     THEN Reached(c, "done") /\ UNCHANGED excused
     ELSE Put(c, NoCall) /\ excused' = (excused \/ mine' # mine)
  /\ UNCHANGED <<page, loaded, shown, busy, error>>

\* Refused for whatever reason - full, started, deleted, not enrolled, no
\* statement executed - or lost on its way to the server.
Refuse(c) ==
  /\ call[c].kind # "none" /\ call[c].at \in {"sent", "adrift"}
  /\ IF call[c].at = "sent" THEN Reached(c, "failed") ELSE Put(c, NoCall)
  /\ UNCHANGED <<page, loaded, mine, upcoming, shown, busy, error, excused>>

(* The page.                                                               *)

\* The finally of toggleEnroll, or of onCreate.
Release(c) == busy' = IF Toggle(c) THEN None ELSE busy

\* Seeded fault: no load after a call that has changed something.
ChangedNoLoad(c) ==
  /\ Change(c) /\ call[c].at = "done"
  /\ Put(c, NoCall) /\ Release(c)
  /\ UNCHANGED <<page, loaded, mine, upcoming, shown, error, excused>>

\* The call of toggleEnroll or onCreate has succeeded: load is called, and not
\* awaited.
Changed(c) ==
  /\ Change(c) /\ call[c].at = "done"
  /\ Put(c, Sent("list", None)) /\ Release(c)
  /\ UNCHANGED <<page, loaded, mine, upcoming, shown, error, excused>>

\* What the server has not executed, it may execute yet.
GiveUp(c) == Put(c, IF call[c].at = "sent" THEN [call[c] EXCEPT !.at = "adrift"]
                                           ELSE NoCall)

\* Seeded fault: busyId is reset after a success only.
ChangeFailedBusy(c) ==
  /\ Change(c) /\ call[c].at # "adrift"
  /\ GiveUp(c)
  /\ error' = TRUE
  /\ UNCHANGED <<page, loaded, mine, upcoming, shown, busy, excused>>

\* It has failed, its answer is lost, or the connection breaks before there
\* is one.
ChangeFailed(c) ==
  /\ Change(c) /\ call[c].at # "adrift"
  /\ GiveUp(c) /\ Release(c)
  /\ error' = TRUE
  /\ UNCHANGED <<page, loaded, mine, upcoming, shown, excused>>

\* Of the sessions that are not over, the rows name those the user has.
Right(rows) == rows.enrolled \cap upcoming = mine \cap upcoming

\* Seeded fault: an answer without rows is set as it is.
ListedAnything(c) ==
  /\ call[c].kind = "list" /\ call[c].at \in {"done", "failed"}
  /\ shown' = IF call[c].at = "done" THEN call[c].rows ELSE None
  /\ Put(c, NoCall)
  /\ UNCHANGED <<page, loaded, mine, upcoming, busy, error, excused>>

\* setSessions
Listed(c) ==
  /\ call[c].kind = "list" /\ call[c].at = "done"
  /\ shown' = call[c].rows
  /\ excused' = IF Right(call[c].rows) THEN FALSE ELSE excused \/ Right(shown)
  /\ Put(c, NoCall)
  /\ UNCHANGED <<page, loaded, mine, upcoming, busy, error>>

\* Seeded fault: a list that does not arrive is nothing to tell.
ListFailedQuietly(c) ==
  /\ call[c].kind = "list"
  /\ Put(c, NoCall)
  /\ UNCHANGED <<page, loaded, mine, upcoming, shown, busy, error, excused>>

\* Told on the one page, ignored on the other.
ListFailed(c) ==
  /\ call[c].kind = "list"
  /\ Put(c, NoCall)
  /\ error' = (error \/ page = "schedule")
  /\ UNCHANGED <<page, loaded, mine, upcoming, shown, busy, excused>>

\* getTraining is answered ...
TrainingLoaded ==
  /\ page = "training" /\ ~loaded /\ ~error
  /\ loaded' = TRUE
  /\ UNCHANGED <<page, mine, upcoming, shown, busy, error, call, excused>>

\* ... or fails; so may markComplete and remove, once there is a training.
TrainingFailed ==
  /\ page = "training"
  /\ error' = TRUE
  /\ UNCHANGED <<page, loaded, mine, upcoming, shown, busy, call, excused>>

\* The user leaves the page and comes back.  Nobody waits for what the old
\* page has sent.
Remount ==
  /\ \E c \in Calls :
       /\ ~Change(c)
       /\ call' = [d \in Calls |->
            IF d = c THEN Sent("list", None)
            ELSE IF Change(d) /\ call[d].at \in {"sent", "adrift"}
                 THEN [call[d] EXCEPT !.at = "adrift"] ELSE NoCall]
  /\ shown' = NoRows /\ busy' = None /\ error' = FALSE /\ excused' = FALSE
  /\ loaded' = (page = "schedule")
  /\ UNCHANGED <<page, mine, upcoming>>

\* The user enrolls or cancels in another window; sessions end, and others are
\* created or moved.
Elsewhere ==
  \/ /\ mine' \in SUBSET Sessions /\ excused' = TRUE
     /\ UNCHANGED <<page, loaded, upcoming, shown, busy, error, call>>
  \/ /\ upcoming' \in SUBSET Sessions
     /\ excused' = (excused \/ ~(upcoming' \subseteq upcoming))
     /\ UNCHANGED <<page, loaded, mine, shown, busy, error, call>>

Settle(c) == Changed(c) \/ ChangeFailed(c) \/ Listed(c) \/ ListFailed(c)

ListNext ==
  \/ \E s \in Sessions : Click(s)
  \/ Submit
  \/ \E c \in Calls : Read(c) \/ Execute(c) \/ Refuse(c) \/ Settle(c)
  \/ TrainingLoaded \/ TrainingFailed
  \/ Remount
  \/ Elsewhere

ListSpec == ListInit /\ [][ListNext]_listVars

\* Every call is settled: by an answer, or by the proxy's timeout.
ListFairSpec == ListSpec /\ \A c \in Calls : WF_listVars(Settle(c))
-----------------------------------------------------------------------------
(* Properties.                                                             *)

\* Once all its calls are settled the schedule page shows, of the sessions that
\* are not over, the seats the user has, or an error: whatever was clicked or
\* submitted while what was under way, however the answers arrive, and
\* whichever of them are lost (SchedulePage.tsx:39-81).  There are two ways for
\* it to be wrong, and no other: a list that was read earlier arrives later,
\* and something changes that no call of the page is waiting to hear about - in
\* another window, or by a call given up as lost.
OwnSeatsShown ==
  page = "schedule" /\ ~error /\ ~excused /\ (\A c \in Calls : ~UnderWay(c))
    => Right(shown)

\* No button stays disabled for a call that is over (the finally of
\* toggleEnroll), although one busyId stands for all of them.
Unstuck == busy # None ~> busy = None
=============================================================================
