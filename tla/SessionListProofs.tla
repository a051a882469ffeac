-------------------------- MODULE SessionListProofs --------------------------
(***************************************************************************)
(* What the list of sessions shows in the end, for any number of sessions  *)
(* and of calls under way at the same time.                                *)
(***************************************************************************)
EXTENDS SessionList, TLAPS

-----------------------------------------------------------------------------
(* Types.                                                                  *)

LEMMA SentType ==
  ASSUME NEW kind, NEW s,
         \/ kind \in {"none", "list", "create"} /\ s = None
         \/ kind \in {"enroll", "cancel"} /\ s \in Sessions
  PROVE  /\ Sent(kind, s) \in Call
         /\ Sent(kind, s).kind = kind /\ Sent(kind, s).at = "sent"
  BY DEF Sent, Call, NoRows, Rows, States

LEMMA NoCallType == NoCall \in Call /\ NoCall.kind = "none"
  BY SentType DEF NoCall

LEMMA PutType ==
  ASSUME call \in [Calls -> Call], NEW c \in Calls, NEW what \in Call,
         Put(c, what)
  PROVE  /\ call' \in [Calls -> Call] /\ call'[c] = what
         /\ \A d \in Calls \ {c} : call'[d] = call[d]
  BY DEF Put

\* A call that has been dealt with in one way or another.
LEMMA MovedType ==
  ASSUME NEW fetch \in Call, NEW at \in States
  PROVE  /\ [fetch EXCEPT !.at = at] \in Call
         /\ [fetch EXCEPT !.at = at].kind = fetch.kind
         /\ [fetch EXCEPT !.at = at].at = at
  BY DEF Call, States

LEMMA ReachedType ==
  ASSUME call \in [Calls -> Call], NEW c \in Calls,
         NEW at \in {"done", "failed"}, Reached(c, at)
  PROVE  /\ call' \in [Calls -> Call]
         /\ call'[c].kind = call[c].kind /\ call'[c].at = at
         /\ \A d \in Calls \ {c} : call'[d] = call[d]
<1>1. call' = [call EXCEPT ![c] = [call[c] EXCEPT !.at = at]]
  BY DEF Reached
<1> call[c] \in Call /\ at \in States
  BY DEF States
<1>2. /\ [call[c] EXCEPT !.at = at] \in Call
      /\ [call[c] EXCEPT !.at = at].kind = call[c].kind
      /\ [call[c] EXCEPT !.at = at].at = at
  BY MovedType
<1> QED BY <1>1, <1>2

\* A list that has been read.
LEMMA ReadType ==
  ASSUME NEW fetch \in Call, upcoming \subseteq Sessions
  PROVE  LET rows == [listed |-> upcoming, enrolled |-> mine \cap upcoming]
             read == [fetch EXCEPT !.at = "done", !.rows = rows] IN
         /\ read \in Call
         /\ read.kind = fetch.kind /\ read.at = "done"
         /\ read.rows.enrolled = mine \cap upcoming
  BY DEF Call, Rows, States

LEMMA ListTypeInit == ListInit => ListTypeOK
<1> SUFFICES ASSUME ListInit  PROVE ListTypeOK
  OBVIOUS
<1>1. PICK c \in Calls :
        call = [d \in Calls |-> IF d = c THEN Sent("list", None) ELSE NoCall]
  BY DEF ListInit
<1>2. call \in [Calls -> Call]
  BY <1>1, SentType, NoCallType
<1> QED BY <1>2 DEF ListInit, ListTypeOK, NoRows, Rows

LEMMA ListTypeStep ==
  ASSUME ListTypeOK, [ListNext]_listVars
  PROVE  ListTypeOK'
<1> USE DEF ListTypeOK
<1>1. ASSUME NEW s \in Sessions, Click(s)  PROVE ListTypeOK'
  <2>1. PICK c \in Calls :
          Put(c, Sent(IF s \in shown.enrolled THEN "cancel" ELSE "enroll", s))
    BY <1>1 DEF Click
  <2>2. call' \in [Calls -> Call]
    BY <2>1, SentType, PutType
  <2> QED BY <1>1, <2>2 DEF Click
<1>2. ASSUME NEW c \in Calls, Read(c)  PROVE ListTypeOK'
  <2> DEFINE rows == [listed |-> upcoming, enrolled |-> mine \cap upcoming]
  <2>1. [call[c] EXCEPT !.at = "done", !.rows = rows] \in Call
    BY ReadType
  <2> QED BY <1>2, <2>1, PutType DEF Read
<1>3. ASSUME NEW c \in Calls, Execute(c)  PROVE ListTypeOK'
  <2>1. call' \in [Calls -> Call]
    BY <1>3, ReachedType, PutType, NoCallType DEF Execute
  <2>2. mine' \subseteq Sessions /\ upcoming' \subseteq Sessions
    <3>1. call[c].kind \in {"enroll", "cancel"} => call[c].session \in Sessions
      BY DEF Call
    <3> QED BY <1>3, <3>1 DEF Execute
  <2> QED BY <1>3, <2>1, <2>2 DEF Execute
<1>4. ASSUME NEW c \in Calls, Refuse(c)  PROVE ListTypeOK'
  BY <1>4, ReachedType, PutType, NoCallType DEF Refuse
<1>5. ASSUME NEW c \in Calls, Changed(c)  PROVE ListTypeOK'
  BY <1>5, SentType, PutType DEF Changed, Release
<1>6. ASSUME NEW c \in Calls, ChangeFailed(c)  PROVE ListTypeOK'
  BY <1>6, MovedType, NoCallType, PutType
     DEF ChangeFailed, GiveUp, Release, States
<1>7. ASSUME NEW c \in Calls, Listed(c) \/ ListFailed(c)  PROVE ListTypeOK'
  <2>1. call[c].rows \in Rows
    BY DEF Call
  <2> QED BY <1>7, <2>1, NoCallType, PutType DEF Listed, ListFailed, Right
<1>8. CASE Remount
  <2>1. \A d \in Calls : [call[d] EXCEPT !.at = "adrift"] \in Call
    BY MovedType DEF States
  <2>2. Sent("list", None) \in Call
    BY SentType
  <2>3. call' \in [Calls -> Call]
    BY <1>8, <2>1, <2>2, NoCallType DEF Remount
  <2> QED BY <1>8, <2>3 DEF Remount, NoRows, Rows
<1>9. CASE Elsewhere
  BY <1>9 DEF Elsewhere
<1>10. CASE UNCHANGED listVars
  BY <1>10 DEF listVars
<1>11. ASSUME Submit  PROVE ListTypeOK'
  BY <1>11, SentType, PutType DEF Submit
<1>12. ASSUME TrainingLoaded \/ TrainingFailed  PROVE ListTypeOK'
  BY <1>12 DEF TrainingLoaded, TrainingFailed
<1> QED BY <1>1, <1>2, <1>3, <1>4, <1>5, <1>6, <1>7, <1>8, <1>9, <1>10, <1>11,
           <1>12
       DEF ListNext, Settle

\* The variables of SessionList keep their types.
THEOREM ListTyped == ListSpec => []ListTypeOK
  BY ListTypeInit, ListTypeStep, PTL DEF ListSpec
-----------------------------------------------------------------------------
(* What is shown in the end.                                               *)

\* A call that leads to an error or to the list of the seats as they are: the
\* page loads the list anew after it, or the list is still to be read, or it
\* was read when the seats were what they are.
Mends(c) == \/ Change(c) /\ call[c].at # "adrift"
            \/ /\ call[c].kind = "list"
               /\ \/ call[c].at \in {"sent", "failed"}
                  \/ call[c].at = "done" /\ Right(call[c].rows)

\* As long as the rows are wrong, and neither an error says so nor they are
\* excused, a call is under way that mends them.
WrongIsMended == page = "schedule" /\ ~error /\ ~excused
                   => Right(shown) \/ \E c \in Calls : Mends(c)

LEMMA MendsUnderWay ==
  ASSUME NEW c \in Calls, Mends(c)
  PROVE  UnderWay(c)
  BY DEF Mends, UnderWay, Change, Toggle

\* Rows that are right stay right when a session is made that they cannot name.
LEMMA RightStays ==
  ASSUME NEW rows \in Rows, Right(rows), mine' = mine, NEW new,
         new \notin mine \cup rows.listed, upcoming' = upcoming \cup {new}
  PROVE  rows.enrolled \cap upcoming' = mine' \cap upcoming'
  BY DEF Rows, Right

\* What mends the rows goes on to do so while the seats stay as they are, and
\* no session comes back.
LEMMA MendsStays ==
  ASSUME NEW c \in Calls, Mends(c), call'[c] = call[c], mine' = mine,
         upcoming' \subseteq upcoming
  PROVE  Mends(c)'
<1>1. CASE Change(c) /\ call[c].at # "adrift"
  BY <1>1 DEF Mends, Change, Toggle
<1>2. CASE call[c].kind = "list" /\ call[c].at \in {"sent", "failed"}
  BY <1>2 DEF Mends
<1>3. CASE /\ call[c].kind = "list" /\ call[c].at = "done"
           /\ Right(call[c].rows)
  BY <1>3 DEF Mends, Right
<1> QED BY <1>1, <1>2, <1>3 DEF Mends

LEMMA MendedStep ==
  ASSUME ListTypeOK, WrongIsMended, [ListNext]_listVars
  PROVE  WrongIsMended'
<1> SUFFICES ASSUME page' = "schedule", ~error', ~excused'
             PROVE  Right(shown)' \/ \E c \in Calls : Mends(c)'
  BY DEF WrongIsMended
<1>0. call \in [Calls -> Call]
  BY DEF ListTypeOK
<1>a. ASSUME UNCHANGED <<page, mine, upcoming, shown, error, excused>>, NEW c \in Calls,
             Mends(c) => Mends(c)', \A d \in Calls \ {c} : call'[d] = call[d]
      PROVE  Right(shown)' \/ \E d \in Calls : Mends(d)'
  BY <1>a, MendsStays DEF WrongIsMended, Right
<1>1. ASSUME NEW s \in Sessions, Click(s)
      PROVE  \E c \in Calls : Mends(c)'
  <2>1. PICK c \in Calls, kind \in {"cancel", "enroll"} : Put(c, Sent(kind, s))
    BY <1>1 DEF Click
  <2>2. call'[c].kind = kind /\ call'[c].at = "sent"
    BY <1>0, <2>1, SentType, PutType
  <2> QED BY <2>2 DEF Mends, Change, Toggle
<1>2. ASSUME NEW c \in Calls, Read(c)
      PROVE  Right(shown)' \/ \E d \in Calls : Mends(d)'
  <2>2. /\ call'[c].kind = "list" /\ call'[c].at = "done"
        /\ call'[c].rows.enrolled = mine \cap upcoming
    <3> DEFINE rows == [listed |-> upcoming, enrolled |-> mine \cap upcoming]
               read == [call[c] EXCEPT !.at = "done", !.rows = rows]
    <3>1. /\ read \in Call
          /\ read.kind = call[c].kind /\ read.at = "done"
          /\ read.rows.enrolled = mine \cap upcoming
      BY <1>0, ReadType DEF ListTypeOK
    <3>2. Put(c, read) /\ call[c].kind = "list"
      BY <1>2 DEF Read
    <3> HIDE DEF read
    <3> QED BY <1>0, <3>1, <3>2, PutType
  <2>3. mine' = mine /\ upcoming' = upcoming
    BY <1>2 DEF Read
  <2> QED BY <2>2, <2>3 DEF Mends, Right
<1>3. ASSUME NEW c \in Calls, Execute(c)
      PROVE  Right(shown)' \/ \E d \in Calls : Mends(d)'
  <2>1. CASE call[c].at = "sent"
    <3>1. call'[c].kind = call[c].kind /\ call'[c].at = "done"
      BY <1>0, <1>3, <2>1, ReachedType DEF Execute
    <3> QED BY <1>3, <3>1 DEF Execute, Mends, Change, Toggle
  <2>2. CASE call[c].at = "adrift"
    <3>1. /\ mine' = mine /\ excused' = excused
          /\ UNCHANGED <<page, shown, error>>
          /\ \A d \in Calls \ {c} : call'[d] = call[d]
      BY <1>0, <1>3, <2>2, NoCallType, PutType DEF Execute, ListTypeOK
    <3>2. ~Mends(c)
      BY <1>3, <2>2 DEF Mends, Execute, Change, Toggle
    <3>3. CASE upcoming' = upcoming
      BY <1>3, <1>a, <3>1, <3>2, <3>3
    <3>4. CASE upcoming' # upcoming
      <4>1. PICK new \in Sessions : Fresh(new) /\ upcoming' = upcoming \cup {new}
        BY <1>3, <3>4 DEF Execute
      <4>2. shown \in Rows /\ \A d \in Calls : call[d].rows \in Rows
        BY <1>0 DEF ListTypeOK, Call
      <4>3. CASE Right(shown)
        <5>1. shown.enrolled \cap upcoming' = mine' \cap upcoming'
          BY <3>1, <4>1, <4>2, <4>3, RightStays DEF Fresh
        <5> QED BY <3>1, <5>1 DEF Right
      <4>4. CASE ~Right(shown)
        <5>1. PICK d \in Calls \ {c} : Mends(d)
          BY <3>1, <3>2, <4>4 DEF WrongIsMended
        <5>2. call'[d] = call[d]
          BY <3>1, <5>1
        <5>3. Right(call[d].rows)
                => call[d].rows.enrolled \cap upcoming' = mine' \cap upcoming'
          BY <3>1, <4>1, <4>2, <5>1, RightStays DEF Fresh
        <5> QED BY <5>1, <5>2, <5>3 DEF Mends, Change, Toggle, Right
      <4> QED BY <4>3, <4>4
    <3> QED BY <3>3, <3>4
  <2> QED BY <1>3, <2>1, <2>2 DEF Execute
<1>4. ASSUME NEW c \in Calls, Refuse(c)
      PROVE  Right(shown)' \/ \E d \in Calls : Mends(d)'
  <2>1. CASE call[c].at = "sent"
    <3>1. call'[c].kind = call[c].kind /\ call'[c].at = "failed"
      BY <1>0, <1>4, <2>1, ReachedType DEF Refuse
    <3>2. call[c].kind \in {"list", "enroll", "cancel", "create"}
      BY <1>0, <1>4 DEF Refuse, Call
    <3> QED BY <3>1, <3>2 DEF Mends, Change, Toggle
  <2>2. CASE call[c].at = "adrift"
    <3>1. \A d \in Calls \ {c} : call'[d] = call[d]
      BY <1>0, <1>4, <2>2, NoCallType, PutType DEF Refuse
    <3>2. ~Mends(c)
      BY <2>2 DEF Mends
    <3> QED BY <1>4, <1>a, <3>1, <3>2 DEF Refuse
  <2> QED BY <1>4, <2>1, <2>2 DEF Refuse
<1>5. ASSUME NEW c \in Calls, Changed(c)
      PROVE  \E d \in Calls : Mends(d)'
  <2>1. call'[c].kind = "list" /\ call'[c].at = "sent"
    BY <1>0, <1>5, SentType, PutType DEF Changed
  <2> QED BY <2>1 DEF Mends
<1>6. ASSUME NEW c \in Calls, ChangeFailed(c) \/ ListFailed(c)
      PROVE  FALSE
  BY <1>6 DEF ChangeFailed, ListFailed
<1>7. ASSUME NEW c \in Calls, Listed(c)
      PROVE  Right(shown)' \/ \E d \in Calls : Mends(d)'
  <2>1. /\ shown' = call[c].rows /\ UNCHANGED <<page, mine, upcoming, error>>
        /\ \A d \in Calls \ {c} : call'[d] = call[d]
    BY <1>0, <1>7, NoCallType, PutType DEF Listed
  <2>2. CASE Right(call[c].rows)
    BY <2>1, <2>2 DEF Right
  <2>3. CASE ~Right(call[c].rows)
    <3>1. ~excused /\ ~Right(shown) /\ ~Mends(c)
      BY <1>7, <2>3 DEF Listed, Mends, Change, Toggle
    <3>2. PICK d \in Calls \ {c} : Mends(d)
      BY <2>1, <3>1 DEF WrongIsMended
    <3> QED BY <2>1, <3>2, MendsStays
  <2> QED BY <2>2, <2>3
<1>8. CASE Remount
  <2>1. PICK c \in Calls : call'[c] = Sent("list", None)
    BY <1>0, <1>8 DEF Remount
  <2> QED BY <2>1, SentType DEF Mends
<1>9. CASE Elsewhere
  <2>1. /\ UNCHANGED <<page, shown, error, call, mine>>
        /\ upcoming' \subseteq upcoming /\ ~excused
    BY <1>9 DEF Elsewhere
  <2>2. CASE Right(shown)
    BY <2>1, <2>2 DEF Right
  <2>3. CASE ~Right(shown)
    BY <2>1, <2>3, MendsStays DEF WrongIsMended
  <2> QED BY <2>2, <2>3
<1>10. CASE UNCHANGED listVars
  BY <1>10, MendsStays DEF listVars, WrongIsMended, Right
<1>11. ASSUME Submit
       PROVE  \E c \in Calls : Mends(c)'
  <2>1. PICK c \in Calls : Put(c, Sent("create", None))
    BY <1>11 DEF Submit
  <2>2. call'[c].kind = "create" /\ call'[c].at = "sent"
    BY <1>0, <2>1, SentType, PutType
  <2> QED BY <2>2 DEF Mends, Change
<1>12. ASSUME TrainingLoaded \/ TrainingFailed
       PROVE  FALSE
  BY <1>12 DEF TrainingLoaded, TrainingFailed
<1> QED BY <1>1, <1>2, <1>3, <1>4, <1>5, <1>6, <1>7, <1>8, <1>9, <1>10, <1>11,
           <1>12
       DEF ListNext, Settle

\* However clicks, answers and failures interleave: when nothing is under way
\* any more, the schedule page shows the seats the user has in what is to come,
\* or an error, but for an older list that arrived later and a change nobody
\* told the page of.
THEOREM SeatsShown == ListSpec => []OwnSeatsShown
<1>1. ListInit => WrongIsMended
  <2> SUFFICES ASSUME ListInit  PROVE \E c \in Calls : Mends(c)
    BY DEF WrongIsMended
  <2>1. PICK c \in Calls : call[c] = Sent("list", None)
    BY DEF ListInit
  <2> QED BY <2>1, SentType DEF Mends
<1>2. ListTypeOK /\ WrongIsMended /\ [ListNext]_listVars => WrongIsMended'
  BY MendedStep
<1>3. WrongIsMended => OwnSeatsShown
  BY MendsUnderWay DEF WrongIsMended, OwnSeatsShown
<1> QED BY <1>1, <1>2, <1>3, ListTyped, PTL DEF ListSpec
-----------------------------------------------------------------------------
(* What a disabled button waits for.                                       *)

BusyWaits == busy # None =>
  \E c \in Calls : Toggle(c) /\ UnderWay(c) /\ call[c].session = busy

LEMMA BusyStep ==
  ASSUME ListTypeOK, BusyWaits, [ListNext]_listVars
  PROVE  BusyWaits'
<1> SUFFICES ASSUME busy' # None
             PROVE  \E c \in Calls : /\ Toggle(c)' /\ UnderWay(c)'
                                     /\ call'[c].session = busy'
  BY DEF BusyWaits
<1> USE DEF Toggle, UnderWay
<1>0. call \in [Calls -> Call]
  BY DEF ListTypeOK
<1>1. ASSUME NEW s \in Sessions, Click(s)
      PROVE  \E c \in Calls : /\ Toggle(c)' /\ UnderWay(c)'
                              /\ call'[c].session = busy'
  <2>1. PICK c \in Calls :
          Put(c, Sent(IF s \in shown.enrolled THEN "cancel" ELSE "enroll", s))
    BY <1>1 DEF Click
  <2>2. /\ call'[c].kind \in {"enroll", "cancel"} /\ call'[c].at = "sent"
        /\ call'[c].session = s
    BY <1>0, <2>1 DEF Put, Sent
  <2> QED BY <1>1, <2>2 DEF Click
<1>2. ASSUME busy' = busy,
             \A c \in Calls : Toggle(c) /\ UnderWay(c) =>
               /\ call'[c].kind = call[c].kind /\ call'[c].at # "adrift"
               /\ call'[c].session = call[c].session
      PROVE  \E c \in Calls : /\ Toggle(c)' /\ UnderWay(c)'
                              /\ call'[c].session = busy'
  BY <1>2 DEF BusyWaits
<1>3. ASSUME NEW c \in Calls,
             \/ Read(c) \/ Listed(c) \/ ListFailed(c)
             \/ ~Toggle(c) /\ (Changed(c) \/ ChangeFailed(c))
      PROVE  /\ busy' = busy
             /\ \A d \in Calls : Toggle(d) => call'[d] = call[d]
  BY <1>0, <1>3
     DEF Read, Listed, ListFailed, Changed, ChangeFailed, GiveUp, Release, Put
<1>4. ASSUME NEW c \in Calls, Execute(c) \/ Refuse(c)
      PROVE  /\ busy' = busy
             /\ \A d \in Calls : UnderWay(d) =>
                  /\ call'[d].kind = call[d].kind /\ call'[d].at # "adrift"
                  /\ call'[d].session = call[d].session
  <2>1. CASE \E at \in {"done", "failed"} : Reached(c, at)
    <3>1. PICK at \in {"done", "failed"} :
            call' = [call EXCEPT ![c] = [call[c] EXCEPT !.at = at]]
      BY <2>1 DEF Reached
    <3>2. /\ [call[c] EXCEPT !.at = at].kind = call[c].kind
          /\ [call[c] EXCEPT !.at = at].session = call[c].session
          /\ [call[c] EXCEPT !.at = at].at = at
      BY <1>0 DEF Call
    <3> QED BY <1>0, <1>4, <3>1, <3>2 DEF Execute, Refuse
  <2>2. CASE call[c].at = "adrift" /\ Put(c, NoCall)
    BY <1>0, <1>4, <2>2 DEF Put, Execute, Refuse
  <2> QED BY <1>4, <2>1, <2>2 DEF Execute, Refuse
<1>5. ASSUME NEW c \in Calls, Toggle(c), Changed(c) \/ ChangeFailed(c)
      PROVE  busy' = None
  BY <1>5 DEF Changed, ChangeFailed, Release
<1>6. CASE Remount
  BY <1>6 DEF Remount
<1>7. CASE Elsewhere \/ TrainingLoaded \/ TrainingFailed \/ UNCHANGED listVars
  BY <1>2, <1>7 DEF Elsewhere, TrainingLoaded, TrainingFailed, listVars
<1>8. ASSUME Submit
      PROVE  /\ busy' = busy
             /\ \A d \in Calls : Toggle(d) => call'[d] = call[d]
  <2>1. PICK c \in Calls : call[c] = NoCall /\ Put(c, Sent("create", None))
    BY <1>8 DEF Submit
  <2>2. ~Toggle(c)
    BY <2>1, NoCallType
  <2> QED BY <1>0, <1>8, <2>1, <2>2 DEF Submit, Put
<1> QED BY <1>1, <1>2, <1>3, <1>4, <1>5, <1>6, <1>7, <1>8 DEF ListNext, Settle

\* A button is disabled only while a call of its own is under way, whatever
\* else was clicked meanwhile: when the last call is settled, by the finally of
\* toggleEnroll, none is.
THEOREM BusyIsWaiting == ListSpec => []BusyWaits
<1>1. ListInit => BusyWaits
  BY DEF ListInit, BusyWaits
<1>2. ListTypeOK /\ BusyWaits /\ [ListNext]_listVars => BusyWaits'
  BY BusyStep
<1> QED BY <1>1, <1>2, ListTyped, PTL DEF ListSpec
=============================================================================
