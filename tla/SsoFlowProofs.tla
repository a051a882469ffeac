--------------------------- MODULE SsoFlowProofs ---------------------------
(* However often and however concurrently the browser comes back, a login  *)
(* attempt is exchanged once and in time - for any attempts, requests and  *)
(* lifetime.                                                               *)
EXTENDS SsoFlow, TLAPS

LEMMA LifetimeNat == Lifetime \in Nat
  BY SsoAssumption

LEMMA OlderType == \A age \in Ages : Older(age) \in Ages
  BY LifetimeNat DEF Ages, Older

LEMMA IdleType == \A reply \in Replies : Idle(reply) \in Request
  BY LifetimeNat DEF Idle, Request, Ages

LEMMA EnterType ==
  ASSUME SsoTypeOK, NEW r \in Requests, NEW s \in Attempts,
         NEW pc \in {"insert", "callback"}, Enter(r, pc, s)
  PROVE  req' \in [Requests -> Request]
<1>1. [pc |-> pc, attempt |-> s, age |-> 0, reply |-> "none"] \in Request
  BY LifetimeNat DEF Request, Ages, Replies
<1> QED BY <1>1 DEF Enter, SsoTypeOK

LEMMA FinishType ==
  ASSUME SsoTypeOK, NEW r \in Requests, NEW reply \in Replies, Finish(r, reply)
  PROVE  req' \in [Requests -> Request]
<1>1. Idle(reply) \in Request
  BY IdleType
<1> QED BY <1>1 DEF Finish, SsoTypeOK

LEMMA GotoType ==
  ASSUME SsoTypeOK, NEW r \in Requests, NEW pc \in {"exchange", "sign_on"},
         Goto(r, pc)
  PROVE  req' \in [Requests -> Request]
  BY DEF Goto, SsoTypeOK, Request

LEMMA FinishReq ==
  ASSUME SsoTypeOK, NEW r \in Requests, NEW reply, Finish(r, reply)
  PROVE  /\ req'[r].pc = "idle" /\ req'[r].attempt = None
         /\ \A q \in Requests : q # r => req'[q] = req[q]
  BY DEF SsoTypeOK, Finish, Idle

LEMMA GotoReq ==
  ASSUME SsoTypeOK, NEW r \in Requests, NEW pc, Goto(r, pc)
  PROVE  /\ req'[r].pc = pc /\ req'[r].attempt = req[r].attempt
         /\ \A q \in Requests : q # r => req'[q] = req[q]
<1>1. req[r] \in Request
  BY DEF SsoTypeOK
<1>2. req'[r] = [req[r] EXCEPT !.pc = pc]
  BY DEF SsoTypeOK, Goto
<1>3. \A q \in Requests : q # r => req'[q] = req[q]
  BY DEF SsoTypeOK, Goto
<1> QED BY <1>1, <1>2, <1>3 DEF Request

\* A request that is at work past "idle" works for an attempt.
Attended == \A r \in Requests : ~At(r, "idle") => req[r].attempt \in Attempts

LEMMA TypeStep ==
  ASSUME SsoTypeOK, Attended, [SsoNext]_ssoVars
  PROVE  SsoTypeOK'
<1> USE DEF SsoTypeOK
<1>1. ASSUME NEW r \in Requests, Login(r)  PROVE SsoTypeOK'
  BY <1>1, EnterType DEF Login
<1>2. ASSUME NEW r \in Requests, Insert(r)  PROVE SsoTypeOK'
  <2>1. req' \in [Requests -> Request]
    BY <1>2, FinishType DEF Insert, Replies
  <2>2. req[r].age \in Ages
    BY DEF Request
  <2>3. [life |-> "live", age |-> req[r].age] \in Row
    BY <2>2 DEF Row
  <2>4. attempt' \in [Attempts -> Row]
    BY <1>2, <2>3 DEF Insert
  <2>5. answer' \in [Attempts -> Answers]
    BY <1>2 DEF Insert, Answers
  <2> QED BY <1>2, <2>1, <2>4, <2>5 DEF Insert
<1>3. ASSUME NEW r \in Requests, Callback(r)  PROVE SsoTypeOK'
  BY <1>3, EnterType, FinishType DEF Callback, Replies
<1>4. ASSUME NEW r \in Requests, Consume(r)  PROVE SsoTypeOK'
  <2>1. req' \in [Requests -> Request]
    BY <1>4, FinishType, GotoType DEF Consume, Replies
  <2>2. attempt' \in [Attempts -> Row]
    BY <1>4 DEF Consume, Row
  <2>3. exchanges' \in [Attempts -> Nat]
    BY <1>4 DEF Consume
  <2> QED BY <1>4, <2>1, <2>2, <2>3 DEF Consume
<1>5. ASSUME NEW r \in Requests, Exchange(r)  PROVE SsoTypeOK'
  <2>1. req' \in [Requests -> Request]
    BY <1>5, FinishType, GotoType DEF Exchange, Replies
  <2> QED BY <1>5, <2>1 DEF Exchange, Answers
<1>6. ASSUME NEW r \in Requests, SignOn(r)  PROVE SsoTypeOK'
  <2>1. req' \in [Requests -> Request]
    BY <1>6, FinishType DEF SignOn, Replies
  <2> QED BY <1>6, <2>1 DEF SignOn
<1>7. ASSUME NEW r \in Requests, Abort(r)  PROVE SsoTypeOK'
  <2>1. req' \in [Requests -> Request]
    BY <1>7, FinishType DEF Abort, Replies
  <2> QED BY <1>7, <2>1 DEF Abort
<1>8. ASSUME NEW s \in Attempts, Answer(s)  PROVE SsoTypeOK'
  BY <1>8 DEF Answer, Answers
<1>9. CASE Purge
  BY <1>9 DEF Purge, Row
<1>10. CASE Tick
  <2>1. attempt' \in [Attempts -> Row]
    BY <1>10, OlderType DEF Tick, Row
  <2>2. req' \in [Requests -> Request]
    BY <1>10, OlderType DEF Tick, Request
  <2> QED BY <1>10, <2>1, <2>2 DEF Tick
<1>11. CASE UNCHANGED ssoVars
  BY <1>11 DEF ssoVars
<1> QED
  BY <1>1, <1>2, <1>3, <1>4, <1>5, <1>6, <1>7, <1>8, <1>9, <1>10, <1>11
  DEF SsoNext
-----------------------------------------------------------------------------
\* r has consumed s and has not signed on yet.
Underway(r, s) == req[r].pc \in {"exchange", "sign_on"} /\ req[r].attempt = s

\* UsedOnce is not inductive: it does not say that the sign-on still to come
\* is the only one.  Whoever is under way with s is alone with it, began its
\* exchange and has not signed on; before s is consumed nobody began one.
Sole ==
  /\ \A s \in Attempts, q, r \in Requests :
       Underway(q, s) /\ Underway(r, s) => q = r
  /\ \A s \in Attempts, r \in Requests :
       Underway(r, s) => exchanges[s] = 1 /\ signOns[s] = 0
  /\ \A s \in Attempts : attempt[s].life # "gone" => exchanges[s] = 0

\* The name of an attempt that is about to be stored is nobody else's, and the
\* provider has not been asked with it.
Reserved ==
  /\ \A s \in Attempts : attempt[s].life = "unborn" => answer[s] = "none"
  /\ \A r \in Requests : At(r, "insert") =>
       /\ attempt[req[r].attempt].life = "unborn"
       /\ \A q \in Requests : q # r => req[q].attempt # req[r].attempt

SsoInv == SsoTypeOK /\ Attended /\ Reserved /\ Sole /\ UsedOnce /\ InTime

LEMMA AttendedStep ==
  ASSUME SsoTypeOK, Attended, [SsoNext]_ssoVars
  PROVE  Attended'
<1> USE DEF SsoTypeOK, Attended, At
<1>1. ASSUME NEW r \in Requests, Login(r) \/ Callback(r)  PROVE Attended'
  BY <1>1 DEF Login, Callback, Enter, Finish, Idle
<1>2. ASSUME NEW r \in Requests, Insert(r) \/ SignOn(r) \/ Abort(r)
      PROVE  Attended'
  BY <1>2 DEF Insert, SignOn, Abort, Finish, Idle
<1>3. ASSUME NEW r \in Requests, Consume(r) \/ Exchange(r)  PROVE Attended'
  <2>1. CASE Goto(r, "exchange") \/ Goto(r, "sign_on")
    <3>1. ~At(r, "idle")
      BY <1>3 DEF Consume, Exchange
    <3>2. req'[r].attempt = req[r].attempt
      BY <2>1, GotoReq
    <3>3. \A q \in Requests : q # r => req'[q] = req[q]
      BY <2>1, GotoReq
    <3> QED BY <3>1, <3>2, <3>3
  <2>2. CASE Finish(r, "refused")
    BY <2>2, FinishReq
  <2> QED BY <1>3, <2>1, <2>2 DEF Consume, Exchange
<1>4. CASE Purge \/ (\E s \in Attempts : Answer(s)) \/ UNCHANGED ssoVars
  BY <1>4 DEF Purge, Answer, ssoVars
<1>5. CASE Tick
  BY <1>5 DEF Tick
<1> QED BY <1>1, <1>2, <1>3, <1>4, <1>5 DEF SsoNext

LEMMA ReservedStep ==
  ASSUME SsoTypeOK, Attended, Reserved, [SsoNext]_ssoVars
  PROVE  Reserved'
<1> USE DEF SsoTypeOK, Attended, Reserved, At
<1>1. ASSUME NEW r \in Requests, Login(r)  PROVE Reserved'
  <2>1. PICK s \in Attempts : /\ attempt[s].life = "unborn"
                              /\ \A q \in Requests : req[q].attempt # s
                              /\ Enter(r, "insert", s)
    BY <1>1 DEF Login
  <2>2. /\ req'[r].attempt = s
        /\ \A q \in Requests : q # r => req'[q] = req[q]
    BY <2>1 DEF Enter
  <2> QED BY <1>1, <2>1, <2>2 DEF Login
<1>2. ASSUME NEW r \in Requests, Insert(r)  PROVE Reserved'
  <2> DEFINE s == req[r].attempt
  <2>1. s \in Attempts
    BY <1>2 DEF Insert
  <2>2. req'[r].pc = "idle" /\ req'[r].attempt = None
    BY <1>2, FinishReq DEF Insert
  <2>3. \A q \in Requests : q # r => req'[q] = req[q]
    BY <1>2, FinishReq DEF Insert
  <2>4. /\ \A t \in Attempts : t # s => attempt'[t] = attempt[t]
                                     /\ answer'[t] = answer[t]
        /\ attempt'[s].life = "live"
    BY <1>2, <2>1 DEF Insert
  <2>5. \A q \in Requests : q # r => req[q].attempt # s
    BY <1>2 DEF Insert
  <2>6. None \notin Attempts
    BY SsoAssumption
  <2> QED BY <2>1, <2>2, <2>3, <2>4, <2>5, <2>6
<1>3. ASSUME NEW r \in Requests, Callback(r)  PROVE Reserved'
  <2>1. UNCHANGED <<attempt, answer>>
    BY <1>3 DEF Callback
  <2>2. CASE Finish(r, "refused")
    <3>1. None \notin Attempts
      BY SsoAssumption
    <3> QED BY <2>1, <2>2, <3>1, FinishReq
  <2>3. ASSUME NEW s \in Attempts, answer[s] \in {"code", "redeemed"},
               Enter(r, "callback", s)
        PROVE  Reserved'
    <3>1. /\ req'[r].attempt = s /\ req'[r].pc = "callback"
          /\ \A q \in Requests : q # r => req'[q] = req[q]
      BY <2>3 DEF Enter
    <3>2. attempt[s].life # "unborn"
      BY <2>3
    <3> QED BY <2>1, <3>1, <3>2
  <2> QED BY <1>3, <2>2, <2>3 DEF Callback
<1>4. ASSUME NEW r \in Requests, Consume(r) \/ Exchange(r)  PROVE Reserved'
  <2>1. /\ \A s \in Attempts : attempt'[s].life = "unborn" <=>
                                   attempt[s].life = "unborn"
        /\ \A s \in Attempts : answer[s] = "none" => answer'[s] = "none"
    <3>1. CASE Consume(r)
      <4>1. \A s \in Attempts : attempt'[s].life = "unborn" <=>
                                attempt[s].life = "unborn"
        BY <3>1 DEF Consume, Live, Row
      <4> QED BY <3>1, <4>1 DEF Consume
    <3>2. CASE Exchange(r)
      <4>1. attempt' = attempt
        BY <3>2 DEF Exchange
      <4>2. \A s \in Attempts : answer[s] = "none" => answer'[s] = "none"
        BY <3>2 DEF Exchange
      <4> QED BY <4>1, <4>2
    <3> QED BY <1>4, <3>1, <3>2
  <2>2. CASE Finish(r, "refused")
    <3>1. req'[r].pc = "idle" /\ req'[r].attempt = None
      BY <2>2, FinishReq
    <3>2. \A q \in Requests : q # r => req'[q] = req[q]
      BY <2>2, FinishReq
    <3>3. None \notin Attempts
      BY SsoAssumption
    <3> QED BY <2>1, <3>1, <3>2, <3>3
  <2>3. CASE Goto(r, "exchange") \/ Goto(r, "sign_on")
    <3>1. req'[r].pc # "insert" /\ req'[r].attempt = req[r].attempt
      BY <2>3, GotoReq
    <3>2. \A q \in Requests : q # r => req'[q] = req[q]
      BY <2>3, GotoReq
    <3> QED BY <2>1, <3>1, <3>2
  <2> QED BY <1>4, <2>2, <2>3 DEF Consume, Exchange
<1>5. ASSUME NEW r \in Requests, SignOn(r) \/ Abort(r)  PROVE Reserved'
  <2>1. UNCHANGED <<attempt, answer>>
    BY <1>5 DEF SignOn, Abort
  <2>2. ASSUME NEW reply, Finish(r, reply)  PROVE Reserved'
    <3>1. None \notin Attempts
      BY SsoAssumption
    <3> QED BY <2>1, <2>2, <3>1, FinishReq
  <2> QED BY <1>5, <2>2 DEF SignOn, Abort
<1>6. ASSUME NEW s \in Attempts, Answer(s)  PROVE Reserved'
  BY <1>6 DEF Answer
<1>7. CASE Purge
  BY <1>7 DEF Purge, Live
<1>8. CASE Tick
  <2>1. /\ \A s \in Attempts : attempt'[s].life = attempt[s].life
        /\ \A r \in Requests : req'[r].pc = req[r].pc
                                /\ req'[r].attempt = req[r].attempt
    BY <1>8 DEF Tick, Row, Request
  <2> QED BY <1>8, <2>1 DEF Tick
<1>9. CASE UNCHANGED ssoVars
  BY <1>9 DEF ssoVars
<1> QED
  BY <1>1, <1>2, <1>3, <1>4, <1>5, <1>6, <1>7, <1>8, <1>9 DEF SsoNext

\* One step of the strengthened invariant, action by action.
LEMMA SoleStep ==
  ASSUME SsoInv, [SsoNext]_ssoVars
  PROVE  Sole' /\ UsedOnce' /\ InTime'
<1> USE DEF SsoInv, SsoTypeOK, Sole, UsedOnce, InTime, Underway, At
<1>1. ASSUME NEW r \in Requests, Login(r) \/ Callback(r)
      PROVE  Sole' /\ UsedOnce' /\ InTime'
  BY <1>1 DEF Login, Callback, Enter, Finish, Idle
<1>2. ASSUME NEW r \in Requests, Insert(r)
      PROVE  Sole' /\ UsedOnce' /\ InTime'
  <2> DEFINE s == req[r].attempt
  <2>1. s \in Attempts
    BY <1>2 DEF Insert, Attended
  <2>2. Finish(r, "ok") /\ UNCHANGED <<exchanges, signOns>>
    BY <1>2 DEF Insert
  <2>3. \A q \in Requests, t \in Attempts : Underway(q, t)' => Underway(q, t)
    BY <2>2, FinishReq
  <2>4. /\ \A t \in Attempts : t # s => attempt'[t] = attempt[t]
        /\ attempt'[s].life = "live"
    BY <1>2, <2>1 DEF Insert
  <2>5. attempt[s].life # "gone"
    BY <1>2, <2>1 DEF Insert, Reserved, At
  <2> QED BY <2>1, <2>2, <2>3, <2>4, <2>5
<1>3. ASSUME NEW r \in Requests, Consume(r)
      PROVE  Sole' /\ UsedOnce' /\ InTime'
  <2> DEFINE s == req[r].attempt
  <2>1. s \in Attempts
    BY <1>3 DEF Consume, Attended
  <2>2. /\ \A t \in Attempts : t # s => attempt'[t] = attempt[t]
        /\ attempt'[s].age = attempt[s].age
        /\ Live(s) => attempt'[s].life = "gone"
        /\ ~Live(s) => attempt'[s].life = attempt[s].life
    BY <1>3, <2>1 DEF Consume, Row
  <2>3. CASE Live(s) /\ ~TooLate(s)
    <3>1. Goto(r, "exchange") /\ exchanges' = [exchanges EXCEPT ![s] = @ + 1]
          /\ signOns' = signOns
      BY <1>3, <2>3 DEF Consume
    <3>2. exchanges[s] = 0
      BY <2>1, <2>3 DEF Live
    <3>3. exchanges'[s] = 1
          /\ \A t \in Attempts : t # s => exchanges'[t] = exchanges[t]
      BY <2>1, <3>1, <3>2
    <3>4. \A q \in Requests : ~Underway(q, s)
      BY <2>1, <3>2
    <3>5. attempt'[s].age <= Lifetime
      BY <2>1, <2>2, <2>3, LifetimeNat DEF TooLate, Row, Ages
    <3>6. \A q \in Requests : q # r => req'[q] = req[q]
      BY <3>1, GotoReq
    <3>7. req'[r].pc = "exchange" /\ req'[r].attempt = s
      BY <3>1, GotoReq
    <3>8. signOns[s] = 0
      BY <2>1, <3>2
    <3> HIDE DEF s
    <3>9. Sole'
      BY <2>1, <2>2, <2>3, <3>1, <3>3, <3>4, <3>6, <3>7, <3>8
    <3>10. UsedOnce' /\ InTime'
      BY <2>1, <2>2, <2>3, <3>1, <3>3, <3>5, <3>8
    <3> QED BY <3>9, <3>10
  <2>4. CASE ~(Live(s) /\ ~TooLate(s))
    <3>1. Finish(r, "refused") /\ UNCHANGED <<exchanges, signOns>>
      BY <1>3, <2>4 DEF Consume
    <3>2. \A q \in Requests, t \in Attempts : Underway(q, t)' => Underway(q, t)
      BY <3>1, FinishReq
    <3> HIDE DEF s
    <3>3. \A t \in Attempts : attempt'[t].life # "gone" =>
                               attempt[t].life # "gone"
      BY <2>1, <2>2
    <3>4. \A t \in Attempts : attempt'[t].age = attempt[t].age
      BY <2>1, <2>2
    <3> QED BY <3>1, <3>2, <3>3, <3>4
  <2> QED BY <2>3, <2>4
<1>4. ASSUME NEW r \in Requests, Exchange(r)
      PROVE  Sole' /\ UsedOnce' /\ InTime'
  <2>1. UNCHANGED <<attempt, exchanges, signOns>>
    BY <1>4 DEF Exchange
  <2>2. \A q \in Requests, t \in Attempts : Underway(q, t)' => Underway(q, t)
    <3>1. CASE Finish(r, "refused")
      BY <3>1, FinishReq
    <3>2. CASE Goto(r, "sign_on")
      <4>1. req[r].pc = "exchange" /\ req'[r].attempt = req[r].attempt
        BY <1>4, <3>2, GotoReq DEF Exchange
      <4>2. \A q \in Requests : q # r => req'[q] = req[q]
        BY <3>2, GotoReq
      <4> QED BY <4>1, <4>2
    <3> QED BY <1>4, <3>1, <3>2 DEF Exchange
  <2> QED BY <2>1, <2>2
<1>5. ASSUME NEW r \in Requests, SignOn(r)
      PROVE  Sole' /\ UsedOnce' /\ InTime'
  BY <1>5 DEF SignOn, Finish, Idle
<1>6. ASSUME NEW r \in Requests, Abort(r)
      PROVE  Sole' /\ UsedOnce' /\ InTime'
  BY <1>6 DEF Abort, Finish, Idle
<1>7. ASSUME NEW s \in Attempts, Answer(s)
      PROVE  Sole' /\ UsedOnce' /\ InTime'
  BY <1>7 DEF Answer
<1>8. CASE Purge
  BY <1>8 DEF Purge, Live
<1>9. CASE Tick
  BY <1>9 DEF Tick, Live
<1>10. CASE UNCHANGED ssoVars
  BY <1>10 DEF ssoVars
<1> QED
  BY <1>1, <1>2, <1>3, <1>4, <1>5, <1>6, <1>7, <1>8, <1>9, <1>10 DEF SsoNext

LEMMA SsoInductive == SsoSpec => []SsoInv
<1>1. SsoInit => SsoInv
  BY LifetimeNat DEF SsoInit, SsoInv, SsoTypeOK, Attended, Reserved, Sole, UsedOnce,
     InTime, Underway, At, Idle, Row, Ages, Answers, Replies, Request
<1>2. SsoInv /\ [SsoNext]_ssoVars => SsoInv'
  BY TypeStep, AttendedStep, ReservedStep, SoleStep DEF SsoInv
<1> QED
  BY <1>1, <1>2, PTL DEF SsoSpec

\* An attempt is exchanged once and signs on once at most, however many
\* callbacks of it are handled at the same time.
THEOREM OneExchange == SsoSpec => []UsedOnce
  BY SsoInductive, PTL DEF SsoInv

\* The variables of SsoFlow keep their types.
THEOREM SsoTyped == SsoSpec => []SsoTypeOK
  BY SsoInductive, PTL DEF SsoInv

\* It was consumed within its lifetime if it was exchanged at all.
THEOREM ExchangedInTime == SsoSpec => []InTime
  BY SsoInductive, PTL DEF SsoInv

\* Until it expires an attempt is ended by its own callback only.
THEOREM Kept == SsoSpec => AttemptKept
<1>1. SsoInv /\ [SsoNext]_ssoVars =>
        [\A s \in Attempts : Live(s) /\ attempt[s].age < Lifetime =>
           \/ Live(s)'
           \/ \E r \in Requests : /\ At(r, "callback") /\ req[r].attempt = s
                                  /\ At(r, "exchange")']_ssoVars
  <2> SUFFICES ASSUME SsoInv, SsoNext, NEW s \in Attempts, Live(s),
                      attempt[s].age < Lifetime
               PROVE  \/ Live(s)'
                      \/ \E r \in Requests :
                           /\ At(r, "callback") /\ req[r].attempt = s
                           /\ At(r, "exchange")'
    BY DEF ssoVars, Live, At
  <2> USE DEF SsoInv, SsoTypeOK, Live
  <2>1. ASSUME NEW r \in Requests, Consume(r)
        PROVE  \/ Live(s)'
               \/ /\ At(r, "callback") /\ req[r].attempt = s
                  /\ At(r, "exchange")'
    <3>1. CASE req[r].attempt = s
      <4>1. ~TooLate(s)
        BY LifetimeNat DEF Stale, TooLate, Row, Ages
      <4>2. Goto(r, "exchange") /\ At(r, "callback")
        BY <2>1, <3>1, <4>1 DEF Consume
      <4> QED BY <3>1, <4>2, GotoReq DEF At
    <3>2. CASE req[r].attempt # s
      BY <2>1, <3>2 DEF Consume
    <3> QED BY <3>1, <3>2
  <2>2. ASSUME NEW r \in Requests, Insert(r)  PROVE Live(s)'
    BY <2>2 DEF Insert
  <2>3. ASSUME NEW r \in Requests, Login(r) \/ Callback(r) \/ Exchange(r)
                                     \/ SignOn(r) \/ Abort(r)
        PROVE  Live(s)'
    BY <2>3 DEF Login, Callback, Exchange, SignOn, Abort
  <2>4. ASSUME NEW t \in Attempts, Answer(t)  PROVE Live(s)'
    BY <2>4 DEF Answer
  <2>5. CASE Purge
    BY <2>5, LifetimeNat DEF Purge, Stale, Row, Ages
  <2>6. CASE Tick
    BY <2>6 DEF Tick, Row
  <2> QED BY <2>1, <2>2, <2>3, <2>4, <2>5, <2>6 DEF SsoNext
<1> QED
  BY <1>1, SsoInductive, PTL DEF SsoSpec, AttemptKept
=============================================================================
