---------------------------- MODULE SessionProofs ----------------------------
(***************************************************************************)
(* The session store AuthSessions and the two modules that are built over  *)
(* it: Browser, the tabs that hold its tokens, and Startup, the process    *)
(* that serves it.  For any numbers of accounts, tokens, requests and      *)
(* tabs, and any time to live.                                             *)
(*                                                                         *)
(* 1. SessionTypeOK, NoOrphan and LateBound together are inductive.        *)
(*    Nothing brings a dead token back to life, so that after its death    *)
(*    the requests working under it only get fewer, one for each that is   *)
(*    counted as late.                                                     *)
(* 2. The tabs go through steps of AuthSessions, so what was proved of the *)
(*    store holds of the composition; a logout that was answered has ended *)
(*    its session; who was shown the login form is signed on by logging in *)
(*    only; and a page shows the account that its calls act as.            *)
(* 3. Startup does to the store what AuthSessions does, or loses all       *)
(*    requests at once, or takes another secret; and a server that serves  *)
(*    is ready to.                                                         *)
(***************************************************************************)
EXTENDS Browser, Startup, FiniteSetTheorems, TLAPS

SessionInv == SessionTypeOK /\ NoOrphan /\ LateBound

(* Counting.                                                               *)

\* Among the requests, a set counts no more than one that contains it.
LEMMA Fewer ==
  ASSUME NEW S \in SUBSET Requests, NEW T \in SUBSET Requests, S \subseteq T
  PROVE  /\ Cardinality(S) \in Nat
         /\ Cardinality(T) \in Nat
         /\ Cardinality(S) <= Cardinality(T)
<1>1. IsFiniteSet(Requests)
  BY SessionAssumption
<1>2. IsFiniteSet(S) /\ IsFiniteSet(T)
  BY <1>1, FS_Subset
<1> QED
  BY <1>2, FS_Subset, FS_CardinalityType

\* A set of requests without one of its members counts one less.
LEMMA OneLess ==
  ASSUME NEW T \in SUBSET Requests, NEW r \in T
  PROVE  /\ Cardinality(T) \in Nat
         /\ Cardinality(T \ {r}) \in Nat
         /\ Cardinality(T \ {r}) + 1 = Cardinality(T)
<1>1. IsFiniteSet(T)
  BY SessionAssumption, FS_Subset
<1>2. Cardinality(T \ {r}) = Cardinality(T) - 1
  BY <1>1, FS_RemoveElement
<1> QED
  BY <1>2, <1>1, FS_RemoveElement, FS_CardinalityType
-----------------------------------------------------------------------------
(* Types.                                                                  *)

LEMMA IdleType == Idle \in Request /\ Idle.pc = "idle"
BY SessionAssumption DEF Idle, Request

LEMMA OlderType ==
  ASSUME NEW age \in 0 .. Ttl
  PROVE  Older(age) \in 0 .. Ttl /\ (age = Ttl => Older(age) = Ttl)
BY SessionAssumption DEF Older

\* Counting one more keeps a counter.
LEMMA LateType ==
  ASSUME SessionTypeOK, NEW r \in Requests, Act(r) \/ Logout(r)
  PROVE  late' \in [Tokens -> Nat]
<1> DEFINE t == req[r].token
<1>1. CASE Dead(t)
  <2>1. late' = [late EXCEPT ![t] = late[t] + 1]
    BY <1>1 DEF Act, Logout
  <2>2. t \in Tokens => late[t] + 1 \in Nat
    BY DEF SessionTypeOK
  <2> HIDE DEF t
  <2> QED BY <2>1, <2>2 DEF SessionTypeOK
<1>2. CASE ~Dead(t)
  BY <1>2 DEF Act, Logout, SessionTypeOK
<1> QED
  BY <1>1, <1>2

LEMMA TypeStep ==
  ASSUME SessionTypeOK, [SessionNext]_sessionVars
  PROVE  SessionTypeOK'
<1>0. secret' = secret
  BY DEF SessionNext, sessionVars
<1> USE <1>0, SessionAssumption DEF SessionTypeOK
<1>1. ASSUME NEW r \in Requests, Receive(r)  PROVE SessionTypeOK'
  <2>1. CASE \E t \in Tokens, goal \in {"act", "logout"} :
               req' = [req EXCEPT ![r] =
                 [pc |-> "resolve", goal |-> goal, token |-> t,
                  user |-> None, age |-> 0]]
    BY <1>1, <2>1 DEF Receive, Request
  <2>2. CASE \E u \in accounts : req' = [req EXCEPT ![r] =
               [pc |-> "insert", goal |-> "none", token |-> None,
                user |-> u, age |-> 0]]
    BY <1>1, <2>2 DEF Receive, Request
  <2> QED BY <1>1, <2>1, <2>2 DEF Receive
<1>2. ASSUME NEW r \in Requests, Abort(r)  PROVE SessionTypeOK'
  <2>1. Idle \in Request
    BY IdleType
  <2> QED BY <1>2, <2>1 DEF Abort, Finish
<1>3. ASSUME NEW r \in Requests, CreateSession(r)  PROVE SessionTypeOK'
  <2>1. Idle \in Request
    BY IdleType
  <2>2. req' \in [Requests -> Request]
    BY <1>3, <2>1 DEF CreateSession, Finish
  <2>3. req[r].age \in 0 .. Ttl
    BY DEF Request
  <2>4. token' \in [Tokens -> TokenRow]
    BY <1>3, <2>3 DEF CreateSession, TokenRow
  <2> QED BY <1>3, <2>2, <2>4 DEF CreateSession
<1>4. ASSUME NEW r \in Requests, Resolve(r)  PROVE SessionTypeOK'
  <2>1. req[r].token \in Tokens /\ req[r].goal \in {"act", "logout"}
    BY <1>4 DEF Resolve, At, Request
  <2>2. CASE Valid(req[r].token)
    <3>1. token[req[r].token].user \in Users \cup {None}
      BY <2>1 DEF TokenRow
    <3>2. [pc |-> req[r].goal, goal |-> "none", token |-> req[r].token,
           user |-> token[req[r].token].user, age |-> 0]
            \in Request
      BY <2>1, <3>1 DEF Request
    <3> QED BY <1>4, <2>2, <3>2 DEF Resolve
  <2>3. CASE ~Valid(req[r].token)
    <3>1. Idle \in Request
      BY IdleType
    <3> QED BY <1>4, <2>3, <3>1 DEF Resolve, Finish
  <2> QED BY <2>2, <2>3
<1>5. ASSUME NEW r \in Requests, Act(r)  PROVE SessionTypeOK'
  <2>1. Idle \in Request
    BY IdleType
  <2>2. late' \in [Tokens -> Nat]
    BY <1>5, LateType
  <2>3. req' \in [Requests -> Request]
    BY <1>5, <2>1 DEF Act, Finish
  <2>4. accounts' \subseteq Users /\ token' \in [Tokens -> TokenRow]
    BY <1>5 DEF Act
  <2> QED BY <2>2, <2>3, <2>4
<1>6. ASSUME NEW r \in Requests, Logout(r)  PROVE SessionTypeOK'
  <2>1. token' \in [Tokens -> TokenRow]
    BY <1>6 DEF Logout, TokenRow, NoRow
  <2>2. Idle \in Request
    BY IdleType
  <2>3. late' \in [Tokens -> Nat]
    BY <1>6, LateType
  <2>4. req' \in [Requests -> Request]
    BY <1>6, <2>2 DEF Logout, Finish
  <2>5. accounts' \subseteq Users
    BY <1>6 DEF Logout
  <2> QED BY <2>1, <2>3, <2>4, <2>5
<1>7. ASSUME NEW u \in Users, EraseUser(u)  PROVE SessionTypeOK'
  BY <1>7 DEF EraseUser, TokenRow, NoRow
<1>8. CASE Purge
  BY <1>8 DEF Purge, TokenRow, NoRow
<1>9. CASE Tick
  <2>1. token' \in [Tokens -> TokenRow]
    BY <1>9, OlderType DEF Tick, TokenRow
  <2>2. req' \in [Requests -> Request]
    <3> SUFFICES ASSUME NEW r \in Requests PROVE req'[r] \in Request
      BY <1>9 DEF Tick
    <3>1. CASE At(r, "insert")
      BY <1>9, <3>1, OlderType DEF Tick, Request, At
    <3>2. CASE ~At(r, "insert")
      BY <1>9, <3>2 DEF Tick
    <3> QED BY <3>1, <3>2
  <2> QED BY <1>9, <2>1, <2>2 DEF Tick
<1>10. CASE UNCHANGED sessionVars
  BY <1>10 DEF sessionVars
<1> QED
  BY <1>1, <1>2, <1>3, <1>4, <1>5, <1>6, <1>7, <1>8, <1>9, <1>10
  DEF SessionNext
-----------------------------------------------------------------------------
(* Owners.                                                                 *)

LEMMA OrphanStep ==
  ASSUME SessionTypeOK, NoOrphan, [SessionNext]_sessionVars
  PROVE  NoOrphan'
<1> USE DEF SessionTypeOK, NoOrphan, Live
<1>1. ASSUME NEW r \in Requests,
             Receive(r) \/ Abort(r) \/ Resolve(r) \/ Act(r)
      PROVE  NoOrphan'
  BY <1>1 DEF Receive, Abort, Resolve, Act
<1>2. ASSUME NEW r \in Requests, CreateSession(r)  PROVE NoOrphan'
  BY <1>2 DEF CreateSession
<1>3. ASSUME NEW r \in Requests, Logout(r)  PROVE NoOrphan'
  BY <1>3 DEF Logout, NoRow
<1>4. ASSUME NEW u \in Users, EraseUser(u)  PROVE NoOrphan'
  BY <1>4 DEF EraseUser, NoRow
<1>5. CASE Purge
  BY <1>5 DEF Purge, NoRow
<1>6. CASE Tick
  BY <1>6 DEF Tick
<1>7. CASE UNCHANGED sessionVars
  BY <1>7 DEF sessionVars
<1> QED
  BY <1>1, <1>2, <1>3, <1>4, <1>5, <1>6, <1>7 DEF SessionNext
-----------------------------------------------------------------------------
(* Late requests.                                                          *)

\* Death is final.
LEMMA DeathIsFinal ==
  ASSUME SessionTypeOK, [SessionNext]_sessionVars, NEW t \in Tokens, Dead(t)
  PROVE  Dead(t)'
<1> USE DEF SessionTypeOK, Dead, Expired, Live
<1>1. ASSUME NEW r \in Requests,
             Receive(r) \/ Abort(r) \/ Resolve(r) \/ Act(r)
      PROVE  Dead(t)'
  BY <1>1 DEF Receive, Abort, Resolve, Act
<1>2. ASSUME NEW r \in Requests, CreateSession(r)  PROVE Dead(t)'
  BY <1>2 DEF CreateSession
<1>3. ASSUME NEW r \in Requests, Logout(r)  PROVE Dead(t)'
  BY <1>3 DEF Logout, NoRow
<1>4. ASSUME NEW u \in Users, EraseUser(u)  PROVE Dead(t)'
  BY <1>4 DEF EraseUser, NoRow
<1>5. CASE Purge
  BY <1>5 DEF Purge, NoRow
<1>6. CASE Tick
  <2>1. token[t].age = Ttl => Older(token[t].age) = Ttl
    BY SessionAssumption DEF Older
  <2> QED BY <1>6, <2>1 DEF Tick
<1>7. CASE UNCHANGED sessionVars
  BY <1>7 DEF sessionVars
<1> QED
  BY <1>1, <1>2, <1>3, <1>4, <1>5, <1>6, <1>7 DEF SessionNext

\* A request does not start to work under a dead token.
LEMMA NoNewWork ==
  ASSUME SessionTypeOK, [SessionNext]_sessionVars, NEW t \in Tokens, Dead(t)
  PROVE  Working(t)' \subseteq Working(t)
<1> USE DEF SessionTypeOK, Working
<1>1. ASSUME NEW r \in Requests, Receive(r)
      PROVE  Working(t)' \subseteq Working(t)
  BY <1>1 DEF Receive
<1>2. ASSUME NEW r \in Requests,
             Abort(r) \/ CreateSession(r) \/ Act(r) \/ Logout(r)
      PROVE  Working(t)' \subseteq Working(t)
  BY <1>2 DEF Abort, CreateSession, Act, Logout, Finish, Idle
<1>3. ASSUME NEW r \in Requests, Resolve(r)
      PROVE  Working(t)' \subseteq Working(t)
  <2>1. ~Valid(t)
    BY DEF Dead, Valid, Expired, Live
  <2>2. CASE Valid(req[r].token)
    BY <1>3, <2>1, <2>2 DEF Resolve
  <2>3. CASE ~Valid(req[r].token)
    BY <1>3, <2>3 DEF Resolve, Finish, Idle
  <2> QED BY <2>2, <2>3
<1>4. ASSUME NEW u \in Users, EraseUser(u)
      PROVE  Working(t)' \subseteq Working(t)
  BY <1>4 DEF EraseUser
<1>5. CASE Purge
  BY <1>5 DEF Purge
<1>6. CASE Tick
  <2> SUFFICES ASSUME NEW r \in Requests, r \in Working(t)'
               PROVE  r \in Working(t)
    OBVIOUS
  <2>1. CASE At(r, "insert")
    <3>1. req'[r].pc = "insert"
      BY <1>6, <2>1 DEF Tick, At, Request
    <3> QED BY <3>1
  <2>2. CASE ~At(r, "insert")
    BY <1>6, <2>2 DEF Tick
  <2> QED BY <2>1, <2>2
<1>7. CASE UNCHANGED sessionVars
  BY <1>7 DEF sessionVars
<1> QED
  BY <1>1, <1>2, <1>3, <1>4, <1>5, <1>6, <1>7 DEF SessionNext

\* A request that goes to work under a dead token stops being one of those
\* that work under it.
LEMMA CountedOnce ==
  ASSUME SessionTypeOK, NEW r \in Requests, Act(r) \/ Logout(r),
         NEW t, t = req[r].token
  PROVE  /\ r \in Working(t)
         /\ Working(t)' = Working(t) \ {r}
<1>1. r \in Working(t)
  BY DEF Act, Logout, At, Working
<1>2. req' = [req EXCEPT ![r] = Idle]
  BY DEF Act, Logout, Finish
<1>3. Idle.pc = "idle"
  BY DEF Idle
<1>4. Working(t)' = Working(t) \ {r}
  BY <1>2, <1>3 DEF SessionTypeOK, Working
<1> QED
  BY <1>1, <1>4

\* A step that leaves the counter of t alone.
LEMMA LateUnchanged ==
  ASSUME SessionTypeOK, LateBound, [SessionNext]_sessionVars,
         NEW t \in Tokens, late'[t] = late[t]
  PROVE  IF Dead(t)' THEN late'[t] + Cardinality(Working(t)')
                            <= Cardinality(Requests)
                     ELSE late'[t] = 0
<1>1. Working(t)' \in SUBSET Requests /\ Working(t) \in SUBSET Requests
  BY DEF Working
<1>2. Requests \in SUBSET Requests /\ late[t] \in Nat
  BY DEF SessionTypeOK
<1>3. CASE Dead(t)
  <2>1. Dead(t)' /\ Working(t)' \subseteq Working(t)
    BY <1>3, DeathIsFinal, NoNewWork
  <2>2. /\ Cardinality(Working(t)') \in Nat
        /\ Cardinality(Working(t)) \in Nat
        /\ Cardinality(Working(t)') <= Cardinality(Working(t))
    BY <1>1, <2>1, Fewer
  <2>3. Cardinality(Requests) \in Nat
    BY <1>2, Fewer
  <2>4. late[t] + Cardinality(Working(t)) <= Cardinality(Requests)
    BY <1>3 DEF LateBound
  <2> QED BY <1>2, <2>1, <2>2, <2>3, <2>4
<1>4. CASE ~Dead(t)
  <2>1. late'[t] = 0
    BY <1>4 DEF LateBound
  <2>2. /\ Cardinality(Working(t)') \in Nat
        /\ Cardinality(Working(t)') <= Cardinality(Requests)
    BY <1>1, <1>2, Fewer
  <2> QED BY <2>1, <2>2
<1> QED
  BY <1>3, <1>4

LEMMA LateStep ==
  ASSUME SessionTypeOK, LateBound, [SessionNext]_sessionVars
  PROVE  LateBound'
<1> SUFFICES ASSUME NEW t \in Tokens
             PROVE  IF Dead(t)' THEN late'[t] + Cardinality(Working(t)')
                                       <= Cardinality(Requests)
                                ELSE late'[t] = 0
  BY DEF LateBound
<1>1. ASSUME NEW r \in Requests, Act(r) \/ Logout(r), req[r].token = t,
             Dead(t)
      PROVE  IF Dead(t)' THEN late'[t] + Cardinality(Working(t)')
                                <= Cardinality(Requests)
                         ELSE late'[t] = 0
  <2>1. Dead(t)'
    BY <1>1, DeathIsFinal
  <2>2. r \in Working(t) /\ Working(t)' = Working(t) \ {r}
    BY <1>1, CountedOnce
  <2>3. /\ Cardinality(Working(t)) \in Nat
        /\ Cardinality(Working(t)') \in Nat
        /\ Cardinality(Working(t)') + 1 = Cardinality(Working(t))
    <3>1. Working(t) \in SUBSET Requests
      BY DEF Working
    <3> QED BY <2>2, <3>1, OneLess
  <2>4. late'[t] = late[t] + 1 /\ late[t] \in Nat
    BY <1>1 DEF Act, Logout, SessionTypeOK
  <2>5. late[t] + Cardinality(Working(t)) <= Cardinality(Requests)
    BY <1>1 DEF LateBound
  <2>6. Cardinality(Requests) \in Nat
    BY Fewer
  <2> QED BY <2>1, <2>3, <2>4, <2>5, <2>6
<1>2. ASSUME NEW r \in Requests, Act(r) \/ Logout(r),
             req[r].token # t \/ ~Dead(t)
      PROVE  late'[t] = late[t]
  BY <1>2 DEF Act, Logout, SessionTypeOK
<1>3. ASSUME NEW r \in Requests,
             Receive(r) \/ Abort(r) \/ CreateSession(r) \/ Resolve(r)
      PROVE  late'[t] = late[t]
  BY <1>3 DEF Receive, Abort, CreateSession, Resolve
<1>4. ASSUME (\E u \in Users : EraseUser(u)) \/ Purge \/ Tick
      PROVE  late'[t] = late[t]
  BY <1>4 DEF EraseUser, Purge, Tick
<1>5. CASE UNCHANGED sessionVars
  <2>1. late'[t] = late[t]
    BY <1>5 DEF sessionVars
  <2> QED BY <2>1, LateUnchanged
<1>6. CASE SessionNext
  <2>1. CASE \E r \in Requests : /\ Act(r) \/ Logout(r)
                                 /\ req[r].token = t
                                 /\ Dead(t)
    BY <2>1, <1>1
  <2>2. CASE ~(\E r \in Requests : /\ Act(r) \/ Logout(r)
                                   /\ req[r].token = t
                                   /\ Dead(t))
    <3>1. late'[t] = late[t]
      BY <1>6, <2>2, <1>2, <1>3, <1>4 DEF SessionNext
    <3> QED BY <3>1, LateUnchanged
  <2> QED BY <2>1, <2>2
<1> QED
  BY <1>5, <1>6
-----------------------------------------------------------------------------
(* The theorems.                                                           *)

LEMMA SessionInvInit == SessionInit => SessionInv
<1> SUFFICES ASSUME SessionInit PROVE SessionInv
  OBVIOUS
<1>1. SessionTypeOK
  <2>1. Idle \in Request
    BY IdleType
  <2>2. NoRow("unborn") \in TokenRow
    BY SessionAssumption DEF NoRow, TokenRow
  <2> QED BY <2>1, <2>2 DEF SessionInit, SessionTypeOK
<1>2. \A t \in Tokens : token[t].life = "unborn"
  BY DEF SessionInit, NoRow
<1>3. NoOrphan
  BY <1>2 DEF NoOrphan, Live
<1>4. LateBound
  BY <1>2 DEF LateBound, Dead, Expired, Live, SessionInit
<1> QED
  BY <1>1, <1>3, <1>4 DEF SessionInv

\* In every reachable state the variables have their types, every session
\* belongs to an account that exists, and no token that has died is worked
\* under by more requests than were under way.
THEOREM SessionsSafe == SessionSpec => [](SessionTypeOK /\ NoOrphan /\ LateBound)
<1>1. SessionInit => SessionInv
  BY SessionInvInit
<1>2. SessionInv /\ [SessionNext]_sessionVars => SessionInv'
  BY TypeStep, OrphanStep, LateStep DEF SessionInv
<1>3. SessionInv => SessionTypeOK /\ NoOrphan /\ LateBound
  BY DEF SessionInv
<1> QED
  BY <1>1, <1>2, <1>3, PTL DEF SessionSpec

\* The variables of AuthSessions keep their types.
THEOREM SessionsTyped == SessionSpec => []SessionTypeOK
  BY SessionsSafe, PTL

\* Every session belongs to an account that exists: erasing one takes its
\* sessions with it, and a login that comes too late gets none.
THEOREM NoneOrphaned == SessionSpec => []NoOrphan
  BY SessionsSafe, PTL

\* What the rows leave of a session: that its time has come.
RunsOut(t) == token'[t].life = "live" /\ token'[t].age = Ttl

\* A session in effect ends with a logout under its own token, with its
\* account, or by time: no other logout, no purge and no login ends it.
LEMMA KeptStep ==
  ASSUME SessionTypeOK, SessionNext, NEW t \in Tokens, InEffect(t)
  PROVE  \/ InEffect(t)'
         \/ token[t].user \notin accounts'
         \/ \E r \in Working(t) : req[r].pc = "logout" /\ req'[r].pc = "idle"
         \/ RunsOut(t)
<1> USE DEF SessionTypeOK, InEffect
<1>0. secret' = secret
  BY DEF SessionNext
<1>1. ASSUME NEW r \in Requests,
             Receive(r) \/ Abort(r) \/ Resolve(r) \/ Act(r)
      PROVE  InEffect(t)'
  BY <1>0, <1>1 DEF Receive, Abort, Resolve, Act
<1>2. ASSUME NEW r \in Requests, CreateSession(r)  PROVE InEffect(t)'
  BY <1>0, <1>2 DEF CreateSession
<1>3. ASSUME NEW r \in Requests, Logout(r), req[r].token = t
      PROVE  r \in Working(t) /\ req[r].pc = "logout" /\ req'[r].pc = "idle"
  BY <1>3 DEF Logout, At, Working, Finish, Idle
<1>4. ASSUME NEW r \in Requests, Logout(r), req[r].token # t
      PROVE  InEffect(t)'
  BY <1>0, <1>4 DEF Logout
<1>5. ASSUME NEW u \in Users, EraseUser(u)
      PROVE  InEffect(t)' \/ token[t].user \notin accounts'
  BY <1>0, <1>5 DEF EraseUser, Live
<1>6. CASE Purge
  BY <1>0, <1>6, SessionAssumption DEF Purge, Expired, Live
<1>7. CASE Tick
  <2>1. token[t].age \in 0 .. Ttl
    BY DEF TokenRow
  <2>2. /\ token'[t].life = "live" /\ token'[t].key = token[t].key
        /\ token'[t].age = token[t].age + 1
    BY <1>7, <2>1, SessionAssumption DEF Tick, Older, Live
  <2>3. token'[t].age < Ttl \/ token'[t].age = Ttl
    BY <2>1, <2>2, SessionAssumption
  <2> QED BY <1>0, <2>2, <2>3 DEF RunsOut
<1> QED
  BY <1>1, <1>2, <1>3, <1>4, <1>5, <1>6, <1>7 DEF SessionNext

\* So in the store on its own.
THEOREM KeptValid == SessionSpec => SessionKept
<1> DEFINE Step == \A t \in Tokens : InEffect(t) =>
             \/ InEffect(t)'
             \/ token[t].user \notin accounts'
             \/ \E r \in Working(t) : req[r].pc = "logout" /\ req'[r].pc = "idle"
             \/ secret' # secret
             \/ token'[t].life = "live" /\ token'[t].age = Ttl
<1>1. SessionTypeOK /\ [SessionNext]_sessionVars => [Step]_sessionVars
  BY KeptStep DEF RunsOut
<1> QED
  BY <1>1, SessionsSafe, PTL DEF SessionSpec, SessionKept

\* As long as the server keeps its secret, there are no rows that it does not
\* find: a token it refuses is dead.
OneKey == \A t \in Tokens : token[t].life = "live" => token[t].key = secret

LEMMA OneKeyStep ==
  ASSUME SessionTypeOK, OneKey, [SessionNext]_sessionVars
  PROVE  OneKey'
<1> USE DEF SessionTypeOK, OneKey
<1>0. secret' = secret
  BY DEF SessionNext, sessionVars
<1>1. ASSUME NEW r \in Requests,
             Receive(r) \/ Abort(r) \/ Resolve(r) \/ Act(r)
      PROVE  OneKey'
  BY <1>0, <1>1 DEF Receive, Abort, Resolve, Act
<1>2. ASSUME NEW r \in Requests, CreateSession(r)  PROVE OneKey'
  BY <1>0, <1>2 DEF CreateSession
<1>3. ASSUME NEW r \in Requests, Logout(r)  PROVE OneKey'
  BY <1>0, <1>3 DEF Logout, NoRow
<1>4. ASSUME NEW u \in Users, EraseUser(u)  PROVE OneKey'
  BY <1>0, <1>4 DEF EraseUser, NoRow
<1>5. CASE Purge
  BY <1>0, <1>5 DEF Purge, NoRow
<1>6. CASE Tick
  BY <1>0, <1>6 DEF Tick, Live
<1>7. CASE UNCHANGED sessionVars
  BY <1>7 DEF sessionVars
<1> QED
  BY <1>1, <1>2, <1>3, <1>4, <1>5, <1>6, <1>7 DEF SessionNext

LEMMA KeptKey == SessionSpec => []OneKey
<1>1. SessionInit => OneKey
  BY DEF SessionInit, OneKey, NoRow
<1>2. SessionTypeOK /\ OneKey /\ [SessionNext]_sessionVars => OneKey'
  BY OneKeyStep
<1> QED BY <1>1, <1>2, SessionsTyped, PTL DEF SessionSpec

\* A token that was logged out, has expired, or went with its account never
\* authenticates again.
THEOREM DeadForGood ==
  SessionSpec => [][\A t \in Tokens : Dead(t) => Dead(t)']_sessionVars
<1>1. SessionTypeOK /\ [SessionNext]_sessionVars
        => [\A t \in Tokens : Dead(t) => Dead(t)']_sessionVars
  BY DeathIsFinal
<1> QED BY <1>1, SessionsTyped, PTL DEF SessionSpec
-----------------------------------------------------------------------------
(* The tabs over the store: Browser.                                       *)

\* A fetch with the cookie reaches the server as a request, or not at all.
LEMMA CookieStep ==
  ASSUME NEW r \in Requests, NEW b \in Tabs, NEW kind,
         SendCookie(r, b, kind)
  PROVE  Receive(r) \/ UNCHANGED sessionVars
BY DEF SendCookie

\* What a tab does is at most a request for the server.
LEMMA TabStep ==
  ASSUME NEW b \in Tabs,
         Mount(b) \/ Reload(b) \/ Submit(b) \/ ClickLogout(b) \/ ClickSso(b)
  PROVE  secret' = secret => [SessionNext]_sessionVars
<1> SUFFICES ASSUME secret' = secret  PROVE [SessionNext]_sessionVars
  OBVIOUS
<1>1. CASE Mount(b)
  BY <1>1, CookieStep DEF Mount, SessionNext
<1>2. CASE Reload(b)
  BY <1>2 DEF Reload
<1>3. CASE Submit(b)
  BY <1>3 DEF Submit, SessionNext
<1>4. CASE ClickLogout(b)
  BY <1>4, CookieStep DEF ClickLogout, SessionNext
<1>5. CASE ClickSso(b)
  BY <1>5 DEF ClickSso, SessionNext
<1> QED
  BY <1>1, <1>2, <1>3, <1>4, <1>5

\* What the server does for a call it does by itself.
LEMMA ServeStep ==
  ASSUME NEW r \in Requests, Serve(r), secret' = secret
  PROVE  SessionNext
BY DEF Serve, ServeResolve, ServeMe, ServeLogout, ServeLogin, SessionNext

\* Every step of the composition is one of the store, or none.
LEMMA BrowserStep ==
  ASSUME [BrowserNext]_browserVars
  PROVE  [SessionNext]_sessionVars
<1>0. secret' = secret
  BY DEF BrowserNext, browserVars, sessionVars
<1>1. ASSUME NEW b \in Tabs,
             Mount(b) \/ Reload(b) \/ Submit(b) \/ ClickLogout(b) \/ ClickSso(b)
      PROVE  [SessionNext]_sessionVars
  BY <1>0, <1>1, TabStep
<1>2. ASSUME NEW r \in Requests, Serve(r)
      PROVE  [SessionNext]_sessionVars
  BY <1>0, <1>2, ServeStep
<1>3. ASSUME NEW r \in Requests, Lose(r) \/ Arrive(r) \/ Settle(r)
      PROVE  [SessionNext]_sessionVars
  BY <1>3 DEF Lose, Arrive, Settle
<1>4. CASE CookieExpires
  BY <1>4 DEF CookieExpires
<1>5. CASE Elsewhere
  BY <1>0, <1>5 DEF Elsewhere, SessionNext
<1>6. CASE UNCHANGED browserVars
  BY <1>6 DEF browserVars
<1> QED
  BY <1>1, <1>2, <1>3, <1>4, <1>5, <1>6 DEF BrowserNext

\* By the shape of its actions Browser takes the store through the steps of
\* AuthSessions only.
LEMMA BrowserStore == BrowserSpec => SessionSpec
<1>1. BrowserInit => SessionInit
  BY DEF BrowserInit
<1>2. [BrowserNext]_browserVars => [SessionNext]_sessionVars
  BY BrowserStep
<1> QED
  BY <1>1, <1>2, PTL DEF BrowserSpec, SessionSpec

\* So with any number of tabs, late answers and lost answers, a dead token is
\* worked under by no more requests than the server handles at a time, and no
\* session outlives its account.
THEOREM BrowserSafe == BrowserSpec => [](LateBound /\ NoOrphan)
<1>1. SessionSpec => [](LateBound /\ NoOrphan)
  BY SessionsSafe
<1> QED
  BY <1>1, BrowserStore, PTL
-----------------------------------------------------------------------------
(* Types.                                                                  *)

LEMMA StoreTyped ==
  ASSUME SessionTypeOK, [BrowserNext]_browserVars
  PROVE  SessionTypeOK'
  BY BrowserStep, TypeStep

LEMMA NoCallType == NoCall \in Call
  BY DEF NoCall, Call

LEMMA DroppedType ==
  ASSUME call \in [Requests -> Call], NEW b
  PROVE  Dropped(b) \in [Requests -> Call]
  BY NoCallType DEF Dropped

LEMMA SendType ==
  ASSUME call \in [Requests -> Call], NEW r \in Requests, NEW b \in Tabs,
         NEW kind \in {"me", "login", "logout", "sso"},
         NEW t \in Tokens \cup {None}, Send(r, b, kind, t)
  PROVE  call' \in [Requests -> Call]
<1> DEFINE new == [tab |-> b, kind |-> kind, stage |-> "sent",
                   status |-> "none", user |-> None, token |-> t]
<1>1. new \in Call
  BY DEF Call
<1> QED BY <1>1 DEF Send

LEMMA SendCookieType ==
  ASSUME call \in [Requests -> Call], jar \in Tokens \cup {None},
         NEW r \in Requests, NEW b \in Tabs, NEW kind \in {"me", "logout"},
         SendCookie(r, b, kind)
  PROVE  call' \in [Requests -> Call]
<1>1. CASE jar = None
  <2> DEFINE new == [tab |-> b, kind |-> kind, stage |-> "answered",
                     status |-> "unauthorized", user |-> None, token |-> None]
  <2>1. new \in Call
    BY DEF Call
  <2> QED BY <1>1, <2>1 DEF SendCookie
<1>2. CASE jar # None
  <2>1. PICK t \in Tokens \cup {None} : Send(r, b, kind, t)
    BY <1>2 DEF SendCookie
  <2> QED BY <2>1, SendType
<1> QED BY <1>1, <1>2

LEMMA AnsweredType ==
  ASSUME NEW c \in Call, NEW status \in {"ok", "unauthorized", "failed"},
         NEW u \in Users \cup {None}, NEW t \in Tokens \cup {None}
  PROVE  /\ Answered(c, status, u, t) \in Call
         /\ Answered(c, status, u, t).kind = c.kind
         /\ Answered(c, status, u, t).stage = "answered"
         /\ Answered(c, status, u, t).status = status
         /\ Answered(c, status, u, t).user = u
         /\ Answered(c, status, u, t).token = t
  BY DEF Answered, Call

LEMMA AnswerType ==
  ASSUME call \in [Requests -> Call], NEW r \in Requests,
         NEW status \in {"ok", "unauthorized", "failed"},
         NEW u \in Users \cup {None}, NEW t \in Tokens \cup {None},
         Answer(r, status, u, t)
  PROVE  call' \in [Requests -> Call]
<1>1. Answered(call[r], status, u, t) \in Call
  BY AnsweredType
<1> QED BY <1>1 DEF Answer

LEMMA FailedType ==
  ASSUME NEW c \in Call
  PROVE  /\ Failed(c) \in Call
         /\ Failed(c).kind = c.kind /\ Failed(c).stage = c.stage
         /\ Failed(c).status = "failed" /\ Failed(c).token = None
  BY DEF Failed, Call

LEMMA ServeType ==
  ASSUME BrowserTypeOK, NEW r \in Requests, Serve(r)
  PROVE  call' \in [Requests -> Call]
<1>1. /\ call \in [Requests -> Call] /\ call[r].token \in Tokens \cup {None}
      /\ None \in Users \cup {None} /\ None \in Tokens \cup {None}
  BY DEF BrowserTypeOK, Call
<1>2. req[r].user \in Users \cup {None}
  BY DEF BrowserTypeOK, SessionTypeOK, Request
<1>3. CASE ServeResolve(r)  BY <1>1, <1>3, AnswerType DEF ServeResolve
<1>4. CASE ServeMe(r)  BY <1>1, <1>2, <1>4, AnswerType DEF ServeMe
<1>5. CASE ServeLogout(r)  BY <1>1, <1>5, AnswerType DEF ServeLogout
<1>6. CASE ServeLogin(r)
  <2>1. PICK t \in Tokens \cup {None}, u \in Users \cup {None},
             status \in {"ok", "failed"} : Answer(r, status, u, t)
    BY <1>1, <1>2, <1>6 DEF ServeLogin
  <2> QED BY <1>1, <2>1, AnswerType
<1>7. CASE Answer(r, "failed", None, None)  BY <1>1, <1>7, AnswerType
<1> QED BY <1>3, <1>4, <1>5, <1>6, <1>7 DEF Serve

LEMMA NobodyType ==
  ASSUME NEW at \in Views
  PROVE  Nobody(at) \in Page
  BY DEF Nobody, Page

LEMMA TabType ==
  ASSUME BrowserTypeOK, NEW b \in Tabs,
         Mount(b) \/ Reload(b) \/ Submit(b) \/ ClickLogout(b) \/ ClickSso(b)
  PROVE  /\ call' \in [Requests -> Call]
         /\ page' \in [Tabs -> Page]
         /\ jar' \in Tokens \cup {None}
         /\ rival' \in [Tabs -> BOOLEAN]
<1>0. /\ call \in [Requests -> Call] /\ page \in [Tabs -> Page]
      /\ jar \in Tokens \cup {None} /\ rival \in [Tabs -> BOOLEAN]
  BY DEF BrowserTypeOK
<1>1. \A at \in Views : Nobody(at) \in Page
  BY NobodyType
<1>2. CASE Mount(b)
  BY <1>0, <1>1, <1>2, SendCookieType DEF Mount, Views
<1>3. CASE Reload(b)
  BY <1>0, <1>1, <1>3, DroppedType DEF Reload, Views
<1>4. CASE Submit(b)
  BY <1>0, <1>4, SendType DEF Submit
<1>5. CASE ClickLogout(b)
  BY <1>0, <1>5, SendCookieType DEF ClickLogout
<1>6. CASE ClickSso(b)
  <2> DEFINE new == [tab |-> b, kind |-> "sso", stage |-> "sent",
                     status |-> "none", user |-> None, token |-> None]
  <2>1. new \in Call
    BY DEF Call
  <2>2. call' \in [Requests -> Call]
    BY <1>0, <1>6, <2>1, DroppedType DEF ClickSso
  <2> QED BY <1>0, <1>1, <1>6, <2>2 DEF ClickSso, Views
<1> QED BY <1>2, <1>3, <1>4, <1>5, <1>6

LEMMA BackType ==
  ASSUME BrowserTypeOK, NEW r \in Requests, Lose(r) \/ Arrive(r) \/ Settle(r)
  PROVE  /\ call' \in [Requests -> Call]
         /\ page' \in [Tabs -> Page]
         /\ jar' \in Tokens \cup {None}
         /\ rival' \in [Tabs -> BOOLEAN]
<1>0. /\ call \in [Requests -> Call] /\ page \in [Tabs -> Page]
      /\ jar \in Tokens \cup {None} /\ rival \in [Tabs -> BOOLEAN]
      /\ call[r] \in Call
  BY DEF BrowserTypeOK
<1>1. CASE Lose(r)
  BY <1>0, <1>1, FailedType DEF Lose
<1>2. CASE Arrive(r)
  <2>1. [call[r] EXCEPT !.stage = "arrived"] \in Call
    BY <1>0 DEF Call
  <2>2. call[r].token \in Tokens \cup {None}
    BY <1>0 DEF Call
  <2>3. rival' \in [Tabs -> BOOLEAN]
    BY <1>0, <1>2 DEF Arrive, Identified
  <2> QED BY <1>0, <1>2, <2>1, <2>2, <2>3 DEF Arrive
<1>3. CASE Settle(r)
  <2>1. ASSUME call[r].tab \in Tabs
        PROVE  Shown(r) \in Page
    <3>1. Shows(call[r].user) \in Page
      BY <1>0 DEF Shows, Page, Call, Views
    <3>2. Nobody("blank") \in Page /\ Nobody("login") \in Page
      BY NobodyType DEF Views
    <3> QED BY <1>0, <2>1, <3>1, <3>2 DEF Shown
  <2>2. page' \in [Tabs -> Page]
    BY <1>0, <1>3, <2>1 DEF Settle
  <2> QED BY <1>0, <1>3, <2>2, NoCallType DEF Settle
<1> QED BY <1>1, <1>2, <1>3

LEMMA BrowserTypeStep ==
  ASSUME BrowserTypeOK, [BrowserNext]_browserVars
  PROVE  BrowserTypeOK'
<1>1. SessionTypeOK'
  BY StoreTyped DEF BrowserTypeOK
<1>2. ASSUME NEW b \in Tabs,
             Mount(b) \/ Reload(b) \/ Submit(b) \/ ClickLogout(b) \/ ClickSso(b)
      PROVE  BrowserTypeOK'
  BY <1>1, <1>2, TabType DEF BrowserTypeOK
<1>3. ASSUME NEW r \in Requests, Lose(r) \/ Arrive(r) \/ Settle(r)
      PROVE  BrowserTypeOK'
  BY <1>1, <1>3, BackType DEF BrowserTypeOK
<1>4. ASSUME NEW r \in Requests, Serve(r)
      PROVE  BrowserTypeOK'
  <2>1. UNCHANGED <<jar, page, rival>>
    BY <1>4 DEF Serve
  <2> QED BY <1>1, <1>4, <2>1, ServeType DEF BrowserTypeOK
<1>5. CASE CookieExpires
  BY <1>1, <1>5 DEF CookieExpires, BrowserTypeOK
<1>6. CASE Elsewhere
  BY <1>1, <1>6 DEF Elsewhere, BrowserTypeOK
<1>7. CASE UNCHANGED browserVars
  BY <1>1, <1>7 DEF browserVars, BrowserTypeOK
<1> QED BY <1>2, <1>3, <1>4, <1>5, <1>6, <1>7 DEF BrowserNext

LEMMA BrowserTypeInit == BrowserInit => BrowserTypeOK
<1>1. Nobody("blank") \in Page
  BY NobodyType DEF Views
<1>2. BrowserInit => SessionTypeOK
  BY SessionInvInit DEF BrowserInit, SessionInv
<1> QED BY <1>1, <1>2, NoCallType DEF BrowserInit, BrowserTypeOK

\* The variables of the composition keep their types.
THEOREM BrowserTyped == BrowserSpec => []BrowserTypeOK
  BY BrowserTypeInit, BrowserTypeStep, PTL DEF BrowserSpec
-----------------------------------------------------------------------------
(* A logout that is told anything but a failure has ended its session.     *)

\* While its fetch is on the way, a logout is the request r of the server,
\* under the cookie it was sent with; afterwards r is free again.
LogoutGoes(r) ==
  call[r].kind = "logout" =>
    /\ call[r].stage \in {"sent", "answered", "arrived"}
    /\ call[r].stage = "sent" =>
         /\ call[r].status = "none"
         /\ call[r].token \in Tokens
         /\ token[call[r].token].life # "unborn"
         /\ req[r].token = call[r].token
         /\ \/ req[r].pc = "resolve" /\ req[r].goal = "logout"
            \/ req[r].pc = "logout"
    /\ call[r].stage # "sent" => req[r].pc = "idle"
    /\ call[r].status \in {"ok", "unauthorized"} /\ call[r].token # None
         => Dead(call[r].token)

LEMMA BornStays ==
  ASSUME SessionTypeOK, [SessionNext]_sessionVars, NEW t \in Tokens,
         token[t].life # "unborn"
  PROVE  token'[t].life # "unborn"
<1> USE DEF SessionTypeOK
<1>1. ASSUME NEW r \in Requests,
             Receive(r) \/ Abort(r) \/ Resolve(r) \/ Act(r)
      PROVE  token' = token
  BY <1>1 DEF Receive, Abort, Resolve, Act
<1>2. ASSUME NEW r \in Requests, CreateSession(r)
      PROVE  token'[t].life # "unborn"
  BY <1>2 DEF CreateSession
<1>3. ASSUME NEW r \in Requests, Logout(r)  PROVE token'[t].life # "unborn"
  BY <1>3 DEF Logout, NoRow
<1>4. ASSUME NEW u \in Users, EraseUser(u)  PROVE token'[t].life # "unborn"
  BY <1>4 DEF EraseUser, NoRow
<1>5. CASE Purge
  BY <1>5 DEF Purge, NoRow
<1>6. CASE Tick
  BY <1>6 DEF Tick
<1> QED BY <1>1, <1>2, <1>3, <1>4, <1>5, <1>6 DEF SessionNext, sessionVars

\* A step that leaves r and its fetch alone, give or take the age of a login.
LEMMA LeftAlone ==
  ASSUME BrowserTypeOK, [BrowserNext]_browserVars, NEW r \in Requests,
         LogoutGoes(r), call'[r] = call[r],
         req'[r] = req[r] \/ req[r].pc = "insert"
  PROVE  LogoutGoes(r)'
<1> SUFFICES ASSUME call[r].kind = "logout"
             PROVE  LogoutGoes(r)'
  BY DEF LogoutGoes
<1>1. req'[r] = req[r]
  BY DEF LogoutGoes
<1>2. ASSUME NEW t \in Tokens
      PROVE  /\ Dead(t) => Dead(t)'
             /\ token[t].life # "unborn" => token'[t].life # "unborn"
  BY BrowserStep, DeathIsFinal, BornStays DEF BrowserTypeOK
<1>3. call[r].token \in Tokens \cup {None}
  BY DEF BrowserTypeOK, Call
<1> QED BY <1>1, <1>2, <1>3 DEF LogoutGoes

\* A fetch is sent from a free slot.
LEMMA LogoutSent ==
  ASSUME BrowserTypeOK, NEW r \in Requests, NEW b \in Tabs,
         NEW kind \in {"me", "logout"}, SendCookie(r, b, kind)
  PROVE  LogoutGoes(r)'
<1> USE DEF BrowserTypeOK, SessionTypeOK
<1>1. CASE jar = None
  BY <1>1 DEF SendCookie, LogoutGoes, At, sessionVars
<1>2. CASE jar # None /\ kind = "logout"
  <2>1. /\ Receive(r) /\ req'[r].token = jar /\ req'[r].goal = "logout"
        /\ call' = [call EXCEPT ![r] = [tab |-> b, kind |-> "logout",
                       stage |-> "sent", status |-> "none", user |-> None,
                       token |-> jar]]
        /\ jar \in Tokens
    BY <1>2 DEF SendCookie, Send
  <2>2. /\ req'[r].pc = "resolve" /\ token[jar].life # "unborn"
        /\ UNCHANGED token
    BY <1>2, <2>1 DEF Receive
  <2> QED BY <2>1, <2>2 DEF LogoutGoes
<1>3. CASE jar # None /\ kind = "me"
  BY <1>3 DEF SendCookie, Send, LogoutGoes
<1> QED BY <1>1, <1>2, <1>3

\* The server gives the answer to a logout when it has dealt with it.
LEMMA LogoutServed ==
  ASSUME BrowserTypeOK, OneKey, NEW r \in Requests, LogoutGoes(r), Serve(r)
  PROVE  LogoutGoes(r)'
<1>t. PICK t \in Tokens \cup {None} : t = call[r].token
  BY DEF BrowserTypeOK, Call
<1>0. CASE call'[r].kind # "logout"
  BY <1>0 DEF LogoutGoes
<1>1. CASE call'[r].kind = "logout"
  <2>0. /\ call \in [Requests -> Call] /\ call[r] \in Call
        /\ None \in Tokens \cup {None} /\ None \in Users \cup {None}
        /\ req[r].user \in Users \cup {None}
        /\ req \in [Requests -> Request] /\ token \in [Tokens -> TokenRow]
    BY DEF BrowserTypeOK, SessionTypeOK, Call, Request
  <2>1. \A status \in {"ok", "unauthorized", "failed"} :
        \A u \in Users \cup {None} : \A k \in Tokens \cup {None} :
          Answer(r, status, u, k) =>
            /\ call[r].kind = "logout"
            /\ call'[r].stage = "answered" /\ call'[r].status = status
            /\ call'[r].token = k
    <3> SUFFICES ASSUME NEW status \in {"ok", "unauthorized", "failed"},
                        NEW u \in Users \cup {None}, NEW k \in Tokens \cup {None},
                        Answer(r, status, u, k)
                 PROVE  /\ call[r].kind = "logout"
                        /\ call'[r].stage = "answered"
                        /\ call'[r].status = status /\ call'[r].token = k
      OBVIOUS
    <3>1. call[r] # NoCall
      BY <1>1 DEF Answer, NoCall
    <3>2. call'[r] = Answered(call[r], status, u, k)
      BY <2>0, <3>1 DEF Answer
    <3>3. /\ call'[r].kind = call[r].kind /\ call'[r].stage = "answered"
          /\ call'[r].status = status /\ call'[r].token = k
      <4>1. call[r] \in Call
        BY <2>0
      <4>2. /\ Answered(call[r], status, u, k).kind = call[r].kind
            /\ Answered(call[r], status, u, k).stage = "answered"
            /\ Answered(call[r], status, u, k).status = status
            /\ Answered(call[r], status, u, k).token = k
        BY <4>1 DEF Answered, Call
      <4> QED BY <3>2, <4>2
    <3> QED BY <1>1, <3>3
  <2>2. call[r].kind = "logout"
    <3>1. CASE UNCHANGED call
      BY <1>1, <3>1
    <3>2. CASE \E status \in {"ok", "unauthorized", "failed"} :
               \E u \in Users \cup {None} : \E k \in Tokens \cup {None} :
                 Answer(r, status, u, k)
      BY <2>1, <3>2
    <3>3. ASSUME ServeLogin(r)
          PROVE  \E status \in {"ok", "unauthorized", "failed"} :
               \E u \in Users \cup {None} : \E k \in Tokens \cup {None} :
                 Answer(r, status, u, k)
      BY <2>0, <3>3 DEF ServeLogin
    <3>4. ASSUME ServeMe(r) \/ Answer(r, "failed", None, None)
          PROVE  \E status \in {"ok", "unauthorized", "failed"} :
                 \E u \in Users \cup {None} : \E k \in Tokens \cup {None} :
                   Answer(r, status, u, k)
      BY <2>0, <3>4 DEF ServeMe
    <3>5. ASSUME ServeLogout(r) \/ ServeResolve(r)
          PROVE  \/ UNCHANGED call
                 \/ \E status \in {"ok", "unauthorized", "failed"} :
                    \E u \in Users \cup {None} : \E k \in Tokens \cup {None} :
                      Answer(r, status, u, k)
      BY <1>t, <2>0, <3>5 DEF ServeLogout, ServeResolve
    <3> QED BY <3>1, <3>2, <3>3, <3>4, <3>5 DEF Serve
  <2>3. call[r].stage = "sent"
    BY <2>2 DEF LogoutGoes, Serve, ServeResolve, ServeMe, ServeLogout,
                ServeLogin, Resolve, Act, Logout, CreateSession, Abort, At
  <2>4. /\ t \in Tokens /\ token[t].life # "unborn" /\ req[r].token = t
        /\ \/ req[r].pc = "resolve" /\ req[r].goal = "logout"
           \/ req[r].pc = "logout"
        /\ call[r].status = "none"
    BY <1>t, <2>2, <2>3 DEF LogoutGoes
  <2>5. Finish(r) => req'[r].pc = "idle"
    BY <2>0 DEF Finish, Idle
  <2>6. CASE ServeResolve(r)
    <3>1. CASE Valid(t)
      <4>1. /\ req'[r].pc = "logout" /\ req'[r].token = t
            /\ UNCHANGED token
        BY <2>0, <2>4, <2>6, <3>1 DEF ServeResolve, Resolve, At
      <4>2. UNCHANGED call
        BY <2>6, <4>1 DEF ServeResolve
      <4> QED BY <1>t, <2>2, <2>3, <2>4, <4>1, <4>2 DEF LogoutGoes
    <3>2. CASE ~Valid(t)
      <4>1. Finish(r) /\ UNCHANGED token
        BY <2>4, <2>6, <3>2 DEF ServeResolve, Resolve
      <4>2. Answer(r, "unauthorized", None, t)
        BY <1>t, <2>5, <2>6, <4>1 DEF ServeResolve
      <4>3. Dead(t)'
        BY <2>0, <2>4, <3>2, <4>1
           DEF OneKey, Valid, Dead, Expired, Live, TokenRow
      <4>4. call'[r].stage = "answered" /\ call'[r].token = t
        BY <2>0, <2>1, <4>2
      <4> QED BY <2>5, <4>1, <4>3, <4>4 DEF LogoutGoes
    <3> QED BY <3>1, <3>2
  <2>7. CASE ServeLogout(r)
    <3>1. Finish(r) /\ token'[t].life = "gone"
      BY <2>4, <2>7 DEF ServeLogout, Logout, NoRow
    <3>2. Answer(r, "ok", None, t)
      BY <1>t, <2>7 DEF ServeLogout
    <3>3. call'[r].stage = "answered" /\ call'[r].token = t
      BY <2>0, <2>1, <3>2
    <3>4. Dead(t)'
      BY <3>1 DEF Dead
    <3> QED BY <2>5, <3>1, <3>3, <3>4 DEF LogoutGoes
  <2>8. CASE Abort(r) /\ Answer(r, "failed", None, None)
    <3>1. call'[r].stage = "answered" /\ call'[r].token = None
      BY <2>0, <2>1, <2>8
    <3> QED BY <2>5, <2>8, <3>1 DEF Abort, LogoutGoes
  <2>9. ~ServeMe(r) /\ ~ServeLogin(r)
    BY <2>4 DEF ServeMe, ServeLogin, Act, CreateSession, At
  <2> QED BY <2>6, <2>7, <2>8, <2>9 DEF Serve
<1> QED BY <1>0, <1>1

\* What is undone, settled or sent for another purpose is no logout under way.
LEMMA NoLogout ==
  ASSUME NEW r \in Requests, call'[r].kind # "logout"
  PROVE  LogoutGoes(r)'
  BY DEF LogoutGoes

LEMMA TabLogout ==
  ASSUME BrowserTypeOK, NEW r \in Requests, LogoutGoes(r), NEW b \in Tabs,
         [BrowserNext]_browserVars,
         Mount(b) \/ Reload(b) \/ Submit(b) \/ ClickLogout(b) \/ ClickSso(b)
  PROVE  LogoutGoes(r)'
<1>0. /\ call \in [Requests -> Call] /\ req \in [Requests -> Request]
      /\ NoCall.kind = "none"
  BY DEF BrowserTypeOK, SessionTypeOK, NoCall
<1>1. ASSUME NEW s \in Requests, NEW kind \in {"me", "logout"},
             SendCookie(s, b, kind)
      PROVE  LogoutGoes(r)'
  <2>1. CASE s = r
    BY <1>1, <2>1, LogoutSent
  <2>2. CASE s # r
    <3>1. call'[r] = call[r] /\ req'[r] = req[r]
      BY <1>0, <1>1, <2>2 DEF SendCookie, Send, Receive, sessionVars
    <3> QED BY <3>1, LeftAlone
  <2> QED BY <2>1, <2>2
<1>2. CASE Mount(b)
  BY <1>1, <1>2 DEF Mount
<1>3. CASE ClickLogout(b)
  BY <1>1, <1>3 DEF ClickLogout
<1>4. CASE Reload(b)
  <2>1. call'[r] = NoCall \/ (call'[r] = call[r] /\ req'[r] = req[r])
    BY <1>4 DEF Reload, Dropped, sessionVars
  <2> QED BY <1>0, <2>1, LeftAlone, NoLogout
<1>5. CASE Submit(b)
  <2>1. PICK s \in Requests : Receive(s) /\ Send(s, b, "login", None)
    BY <1>5 DEF Submit
  <2>2. CASE s = r
    <3>1. call'[r].kind = "login"
      BY <1>0, <2>1, <2>2 DEF Send
    <3> QED BY <3>1, NoLogout
  <2>3. CASE s # r
    <3>1. call'[r] = call[r] /\ req'[r] = req[r]
      BY <1>0, <2>1, <2>3 DEF Send, Receive
    <3> QED BY <3>1, LeftAlone
  <2> QED BY <2>2, <2>3
<1>6. CASE ClickSso(b)
  <2>1. PICK s \in Requests :
          /\ Receive(s)
          /\ call' = [Dropped(b) EXCEPT ![s] = [tab |-> b, kind |-> "sso",
               stage |-> "sent", status |-> "none", user |-> None,
               token |-> None]]
    BY <1>6 DEF ClickSso
  <2>2. CASE s = r
    <3>1. call'[r].kind = "sso"
      BY <1>0, <2>1, <2>2 DEF Dropped
    <3> QED BY <3>1, NoLogout
  <2>3. CASE s # r
    <3>1. req'[r] = req[r] /\ (call'[r] = NoCall \/ call'[r] = call[r])
      BY <1>0, <2>1, <2>3 DEF Dropped, Receive
    <3> QED BY <1>0, <3>1, LeftAlone, NoLogout
  <2> QED BY <2>2, <2>3
<1> QED BY <1>2, <1>3, <1>4, <1>5, <1>6

\* Another request that is served leaves r and its fetch alone.
LEMMA OtherServed ==
  ASSUME BrowserTypeOK, NEW r \in Requests, NEW s \in Requests, s # r, Serve(s)
  PROVE  call'[r] = call[r] /\ req'[r] = req[r]
<1>0. call \in [Requests -> Call] /\ req \in [Requests -> Request]
  BY DEF BrowserTypeOK, SessionTypeOK
<1>1. req'[r] = req[r]
  BY <1>0 DEF Serve, ServeResolve, ServeMe, ServeLogout, ServeLogin, Resolve,
             Act, Logout, CreateSession, Abort, Finish
<1>2. ASSUME NEW status, NEW u, NEW t, Answer(s, status, u, t)
      PROVE  call'[r] = call[r]
  BY <1>0, <1>2 DEF Answer
<1>3. call'[r] = call[r]
  BY <1>2 DEF Serve, ServeResolve, ServeMe, ServeLogout, ServeLogin
<1> QED BY <1>1, <1>3

LEMMA BackLogout ==
  ASSUME BrowserTypeOK, NEW r \in Requests, LogoutGoes(r), NEW s \in Requests,
         [BrowserNext]_browserVars, Lose(s) \/ Arrive(s) \/ Settle(s)
  PROVE  LogoutGoes(r)'
<1>0. /\ call \in [Requests -> Call] /\ call[r] \in Call
      /\ NoCall.kind = "none" /\ UNCHANGED sessionVars
  BY DEF BrowserTypeOK, NoCall, Lose, Arrive, Settle
<1>1. req' = req
  BY <1>0 DEF sessionVars
<1>2. CASE s # r
  <2>1. call'[r] = call[r]
    BY <1>0, <1>2 DEF Lose, Arrive, Settle
  <2> QED BY <1>1, <2>1, LeftAlone
<1>3. CASE s = r /\ Lose(r)
  <2>1. /\ call'[r] = Failed(call[r])
        /\ call[r].stage \in {"answered", "arrived"}
    BY <1>0, <1>3 DEF Lose
  <2>2. /\ call'[r].kind = call[r].kind /\ call'[r].stage = call[r].stage
        /\ call'[r].status = "failed" /\ call'[r].token = None
    BY <1>0, <2>1, FailedType
  <2> QED BY <1>1, <2>1, <2>2 DEF LogoutGoes
<1>4. CASE s = r /\ Arrive(r)
  <2>1. /\ call'[r] = [call[r] EXCEPT !.stage = "arrived"]
        /\ call[r].stage = "answered"
    BY <1>0, <1>4 DEF Arrive
  <2>2. /\ call'[r].kind = call[r].kind /\ call'[r].stage = "arrived"
        /\ call'[r].status = call[r].status /\ call'[r].token = call[r].token
    BY <1>0, <2>1 DEF Call
  <2>3. PICK t \in Tokens \cup {None} : t = call[r].token
    BY <1>0 DEF Call
  <2>4. token' = token /\ late' = late /\ accounts' = accounts
    BY <1>0 DEF sessionVars
  <2>5. Dead(t) => Dead(t)'
    BY <2>4 DEF Dead, Expired, Live
  <2> QED BY <1>1, <2>1, <2>2, <2>3, <2>5 DEF LogoutGoes
<1>5. CASE s = r /\ Settle(r)
  BY <1>0, <1>5, NoLogout DEF Settle
<1> QED BY <1>2, <1>3, <1>4, <1>5

LEMMA ElseLogout ==
  ASSUME BrowserTypeOK, NEW r \in Requests, LogoutGoes(r),
         [BrowserNext]_browserVars,
         CookieExpires \/ Elsewhere \/ UNCHANGED browserVars
  PROVE  LogoutGoes(r)'
<1>0. req \in [Requests -> Request]
  BY DEF BrowserTypeOK, SessionTypeOK
<1>1. call' = call
  BY DEF CookieExpires, Elsewhere, browserVars
<1>2. req'[r] = req[r] \/ req[r].pc = "insert"
  BY <1>0 DEF CookieExpires, Elsewhere, browserVars, sessionVars, EraseUser,
             Purge, Tick, At
<1> QED BY <1>1, <1>2, LeftAlone

LEMMA LogoutStep ==
  ASSUME BrowserTypeOK, OneKey, \A r \in Requests : LogoutGoes(r),
         [BrowserNext]_browserVars
  PROVE  (\A r \in Requests : LogoutGoes(r))'
<1> SUFFICES ASSUME NEW r \in Requests  PROVE LogoutGoes(r)'
  OBVIOUS
<1>1. ASSUME NEW s \in Requests, Serve(s)  PROVE LogoutGoes(r)'
  BY <1>1, LogoutServed, OtherServed, LeftAlone
<1>2. ASSUME NEW s \in Requests, Lose(s) \/ Arrive(s) \/ Settle(s)
      PROVE  LogoutGoes(r)'
  BY <1>2, BackLogout
<1> QED BY <1>1, <1>2, TabLogout, ElseLogout DEF BrowserNext

\* Whatever overtakes a logout, and whether its page still waits for it: an
\* answer other than a failure means that the session it was sent with is dead.
THEOREM LogoutsKill == BrowserSpec => []LogoutKills
<1> DEFINE Going == \A r \in Requests : LogoutGoes(r)
<1>1. BrowserInit => Going
  BY DEF BrowserInit, LogoutGoes, NoCall
<1>2. BrowserTypeOK /\ OneKey /\ Going /\ [BrowserNext]_browserVars => Going'
  BY LogoutStep
<1>3. Going => LogoutKills
  BY DEF LogoutGoes, LogoutKills
<1> QED
  BY <1>1, <1>2, <1>3, BrowserTyped, BrowserStore, KeptKey, PTL DEF BrowserSpec
-----------------------------------------------------------------------------
(* Nobody is signed on again by an answer about who was signed on before.   *)

\* What the calls of tab b say about its page: who asks who is signed on shows
\* "Loading" and asks nothing else, and likewise the journey of a sign-on.
Waits(b) ==
  \A r \in Requests : call[r].tab = b =>
    /\ call[r].kind # "none"
    /\ page[b].at # "blank"
    /\ call[r].kind = "me" <=> page[b].at = "loading"
    /\ call[r].kind = "sso" <=> page[b].at = "away"
    /\ page[b].at \in {"loading", "away"} =>
         \A s \in Requests : call[s].tab = b => s = r

\* Serving a call, and the way back to the tab, are no calls of another kind.
SameCalls == \A r \in Requests : /\ call'[r].tab = call[r].tab
                                 /\ call'[r].kind = call[r].kind

LEMMA ServeSame ==
  ASSUME BrowserTypeOK, NEW r \in Requests,
         Serve(r) \/ Lose(r) \/ Arrive(r)
  PROVE  SameCalls /\ page' = page
<1>0. call \in [Requests -> Call] /\ call[r] \in Call
  BY DEF BrowserTypeOK
<1>1. ASSUME NEW status, NEW u, NEW t, Answer(r, status, u, t)
      PROVE  SameCalls
  <2>1. /\ Answered(call[r], status, u, t).tab = call[r].tab
        /\ Answered(call[r], status, u, t).kind = call[r].kind
    BY <1>0 DEF Answered, Call
  <2> QED BY <1>0, <1>1, <2>1 DEF Answer, SameCalls
<1>2. CASE Serve(r)
  <2>1. page' = page
    BY <1>2 DEF Serve
  <2>2. CASE UNCHANGED call
    BY <2>1, <2>2 DEF SameCalls
  <2>3. CASE \E status, u, t : Answer(r, status, u, t)
    BY <1>1, <2>1, <2>3
  <2>4. ServeResolve(r) => \/ UNCHANGED call
                           \/ \E status, u, t : Answer(r, status, u, t)
    BY DEF ServeResolve
  <2>5. ServeMe(r) \/ ServeLogout(r) => \E status, u, t : Answer(r, status, u, t)
    BY DEF ServeMe, ServeLogout
  <2>6. ServeLogin(r) => \E status, u, t : Answer(r, status, u, t)
    BY DEF ServeLogin
  <2> QED BY <1>2, <2>2, <2>3, <2>4, <2>5, <2>6 DEF Serve
<1>3. CASE Lose(r)
  <2>1. Failed(call[r]).tab = call[r].tab /\ Failed(call[r]).kind = call[r].kind
    BY <1>0 DEF Failed, Call
  <2> QED BY <1>0, <1>3, <2>1 DEF Lose, SameCalls
<1>4. CASE Arrive(r)
  <2>1. call' = [call EXCEPT ![r] = [call[r] EXCEPT !.stage = "arrived"]]
    BY <1>0, <1>4 DEF Arrive
  <2>2. /\ [call[r] EXCEPT !.stage = "arrived"].tab = call[r].tab
        /\ [call[r] EXCEPT !.stage = "arrived"].kind = call[r].kind
    BY <1>0 DEF Call
  <2>3. page' = page
    BY <1>4 DEF Arrive
  <2> QED BY <1>0, <2>1, <2>2, <2>3 DEF SameCalls
<1> QED BY <1>2, <1>3, <1>4 DEF Serve

\* What tab a does is one call more of its own, or none left.
LEMMA TabWaits ==
  ASSUME BrowserTypeOK, \A b \in Tabs : Waits(b), NEW a \in Tabs, NEW b \in Tabs,
         Mount(a) \/ Reload(a) \/ Submit(a) \/ ClickLogout(a) \/ ClickSso(a)
  PROVE  Waits(b)' /\ (page[b].at = "login" => page'[b].at # "home")
<1>0. /\ call \in [Requests -> Call] /\ page \in [Tabs -> Page]
      /\ NoCall.tab = None /\ None \notin Tabs /\ Waits(a) /\ Waits(b)
      /\ \A at \in Views : Nobody(at).at = at
  BY BrowserAssumption DEF BrowserTypeOK, NoCall, Nobody
<1>1. ASSUME NEW r \in Requests, NEW kind \in {"me", "logout"},
             SendCookie(r, a, kind)
      PROVE  /\ call'[r].tab = a /\ call'[r].kind = kind
             /\ \A s \in Requests \ {r} : call'[s] = call[s]
  BY <1>0, <1>1 DEF SendCookie, Send
<1>2. CASE Mount(a)
  <2>1. PICK r \in Requests : SendCookie(r, a, "me")
    BY <1>2 DEF Mount
  <2>2. /\ call'[r].tab = a /\ call'[r].kind = "me"
        /\ \A s \in Requests \ {r} : call'[s] = call[s]
    BY <1>1, <2>1
  <2>3. /\ page[a].at = "blank" /\ page'[a].at = "loading"
        /\ b # a => page'[b] = page[b]
    BY <1>0, <1>2 DEF Mount, Views
  <2>4. \A s \in Requests : call[s].tab # a
    BY <1>0, <2>3 DEF Waits
  <2> QED BY <1>0, <2>2, <2>3, <2>4 DEF Waits
<1>3. CASE Reload(a)
  <2>1. /\ \A s \in Requests : call'[s].tab # a
        /\ \A s \in Requests : call[s].tab # a => call'[s] = call[s]
        /\ \A s \in Requests : call[s].tab = a => call'[s].tab = None
    BY <1>0, <1>3 DEF Reload, Dropped
  <2>2. page'[a].at = "blank" /\ (b # a => page'[b] = page[b])
    BY <1>0, <1>3 DEF Reload, Views
  <2> QED BY <1>0, <2>1, <2>2 DEF Waits
<1>4. CASE Submit(a)
  <2>1. PICK r \in Requests : Send(r, a, "login", None)
    BY <1>4 DEF Submit
  <2>2. /\ call'[r].tab = a /\ call'[r].kind = "login"
        /\ \A s \in Requests \ {r} : call'[s] = call[s]
    BY <1>0, <2>1 DEF Send
  <2>3. page[a].at = "login" /\ page' = page
    BY <1>4 DEF Submit
  <2> QED BY <1>0, <2>2, <2>3 DEF Waits
<1>5. CASE ClickLogout(a)
  <2>1. PICK r \in Requests : SendCookie(r, a, "logout")
    BY <1>5 DEF ClickLogout
  <2>2. /\ call'[r].tab = a /\ call'[r].kind = "logout"
        /\ \A s \in Requests \ {r} : call'[s] = call[s]
    BY <1>1, <2>1
  <2>3. page[a].at = "home" /\ page' = page
    BY <1>5 DEF ClickLogout
  <2> QED BY <1>0, <2>2, <2>3 DEF Waits
<1>6. CASE ClickSso(a)
  <2>1. PICK r \in Requests :
          call' = [Dropped(a) EXCEPT ![r] = [tab |-> a, kind |-> "sso",
               stage |-> "sent", status |-> "none", user |-> None,
               token |-> None]]
    BY <1>6 DEF ClickSso
  <2>2. /\ call'[r].tab = a /\ call'[r].kind = "sso"
        /\ \A s \in Requests \ {r} :
             /\ call[s].tab # a => call'[s] = call[s]
             /\ call'[s].tab # a
             /\ call[s].tab = a => call'[s].tab = None
    BY <1>0, <2>1 DEF Dropped
  <2>3. page'[a].at = "away" /\ (b # a => page'[b] = page[b])
    BY <1>0, <1>6 DEF ClickSso, Views
  <2> QED BY <1>0, <2>2, <2>3 DEF Waits
<1> QED BY <1>2, <1>3, <1>4, <1>5, <1>6

\* A page goes on from the login form with the answer to its login.
LEMMA SettleWaits ==
  ASSUME BrowserTypeOK, \A b \in Tabs : Waits(b), NEW r \in Requests, Settle(r),
         NEW b \in Tabs
  PROVE  /\ Waits(b)'
         /\ (page[b].at = "login" /\ page'[b].at = "home")
              => r \in Calls(b, "login") /\ call[r].user = page'[b].user
<1>0. /\ call \in [Requests -> Call] /\ page \in [Tabs -> Page]
      /\ NoCall.tab = None /\ None \notin Tabs /\ Waits(b)
      /\ Nobody("blank").at = "blank" /\ Nobody("login").at = "login"
      /\ \A u : Shows(u).at = "home" /\ Shows(u).user = u
  BY BrowserAssumption DEF BrowserTypeOK, NoCall, Nobody, Shows
<1>1. /\ call'[r].tab = None
      /\ \A s \in Requests \ {r} : call'[s] = call[s]
  BY <1>0 DEF Settle
<1>2. CASE call[r].tab # b
  <2>1. page'[b] = page[b]
    BY <1>0, <1>2 DEF Settle
  <2> QED BY <1>0, <1>1, <1>2, <2>1 DEF Waits
<1>3. CASE call[r].tab = b
  <2>1. page'[b] = Shown(r)
    BY <1>0, <1>3 DEF Settle
  <2>2. call[r].kind \in {"me", "login", "logout", "sso"}
    BY <1>0, <1>3 DEF Waits, Call
  <2>3. CASE call[r].kind \in {"me", "sso"}
    <3>1. \A s \in Requests : call'[s].tab # b
      BY <1>0, <1>1, <1>3, <2>3 DEF Waits
    <3>2. page[b].at # "login"
      BY <1>0, <1>3, <2>3 DEF Waits
    <3> QED BY <3>1, <3>2 DEF Waits
  <2>4. CASE call[r].kind \in {"login", "logout"}
    <3>1. page[b].at \in {"login", "home"}
      BY <1>0, <1>3, <2>4 DEF Waits, Page, Views
    <3>2. /\ Shown(r).at \in {"login", "home"}
          /\ (page[b].at = "login" /\ Shown(r).at = "home")
               => call[r].kind = "login" /\ Shown(r).user = call[r].user
      BY <1>0, <1>3, <2>4, <3>1 DEF Shown
    <3> QED BY <1>0, <1>1, <1>3, <2>1, <2>4, <3>1, <3>2 DEF Waits, Calls
  <2> QED BY <2>2, <2>3, <2>4
<1> QED BY <1>2, <1>3

\* What a step of the login form may come from.
SignedOn == \A b \in Tabs :
  (page[b].at = "login" /\ page'[b].at = "home")
    => \E r \in Calls(b, "login") : call[r].user = page'[b].user

LEMMA WaitsStep ==
  ASSUME BrowserTypeOK, \A b \in Tabs : Waits(b), [BrowserNext]_browserVars
  PROVE  (\A b \in Tabs : Waits(b)') /\ SignedOn
<1>1. ASSUME NEW a \in Tabs,
             Mount(a) \/ Reload(a) \/ Submit(a) \/ ClickLogout(a) \/ ClickSso(a)
      PROVE  (\A b \in Tabs : Waits(b)') /\ SignedOn
  BY <1>1, TabWaits DEF SignedOn
<1>2. ASSUME NEW r \in Requests, Settle(r)
      PROVE  (\A b \in Tabs : Waits(b)') /\ SignedOn
  BY <1>2, SettleWaits DEF SignedOn
<1>3. ASSUME SameCalls, page' = page
      PROVE  (\A b \in Tabs : Waits(b)') /\ SignedOn
  BY <1>3 DEF SameCalls, Waits, SignedOn
<1>4. ASSUME NEW r \in Requests, Serve(r) \/ Lose(r) \/ Arrive(r)
      PROVE  (\A b \in Tabs : Waits(b)') /\ SignedOn
  BY <1>3, <1>4, ServeSame
<1>5. CASE CookieExpires \/ Elsewhere \/ UNCHANGED browserVars
  <2>1. SameCalls /\ page' = page
    BY <1>5 DEF CookieExpires, Elsewhere, browserVars, SameCalls
  <2> QED BY <1>3, <2>1
<1> QED BY <1>1, <1>2, <1>4, <1>5 DEF BrowserNext

LEMMA AllWait == BrowserSpec => [](\A b \in Tabs : Waits(b))
<1> DEFINE Waiting == \A b \in Tabs : Waits(b)
<1>1. BrowserInit => Waiting
  BY BrowserAssumption DEF BrowserInit, Waits, NoCall
<1>2. BrowserTypeOK /\ Waiting /\ [BrowserNext]_browserVars => Waiting'
  BY WaitsStep
<1> HIDE DEF Waiting
<1>3. BrowserSpec => []Waiting
  BY <1>1, <1>2, BrowserTyped, PTL DEF BrowserSpec
<1> QED BY <1>3 DEF Waiting

\* A tab that has come to the login form is signed on by its own login only.
THEOREM OutStaysOut == BrowserSpec => StaysOut
<1>1. /\ BrowserTypeOK /\ (\A b \in Tabs : Waits(b)) /\ [BrowserNext]_browserVars
      => [SignedOn]_browserVars
  BY WaitsStep
<1> QED BY <1>1, AllWait, BrowserTyped, PTL DEF BrowserSpec, StaysOut, SignedOn

-----------------------------------------------------------------------------
(* A page shows the account that its calls act as.                         *)

\* There is one login under way in a tab, from its form.
Form(b) == \A r \in Calls(b, "login") :
  page[b].at = "login" /\ \A s \in Calls(b, "login") : s = r

\* Whoever works under t, now or later, works as u.
Holds(t, u) == token[t].life # "unborn" /\ (Live(t) => token[t].user = u)
Holder(u) == jar = None \/ Holds(jar, u)

SignsOn(r) == call[r].kind \in {"login", "sso"}

\* While a call is on its way, the server works on it; the cookie that comes
\* with a login is one of the account that has logged in.
Goes(r) ==
  /\ call[r].stage = "sent" =>
       /\ call[r].status = "none"
       /\ call[r].kind = "me" => \/ At(r, "resolve") /\ req[r].goal = "act"
                                 \/ At(r, "act")
       /\ SignsOn(r) => At(r, "insert")
  /\ call[r].stage # "sent" => call[r] = NoCall \/ At(r, "idle")
  /\ call[r].kind = "none" => call[r] = NoCall
  /\ SignsOn(r) /\ call[r].status = "ok"
       => call[r].token \in Tokens /\ Holds(call[r].token, call[r].user)

\* The cookie is that of the profile a page has asked for, or been told, or is
\* the one its login has brought.
Told(r) ==
  /\ call[r].kind = "me" =>
       /\ call[r].stage = "sent" /\ At(r, "resolve")
            => jar \in {None, req[r].token}
       /\ call[r].stage = "sent" /\ At(r, "act") => Holder(req[r].user)
       /\ call[r].status = "ok" => Holder(call[r].user)
  /\ call[r].kind = "login" /\ call[r].stage = "arrived" /\ call[r].status = "ok"
       => Holder(call[r].user)

Knows(b) == ~rival[b] =>
  /\ page[b].at = "home" => Holder(page[b].user)
  /\ \A r \in Requests : call[r].tab = b => Told(r)

\* A session is never handed on from one account to another.
LEMMA HoldsStays ==
  ASSUME SessionTypeOK, [SessionNext]_sessionVars, NEW t \in Tokens, NEW u,
         Holds(t, u)
  PROVE  Holds(t, u)'
<1> USE DEF SessionTypeOK, Holds, Live
<1>1. ASSUME token' = token  PROVE Holds(t, u)'
  BY <1>1
<1>2. ASSUME NEW r \in Requests,
             Receive(r) \/ Abort(r) \/ Resolve(r) \/ Act(r)
      PROVE  Holds(t, u)'
  BY <1>1, <1>2 DEF Receive, Abort, Resolve, Act
<1>3. ASSUME NEW r \in Requests, CreateSession(r)  PROVE Holds(t, u)'
  BY <1>3 DEF CreateSession
<1>4. ASSUME NEW r \in Requests, Logout(r)  PROVE Holds(t, u)'
  BY <1>4 DEF Logout, NoRow
<1>5. ASSUME NEW v \in Users, EraseUser(v)  PROVE Holds(t, u)'
  BY <1>5 DEF EraseUser, NoRow
<1>6. CASE Purge
  BY <1>6 DEF Purge, NoRow
<1>7. CASE Tick
  BY <1>7 DEF Tick
<1> QED BY <1>1, <1>2, <1>3, <1>4, <1>5, <1>6, <1>7 DEF SessionNext, sessionVars

LEMMA HolderStays ==
  ASSUME BrowserTypeOK, [BrowserNext]_browserVars, jar' \in {None, jar}, NEW u,
         Holder(u)
  PROVE  Holder(u)'
<1>1. [SessionNext]_sessionVars /\ SessionTypeOK
  BY BrowserStep DEF BrowserTypeOK
<1>2. CASE jar' = None
  BY <1>2 DEF Holder
<1>3. CASE jar' = jar /\ jar # None
  <2>1. PICK t \in Tokens : t = jar
    BY <1>3 DEF BrowserTypeOK
  <2>2. Holds(t, u)
    BY <1>3, <2>1 DEF Holder
  <2>3. Holds(t, u)'
    BY <1>1, <2>2, HoldsStays
  <2>4. jar' = t
    BY <1>3, <2>1
  <2> QED BY <2>3, <2>4 DEF Holder, Holds, Live
<1> QED BY <1>2, <1>3

\* A step that leaves r and its fetch alone, give or take the age of a login.
LEMMA GoesOn ==
  ASSUME BrowserTypeOK, [BrowserNext]_browserVars, NEW r \in Requests,
         call'[r] = call[r], Goes(r),
         req'[r] = req[r] \/ (At(r, "insert") /\ req'[r].pc = "insert")
  PROVE  Goes(r)'
<1>1. [SessionNext]_sessionVars /\ SessionTypeOK
  BY BrowserStep DEF BrowserTypeOK
<1>2. PICK t, u : t = call[r].token /\ u = call[r].user
  OBVIOUS
<1>3. ASSUME SignsOn(r), call[r].status = "ok"
      PROVE  t \in Tokens /\ Holds(t, u)'
  BY <1>1, <1>2, <1>3, HoldsStays DEF Goes
<1> QED BY <1>2, <1>3 DEF Goes, SignsOn, At, Holds, Live

LEMMA ToldOn ==
  ASSUME BrowserTypeOK, [BrowserNext]_browserVars, NEW r \in Requests,
         call'[r] = call[r], Told(r), jar' \in {None, jar},
         req'[r] = req[r] \/ (At(r, "insert") /\ req'[r].pc = "insert")
  PROVE  Told(r)'
<1>1. PICK u, v : u = call[r].user /\ v = req[r].user
  OBVIOUS
<1>2. /\ Holder(u) => Holder(u)'
      /\ Holder(v) => Holder(v)'
  BY HolderStays
<1>3. /\ call'[r].user = u
      /\ ~At(r, "insert") => req'[r].user = v
  BY <1>1 DEF At
<1> QED BY <1>1, <1>2, <1>3 DEF Told, At, Holder, Holds, Live

\* A new call is on its way with the cookie of the moment, or, without one, is
\* refused at once.
LEMMA CookieTold ==
  ASSUME BrowserTypeOK, NEW r \in Requests, NEW b \in Tabs,
         NEW kind \in {"me", "logout"}, SendCookie(r, b, kind), jar' = jar
  PROVE  /\ call'[r].tab = b /\ call'[r].kind = kind /\ Goes(r)' /\ Told(r)'
         /\ \A s \in Requests \ {r} : call'[s] = call[s] /\ req'[s] = req[s]
<1>0. call \in [Requests -> Call] /\ req \in [Requests -> Request]
  BY DEF BrowserTypeOK, SessionTypeOK
<1>1. CASE jar = None
  BY <1>0, <1>1 DEF SendCookie, Goes, Told, SignsOn, At, sessionVars
<1>2. CASE jar # None
  <2>1. /\ call' = [call EXCEPT ![r] = [tab |-> b, kind |-> kind,
                      stage |-> "sent", status |-> "none", user |-> None,
                      token |-> IF kind = "logout" THEN jar ELSE None]]
        /\ Receive(r) /\ req'[r].token = jar /\ At(r, "idle")
        /\ req'[r].goal = IF kind = "logout" THEN "logout" ELSE "act"
    BY <1>2 DEF SendCookie, Send
  <2>2. /\ call'[r].tab = b /\ call'[r].kind = kind
        /\ call'[r].stage = "sent" /\ call'[r].status = "none"
        /\ \A s \in Requests \ {r} : call'[s] = call[s]
    BY <1>0, <2>1
  <2>3. \A s \in Requests \ {r} : req'[s] = req[s]
    BY <1>0, <2>1 DEF Receive
  <2>4. req'[r].pc = "resolve"
    BY <1>0, <1>2, <2>1 DEF Receive, BrowserTypeOK
  <2> QED BY <2>1, <2>2, <2>3, <2>4 DEF Goes, Told, SignsOn, At
<1> QED BY <1>1, <1>2

\* What a tab does leaves a call alone, gives it up, or sends it.
LEMMA TabCalls ==
  ASSUME BrowserTypeOK, NEW a \in Tabs, NEW r \in Requests,
         Mount(a) \/ Reload(a) \/ Submit(a) \/ ClickLogout(a) \/ ClickSso(a)
  PROVE  /\ jar' = jar
         /\ \/ /\ call'[r] = call[r] /\ req'[r] = req[r]
               /\ call[r].tab = a => rival' = rival
            \/ call'[r] = NoCall
            \/ call'[r].tab = a /\ Goes(r)' /\ Told(r)'
<1>0. /\ call \in [Requests -> Call] /\ req \in [Requests -> Request]
      /\ jar' = jar /\ None \notin Tabs /\ NoCall.tab = None
  BY BrowserAssumption
     DEF BrowserTypeOK, SessionTypeOK, NoCall,
         Mount, Reload, Submit, ClickLogout, ClickSso
<1>1. CASE Mount(a) \/ ClickLogout(a)
  <2>1. PICK s \in Requests, kind \in {"me", "logout"} : SendCookie(s, a, kind)
    BY <1>1 DEF Mount, ClickLogout
  <2>2. rival' = rival
    BY <1>1 DEF Mount, ClickLogout
  <2> QED BY <1>0, <2>1, <2>2, CookieTold
<1>2. CASE Reload(a)
  BY <1>0, <1>2 DEF Reload, Dropped, sessionVars
<1>3. CASE Submit(a) \/ ClickSso(a)
  <2>1. PICK s \in Requests, kind \in {"login", "sso"} :
          /\ Receive(s) /\ req'[s].pc = "insert"
          /\ call'[s] = [tab |-> a, kind |-> kind, stage |-> "sent",
                status |-> "none", user |-> None, token |-> None]
          /\ \A q \in Requests \ {s} :
               \/ call'[q] = call[q] /\ (call[q].tab = a => rival' = rival)
               \/ call'[q] = NoCall
    <3>1. CASE Submit(a)
      BY <1>0, <3>1 DEF Submit, Send
    <3>2. CASE ClickSso(a)
      BY <1>0, <3>2 DEF ClickSso, Dropped
    <3> QED BY <1>3, <3>1, <3>2
  <2>2. CASE s = r
    <3>1. /\ call'[r].tab = a /\ call'[r].kind \in {"login", "sso"}
          /\ call'[r].stage = "sent" /\ call'[r].status = "none"
          /\ req'[r].pc = "insert"
      BY <2>1, <2>2
    <3> QED BY <1>0, <3>1 DEF Goes, Told, SignsOn, At
  <2>3. CASE s # r
    <3>1. req'[r] = req[r]
      BY <1>0, <2>1, <2>3 DEF Receive
    <3> QED BY <1>0, <2>1, <2>3, <3>1
  <2> QED BY <2>2, <2>3
<1> QED BY <1>0, <1>1, <1>2, <1>3

LEMMA NoCallGoes ==
  ASSUME NEW r \in Requests, call'[r] = NoCall
  PROVE  Goes(r)' /\ call'[r].tab \notin Tabs
  BY BrowserAssumption DEF NoCall, Goes, SignsOn

\* Only the form sends a login, and only one.
LEMMA TabForm ==
  ASSUME BrowserTypeOK, NEW a \in Tabs, NEW b \in Tabs, Waits(b), Form(b),
         Mount(a) \/ Reload(a) \/ Submit(a) \/ ClickLogout(a) \/ ClickSso(a)
  PROVE  /\ Form(b)'
         /\ page'[b].at = "home" => page'[b] = page[b]
<1>0. /\ call \in [Requests -> Call] /\ page \in [Tabs -> Page]
      /\ \A at \in Views : Nobody(at).at = at
      /\ None \notin Tabs /\ NoCall.tab = None
  BY BrowserAssumption DEF BrowserTypeOK, Nobody, NoCall
<1>1. CASE Mount(a)
  <2>1. PICK s \in Requests : SendCookie(s, a, "me")
    BY <1>1 DEF Mount
  <2>2. /\ call'[s].kind = "me"
        /\ \A q \in Requests \ {s} : call'[q] = call[q]
    BY <1>1, <2>1, CookieTold DEF Mount
  <2>3. /\ page[a].at = "blank" /\ page'[a].at = "loading"
        /\ b # a => page'[b] = page[b]
    BY <1>0, <1>1 DEF Mount, Views
  <2> QED BY <2>2, <2>3 DEF Form, Calls, Waits
<1>2. CASE Reload(a)
  <2>1. \A q \in Requests : /\ call'[q].tab # a
                            /\ call'[q].tab # None => call'[q] = call[q]
    BY <1>0, <1>2 DEF Reload, Dropped
  <2>2. page'[a].at = "blank" /\ (b # a => page'[b] = page[b])
    BY <1>0, <1>2 DEF Reload, Views
  <2> QED BY <1>0, <2>1, <2>2 DEF Form, Calls
<1>3. CASE Submit(a)
  <2>1. PICK s \in Requests : Send(s, a, "login", None)
    BY <1>3 DEF Submit
  <2>2. call'[s].tab = a /\ \A q \in Requests \ {s} : call'[q] = call[q]
    BY <1>0, <2>1 DEF Send
  <2>3. page' = page /\ page[a].at = "login" /\ Calls(a, "login") = {}
    BY <1>3 DEF Submit
  <2> QED BY <2>2, <2>3 DEF Form, Calls
<1>4. CASE ClickLogout(a)
  <2>1. PICK s \in Requests : SendCookie(s, a, "logout")
    BY <1>4 DEF ClickLogout
  <2>2. /\ call'[s].kind = "logout"
        /\ \A q \in Requests \ {s} : call'[q] = call[q]
    BY <1>4, <2>1, CookieTold DEF ClickLogout
  <2>3. page' = page
    BY <1>4 DEF ClickLogout
  <2> QED BY <2>2, <2>3 DEF Form, Calls
<1>5. CASE ClickSso(a)
  <2>1. \A q \in Requests :
          /\ call'[q].tab = a => call'[q].kind = "sso"
          /\ call'[q].tab \notin {a, None} => call'[q] = call[q]
    BY <1>0, <1>5 DEF ClickSso, Dropped
  <2>2. page'[a].at = "away" /\ (b # a => page'[b] = page[b])
    BY <1>0, <1>5 DEF ClickSso, Views
  <2> QED BY <1>0, <2>1, <2>2 DEF Form, Calls
<1> QED BY <1>1, <1>2, <1>3, <1>4, <1>5

\* So the tab's other calls, and the other tabs, go on being told the truth.
LEMMA TabKnows ==
  ASSUME BrowserTypeOK, [BrowserNext]_browserVars, NEW a \in Tabs, NEW b \in Tabs,
         Waits(b), Form(b), Knows(b),
         Mount(a) \/ Reload(a) \/ Submit(a) \/ ClickLogout(a) \/ ClickSso(a)
  PROVE  Form(b)' /\ Knows(b)'
<1>1. jar' = jar
  BY DEF Mount, Reload, Submit, ClickLogout, ClickSso
<1>2. rival \in [Tabs -> BOOLEAN]
  BY DEF BrowserTypeOK
<1>3. /\ rival' # rival => Reload(a) \/ ClickSso(a)
      /\ b # a => rival'[b] = rival[b]
  BY <1>2 DEF Mount, Reload, Submit, ClickLogout, ClickSso
<1>4. ASSUME ~rival'[b], page'[b].at = "home"  PROVE Holder(page[b].user)'
  <2>1. page'[b] = page[b]
    BY <1>4, TabForm
  <2>2. rival'[b] = rival[b]
    <3>1. Reload(a) \/ ClickSso(a) => page'[a].at # "home"
      BY DEF Reload, ClickSso, Nobody, BrowserTypeOK
    <3> QED BY <1>3, <1>4, <3>1
  <2>3. PICK u : u = page[b].user
    OBVIOUS
  <2>4. Holder(u)
    BY <1>4, <2>1, <2>2, <2>3 DEF Knows
  <2>5. Holder(u)'
    BY <1>1, <2>4, HolderStays
  <2> QED BY <2>1, <2>3, <2>5 DEF Holder, Holds, Live
<1>5. ASSUME ~rival'[b], NEW r \in Requests, call'[r].tab = b
      PROVE  Told(r)'
  <2>1. CASE call'[r].tab = a /\ Told(r)'
    BY <2>1
  <2>2. CASE /\ call'[r] = call[r] /\ req'[r] = req[r]
             /\ call[r].tab = a => rival' = rival
    <3>1. ~rival[b] /\ call[r].tab = b
      BY <1>3, <1>5, <2>2
    <3> QED BY <1>1, <1>5, <2>2, <3>1, ToldOn DEF Knows
  <2> QED BY <1>5, <2>1, <2>2, TabCalls, NoCallGoes
<1>6. Knows(b)'
  BY <1>4, <1>5 DEF Knows
<1> QED BY <1>6, TabForm

\* What the server answers a call is true of the session it worked under.
LEMMA ServeTold ==
  ASSUME BrowserTypeOK, NEW r \in Requests, Goes(r), Serve(r),
         [BrowserNext]_browserVars
  PROVE  Goes(r)' /\ (Told(r) => Told(r)')
<1>0. /\ call \in [Requests -> Call] /\ call[r] \in Call
      /\ req \in [Requests -> Request] /\ token \in [Tokens -> TokenRow]
      /\ None \in Tokens \cup {None} /\ None \in Users \cup {None}
      /\ req[r].user \in Users \cup {None} /\ jar \in Tokens \cup {None}
      /\ call[r].token \in Tokens \cup {None} /\ jar' = jar
  BY DEF BrowserTypeOK, SessionTypeOK, Call, Request, Serve
<1>1. CASE call[r] = NoCall
  <2>1. call'[r] = NoCall
    BY <1>1 DEF Serve, ServeResolve, ServeMe, ServeLogout, ServeLogin, Answer
  <2> QED BY <2>1, NoCallGoes DEF Told, NoCall
<1>2. CASE call[r] # NoCall
  <2>1. call[r].stage = "sent" /\ call[r].kind # "none"
    BY <1>2 DEF Goes, Serve, ServeResolve, ServeMe, ServeLogout, ServeLogin,
               Resolve, Act, Logout, CreateSession, Abort, At
  <2>2. ASSUME NEW status \in {"ok", "unauthorized", "failed"},
               NEW u \in Users \cup {None}, NEW k \in Tokens \cup {None},
               Answer(r, status, u, k)
        PROVE  /\ call'[r].kind = call[r].kind /\ call'[r].stage = "answered"
               /\ call'[r].status = status /\ call'[r].user = u
               /\ call'[r].token = k
    <3>1. call'[r] = Answered(call[r], status, u, k)
      BY <1>0, <1>2, <2>2 DEF Answer
    <3>2. call[r] \in Call
      BY <1>0
    <3> QED BY <2>2, <3>1, <3>2, AnsweredType
  <2>3. ASSUME NEW status \in {"unauthorized", "failed"},
               NEW k \in Tokens \cup {None},
               Answer(r, status, None, k), Finish(r)
        PROVE  Goes(r)' /\ Told(r)'
    <3>1. req'[r].pc = "idle"
      BY <1>0, <2>3, IdleType DEF Finish
    <3>2. /\ call'[r].stage = "answered" /\ call'[r].status = status
          /\ call'[r].kind # "none"
      BY <1>0, <2>1, <2>2, <2>3
    <3> QED BY <3>1, <3>2 DEF Goes, Told, SignsOn, At
  <2>4. CASE Abort(r) /\ Answer(r, "failed", None, None)
    BY <1>0, <2>3, <2>4 DEF Abort
  <2>5. CASE ServeResolve(r)
    <3>1. CASE ~Valid(req[r].token)
      <4>1. Finish(r)
        BY <2>5, <3>1 DEF ServeResolve, Resolve
      <4>2. req'[r].pc = "idle"
        BY <1>0, <4>1, IdleType DEF Finish
      <4> QED BY <1>0, <2>3, <2>5, <4>1, <4>2 DEF ServeResolve
    <3>2. CASE Valid(req[r].token)
      <4>1. PICK t, u : t = req[r].token /\ u = token[t].user
        OBVIOUS
      <4>2. /\ req'[r].pc = req[r].goal /\ req'[r].user = u
            /\ req[r].goal \in {"act", "logout"} /\ token' = token
        BY <1>0, <2>5, <3>2, <4>1 DEF ServeResolve, Resolve, Request, At
      <4>3. call' = call /\ At(r, "resolve")
        BY <2>5, <4>2 DEF ServeResolve, Resolve
      <4>4. Goes(r)'
        BY <2>1, <4>2, <4>3 DEF Goes, SignsOn, At, Holds, Live
      <4>5. jar \in {None, t} => Holder(u)'
        BY <1>0, <3>2, <4>1, <4>2 DEF Holder, Holds, Live, Valid
      <4>6. Told(r) => Told(r)'
        BY <1>0, <2>1, <4>1, <4>2, <4>3, <4>5 DEF Told, Goes, At, Holder, Holds, Live
      <4> QED BY <4>4, <4>6
    <3> QED BY <3>1, <3>2
  <2>6. CASE ServeMe(r)
    <3>1. Finish(r) /\ At(r, "act")
      BY <2>6 DEF ServeMe, Act
    <3>2. CASE Answer(r, "failed", None, None)
      BY <1>0, <2>3, <3>1, <3>2
    <3>3. CASE Answer(r, "ok", req[r].user, None)
      <4>1. PICK u : u = req[r].user
        OBVIOUS
      <4>2. /\ call'[r].kind = call[r].kind /\ call'[r].stage = "answered"
            /\ call'[r].user = u
        BY <1>0, <2>2, <3>3, <4>1
      <4>3. req'[r].pc = "idle"
        BY <1>0, <3>1, IdleType DEF Finish
      <4>4. call[r].kind \notin {"login", "sso"}
        BY <2>1, <3>1 DEF Goes, At, SignsOn
      <4>5. Holder(u) => Holder(u)'
        BY <1>0, HolderStays
      <4> QED BY <2>1, <3>1, <4>1, <4>2, <4>3, <4>4, <4>5
              DEF Goes, Told, SignsOn, At, Holder, Holds, Live
    <3> QED BY <2>6, <3>2, <3>3 DEF ServeMe
  <2>7. CASE ServeLogout(r)
    <3>1. Finish(r) /\ At(r, "logout")
      BY <2>7 DEF ServeLogout, Logout
    <3>2. call[r].kind \notin {"me", "login", "sso"}
      BY <2>1, <3>1 DEF Goes, At, SignsOn
    <3>3. call'[r].kind = call[r].kind /\ call'[r].stage = "answered"
      BY <1>0, <2>2, <2>7 DEF ServeLogout
    <3>4. req'[r].pc = "idle"
      BY <1>0, <3>1, IdleType DEF Finish
    <3> QED BY <2>1, <3>2, <3>3, <3>4 DEF Goes, Told, SignsOn, At
  <2>8. CASE ServeLogin(r)
    <3>1. Finish(r) /\ At(r, "insert")
      BY <2>8 DEF ServeLogin, CreateSession
    <3>2. call[r].kind # "me"
      BY <2>1, <3>1 DEF Goes, At
    <3>3. req'[r].pc = "idle"
      BY <1>0, <3>1, IdleType DEF Finish
    <3>4. CASE Answer(r, "failed", None, None)
      BY <1>0, <2>3, <3>1, <3>4
    <3>5. ASSUME NEW t \in Tokens, ~Live(t), Live(t)',
                 Answer(r, "ok", req[r].user, t)
          PROVE  Goes(r)' /\ Told(r)'
      <4>1. PICK u : u = req[r].user
        OBVIOUS
      <4>2. token'[t].user = u /\ token'[t].life = "live"
        BY <1>0, <2>8, <3>5, <4>1 DEF ServeLogin, CreateSession, Live
      <4>3. /\ call'[r].kind = call[r].kind /\ call'[r].stage = "answered"
            /\ call'[r].user = u /\ call'[r].token = t
        BY <1>0, <2>2, <3>5, <4>1
      <4> QED BY <2>1, <3>2, <3>3, <4>2, <4>3 DEF Goes, Told, SignsOn, At, Holds, Live
    <3> QED BY <2>8, <3>4, <3>5 DEF ServeLogin
  <2> QED BY <2>4, <2>5, <2>6, <2>7, <2>8 DEF Serve
<1> QED BY <1>1, <1>2

\* The way back: what is lost says nothing, and a cookie is its call's.
LEMMA LoseKnows ==
  ASSUME BrowserTypeOK, [BrowserNext]_browserVars, NEW r \in Requests, Lose(r),
         NEW s \in Requests, Goes(s)
  PROVE  Goes(s)' /\ (Told(s) => Told(s)')
<1>0. /\ call \in [Requests -> Call] /\ call[r] \in Call
      /\ req' = req /\ jar' = jar
  BY DEF BrowserTypeOK, Lose, sessionVars
<1>1. CASE s # r
  <2>1. call'[s] = call[s]
    BY <1>0, <1>1 DEF Lose
  <2> QED BY <1>0, <2>1, GoesOn, ToldOn
<1>2. CASE s = r
  <2>1. /\ call'[r] = Failed(call[r])
        /\ call[r].stage \in {"answered", "arrived"} /\ call[r] # NoCall
    BY <1>0 DEF Lose, NoCall
  <2>2. /\ call'[r].kind = call[r].kind /\ call'[r].stage = call[r].stage
        /\ call'[r].status = "failed"
    BY <1>0, <2>1, FailedType
  <2> QED BY <1>0, <1>2, <2>1, <2>2 DEF Goes, Told, SignsOn, At
<1> QED BY <1>1, <1>2

\* A cookie that arrives is still the one that was answered with.
LEMMA ArriveGoes ==
  ASSUME BrowserTypeOK, [BrowserNext]_browserVars, NEW r \in Requests, Arrive(r),
         NEW s \in Requests, Goes(s)
  PROVE  Goes(s)'
<1>0. /\ call \in [Requests -> Call] /\ call[r] \in Call
      /\ req' = req /\ token' = token
  BY DEF BrowserTypeOK, Arrive, sessionVars
<1>1. CASE s # r
  <2>1. call'[s] = call[s]
    BY <1>0, <1>1 DEF Arrive
  <2> QED BY <1>0, <2>1, GoesOn
<1>2. CASE s = r
  <2>1. /\ call'[r] = [call[r] EXCEPT !.stage = "arrived"]
        /\ call[r].stage = "answered" /\ call[r] # NoCall
    BY <1>0 DEF Arrive, NoCall
  <2>2. /\ call'[r].kind = call[r].kind /\ call'[r].stage = "arrived"
        /\ call'[r].status = call[r].status /\ call'[r].user = call[r].user
        /\ call'[r].token = call[r].token
    BY <1>0, <2>1 DEF Call
  <2> QED BY <1>0, <1>2, <2>1, <2>2 DEF Goes, SignsOn, At, Holds, Live
<1> QED BY <1>1, <1>2

\* A cookie that arrives is news to the tabs that show somebody, and to no other.
LEMMA ArriveKnows ==
  ASSUME BrowserTypeOK, NEW r \in Requests, Arrive(r), Goes(r), NEW b \in Tabs,
         Waits(b), Form(b), Knows(b)
  PROVE  Form(b)' /\ Knows(b)'
<1>0. /\ call \in [Requests -> Call] /\ call[r] \in Call
      /\ page' = page /\ token' = token /\ req' = req
      /\ call[r].kind \in {"login", "logout", "sso"} /\ call[r].status = "ok"
  BY DEF BrowserTypeOK, Arrive, sessionVars, SetsCookie, Call, NoCall, Goes
<1>1. /\ \A s \in Requests : /\ call'[s].tab = call[s].tab
                             /\ call'[s].kind = call[s].kind
                             /\ call'[s].user = call[s].user
      /\ call'[r].status = "ok"
  <2>1. call' = [call EXCEPT ![r] = [call[r] EXCEPT !.stage = "arrived"]]
    BY <1>0 DEF Arrive
  <2>2. LET c == [call[r] EXCEPT !.stage = "arrived"]
        IN  /\ c.tab = call[r].tab /\ c.kind = call[r].kind
            /\ c.user = call[r].user /\ c.status = call[r].status
    BY <1>0 DEF Call
  <2> QED BY <1>0, <2>1, <2>2
<1>2. Form(b)'
  BY <1>0, <1>1 DEF Form, Calls
<1>3. CASE call[r].kind = "logout"
  BY <1>2, <1>3 DEF Arrive, Knows, Told, Holder
<1>4. CASE call[r].kind # "logout"
  <2>1. /\ jar' = call[r].token
        /\ rival' = [c \in Tabs |-> c # call[r].tab /\ Identified(c)]
    BY <1>4 DEF Arrive
  <2>2. PICK u : u = call[r].user
    OBVIOUS
  <2>3. Holder(u)'
    BY <1>0, <1>4, <2>1, <2>2 DEF Goes, SignsOn, Holder, Holds, Live
  <2>4. CASE b = call[r].tab
    <3>1. page[b].at \in {"login", "away"}
      BY <1>0, <1>4, <2>4 DEF Waits, Form, Calls
    <3>2. \A s \in Requests : call[s].tab = b =>
             /\ call[s].kind # "me"
             /\ call[s].kind = "login" => s = r
      BY <1>0, <1>4, <2>4, <3>1 DEF Waits, Form, Calls
    <3> QED BY <1>0, <1>1, <1>2, <2>2, <2>3, <3>1, <3>2 DEF Knows, Told, Holder, Holds, Live
  <2>5. CASE b # call[r].tab /\ ~Identified(b)
    <3>1. page[b].at \notin {"home", "loading"}
      BY <2>5 DEF Identified
    <3>2. \A s \in Requests : call[s].tab = b => call[s].kind \notin {"me", "login"}
      BY <2>5, <3>1 DEF Waits, Identified, Calls
    <3> QED BY <1>0, <1>1, <1>2, <3>1, <3>2 DEF Knows, Told
  <2>6. CASE rival'[b]
    BY <1>2, <2>6 DEF Knows
  <2> QED BY <2>1, <2>4, <2>5, <2>6
<1> QED BY <1>2, <1>3, <1>4

\* A page is changed by a call that still says the truth.
LEMMA SettleKnows ==
  ASSUME BrowserTypeOK, [BrowserNext]_browserVars, NEW r \in Requests, Settle(r),
         NEW b \in Tabs, Waits(b), Form(b), Knows(b)
  PROVE  Form(b)' /\ Knows(b)'
<1>0. /\ call \in [Requests -> Call] /\ page \in [Tabs -> Page]
      /\ req' = req /\ token' = token /\ jar' = jar /\ rival' = rival
      /\ call'[r] = NoCall /\ \A s \in Requests \ {r} : call'[s] = call[s]
      /\ NoCall.tab \notin Tabs
      /\ Nobody("blank").at = "blank" /\ Nobody("login").at = "login"
      /\ \A u : Shows(u).at = "home" /\ Shows(u).user = u
  BY BrowserAssumption
     DEF BrowserTypeOK, Settle, sessionVars, Nobody, NoCall, Shows
<1>1. ASSUME ~rival[b], NEW s \in Requests, call'[s].tab = b
      PROVE  Told(s)'
  <2>1. s # r /\ call'[s] = call[s]
    BY <1>0, <1>1
  <2> QED BY <1>0, <1>1, <2>1, ToldOn DEF Knows
<1>2. CASE call[r].tab # b
  <2>1. page'[b] = page[b]
    BY <1>0, <1>2 DEF Settle
  <2>2. \A s \in Requests : call'[s].tab = b => call'[s] = call[s]
    BY <1>0
  <2>3. Form(b)'
    BY <1>0, <2>1, <2>2 DEF Form, Calls
  <2>4. Knows(b)'
    BY <1>0, <1>1, <2>1 DEF Knows, Holder, Holds, Live
  <2> QED BY <2>3, <2>4
<1>3. CASE call[r].tab = b
  <2>1. page'[b] = Shown(r)
    BY <1>0, <1>3 DEF Settle
  <2>2. Form(b)'
    <3>1. CASE call[r].kind \in {"me", "sso", "login"}
      <4>1. \A s \in Requests \ {r} :
              call[s].tab = b => call[s].kind # "login"
        BY <1>3, <3>1 DEF Waits, Form, Calls
      <4> QED BY <1>0, <4>1 DEF Form, Calls
    <3>2. CASE call[r].kind = "logout"
      <4>1. page'[b] = page[b] \/ page'[b].at = "login"
        BY <1>0, <1>3, <2>1, <3>2 DEF Shown
      <4> QED BY <1>0, <4>1 DEF Form, Calls
    <3> QED BY <1>3, <3>1, <3>2 DEF Waits, Call, BrowserTypeOK
  <2>3. ASSUME ~rival[b], page'[b].at = "home"
        PROVE  Holder(page'[b].user)
    <3>1. CASE page'[b] = page[b]
      BY <2>3, <3>1 DEF Knows
    <3>2. CASE /\ call[r].status = "ok" /\ call[r].kind \in {"me", "login"}
               /\ page'[b].user = call[r].user
      <4>1. Told(r)
        BY <1>3, <2>3 DEF Knows
      <4>2. call[r].kind = "login" => call[r].stage = "arrived"
        BY <3>2 DEF Settle, SetsCookie
      <4> QED BY <3>2, <4>1, <4>2 DEF Told
    <3> QED BY <1>0, <1>3, <2>1, <2>3, <3>1, <3>2 DEF Shown, Waits, Call
  <2>4. Knows(b)'
    <3>1. PICK u : u = page'[b].user
      OBVIOUS
    <3> QED BY <1>0, <1>1, <2>3, <3>1 DEF Knows, Holder, Holds, Live
  <2> QED BY <2>2, <2>4
<1> QED BY <1>2, <1>3

\* The rest of the system leaves the calls alone and lets sessions end.
LEMMA ElseAlone ==
  ASSUME BrowserTypeOK, NEW r \in Requests,
         CookieExpires \/ Elsewhere \/ UNCHANGED browserVars
  PROVE  /\ call'[r] = call[r]
         /\ req'[r] = req[r] \/ (At(r, "insert") /\ req'[r].pc = "insert")
  BY DEF CookieExpires, Elsewhere, browserVars, sessionVars, EraseUser, Purge,
         Tick, At, BrowserTypeOK, SessionTypeOK, Request

LEMMA ElseKnows ==
  ASSUME BrowserTypeOK, [BrowserNext]_browserVars, NEW b \in Tabs, Knows(b), Form(b),
         CookieExpires \/ Elsewhere \/ UNCHANGED browserVars
  PROVE  Form(b)' /\ Knows(b)'
<1>1. /\ call' = call /\ page' = page /\ rival' = rival /\ jar' \in {None, jar}
  BY DEF CookieExpires, Elsewhere, browserVars
<1>2. \A r \in Requests : Told(r) => Told(r)'
  BY <1>1, ElseAlone, ToldOn
<1>3. PICK u : u = page[b].user
  OBVIOUS
<1>4. Holder(u) => Holder(u)'
  BY <1>1, HolderStays
<1>5. Knows(b)'
  BY <1>1, <1>2, <1>3, <1>4 DEF Knows, Holder, Holds, Live
<1> QED BY <1>1, <1>5 DEF Form, Calls

\* Serving a call, or losing its answer, changes no page.
LEMMA SamePage ==
  ASSUME BrowserTypeOK, [BrowserNext]_browserVars, NEW r \in Requests,
         Serve(r) \/ Lose(r), NEW b \in Tabs, Form(b), Knows(b),
         \A s \in Requests : Goes(s)
  PROVE  Form(b)' /\ Knows(b)'
<1>1. SameCalls /\ page' = page /\ rival' = rival /\ jar' = jar
  BY ServeSame DEF Serve, Lose
<1>2. \A s \in Requests : Told(s) => Told(s)'
  BY <1>1, ServeTold, LoseKnows, OtherServed, ToldOn
<1>3. PICK u : u = page[b].user
  OBVIOUS
<1>4. Holder(u) => Holder(u)'
  BY <1>1, HolderStays
<1>5. Knows(b)'
  BY <1>1, <1>2, <1>3, <1>4 DEF Knows, SameCalls, Holder, Holds, Live
<1> QED BY <1>1, <1>5 DEF Form, Calls, SameCalls

\* All of it together, for the calls and for the tabs.
LEMMA GoesStep ==
  ASSUME BrowserTypeOK, [BrowserNext]_browserVars, \A r \in Requests : Goes(r),
         NEW s \in Requests
  PROVE  Goes(s)'
<1>1. ASSUME NEW a \in Tabs,
             Mount(a) \/ Reload(a) \/ Submit(a) \/ ClickLogout(a) \/ ClickSso(a)
      PROVE  Goes(s)'
  BY <1>1, TabCalls, GoesOn, NoCallGoes
<1>2. ASSUME NEW r \in Requests, Serve(r)  PROVE Goes(s)'
  BY <1>2, ServeTold, OtherServed, GoesOn
<1>3. ASSUME NEW r \in Requests, Lose(r) \/ Arrive(r)  PROVE Goes(s)'
  BY <1>3, LoseKnows, ArriveGoes
<1>4. ASSUME NEW r \in Requests, Settle(r)  PROVE Goes(s)'
  <2>1. req' = req /\ (call'[s] = NoCall \/ call'[s] = call[s])
    BY <1>4 DEF Settle, sessionVars, BrowserTypeOK
  <2> QED BY <2>1, GoesOn, NoCallGoes
<1>5. CASE CookieExpires \/ Elsewhere \/ UNCHANGED browserVars
  BY <1>5, ElseAlone, GoesOn
<1> QED BY <1>1, <1>2, <1>3, <1>4, <1>5 DEF BrowserNext

LEMMA KnowsStep ==
  ASSUME BrowserTypeOK, [BrowserNext]_browserVars,
         \A b \in Tabs : Waits(b) /\ Form(b) /\ Knows(b),
         \A r \in Requests : Goes(r)
  PROVE  /\ \A b \in Tabs : Form(b)' /\ Knows(b)'
         /\ \A r \in Requests : Goes(r)'
<1>1. ASSUME NEW a \in Tabs, NEW b \in Tabs,
             Mount(a) \/ Reload(a) \/ Submit(a) \/ ClickLogout(a) \/ ClickSso(a)
      PROVE  Form(b)' /\ Knows(b)'
  BY <1>1, TabKnows
<1>2. ASSUME NEW r \in Requests, NEW b \in Tabs, Serve(r) \/ Lose(r)
      PROVE  Form(b)' /\ Knows(b)'
  BY <1>2, SamePage
<1>3. ASSUME NEW r \in Requests, NEW b \in Tabs, Settle(r) \/ Arrive(r)
      PROVE  Form(b)' /\ Knows(b)'
  BY <1>3, SettleKnows, ArriveKnows
<1>4. ASSUME NEW b \in Tabs, CookieExpires \/ Elsewhere \/ UNCHANGED browserVars
      PROVE  Form(b)' /\ Knows(b)'
  BY <1>4, ElseKnows
<1> QED BY <1>1, <1>2, <1>3, <1>4, GoesStep DEF BrowserNext

\* A page that shows somebody shows the account whose session the cookie holds,
\* through reloads, logins, journeys and lost answers of this tab in any order,
\* and whatever other tabs do short of signing on.
THEOREM OneIdentity == BrowserSpec => []SameIdentity
<1> DEFINE Known == /\ \A b \in Tabs : Form(b) /\ Knows(b)
                    /\ \A r \in Requests : Goes(r)
<1>1. BrowserInit => Known
  BY BrowserAssumption
     DEF BrowserInit, Form, Calls, Knows, Goes, SignsOn, NoCall, Nobody
<1>2. /\ BrowserTypeOK /\ (\A b \in Tabs : Waits(b)) /\ Known
      /\ [BrowserNext]_browserVars
      => Known'
  BY KnowsStep
<1>3. Known => SameIdentity
  BY DEF Knows, Holder, Holds, SameIdentity
<1> HIDE DEF Known
<1> QED BY <1>1, <1>2, <1>3, AllWait, BrowserTyped, PTL DEF BrowserSpec
-----------------------------------------------------------------------------
(* The server over the store: Startup.                                     *)

\* What the end of the process does to the store: the requests are gone.
Lost == /\ req' = [r \in Requests |-> Idle]
        /\ UNCHANGED <<accounts, token, late, secret>>

\* What a start with another secret does to it.
Rekeyed == /\ secret' \in Secrets
           /\ UNCHANGED <<accounts, token, req, late>>

LEMMA StartupStep ==
  ASSUME [StartupNext]_startupVars
  PROVE  [SessionNext]_sessionVars \/ Lost \/ Rekeyed
<1>0. CASE ReadConfig
  BY <1>0 DEF ReadConfig, ConfigOk, End, Lost, Rekeyed
<1>1. CASE Run /\ ~ReadConfig
  BY <1>1 DEF Run, Boot, Connect, Sleep, Migrate, Seed, Bind,
              Drained, GoOn, End, Lost
<1>2. CASE Discover \/ Signal \/ Crash
  BY <1>2 DEF Discover, Signal, Crash, GoOn, End, Lost
<1>3. ASSUME NEW r \in Requests, Accept(r) \/ HandleSession(r)
      PROVE  SessionNext
  BY <1>3 DEF Accept, HandleSession, SessionNext, Beside
<1>4. CASE Erasure \/ PurgeTask \/ TimePasses
  BY <1>4 DEF Erasure, PurgeTask, TimePasses, SessionNext, Beside
<1>5. CASE DatabaseTurns \/ Edit \/ QuietDown
  BY <1>5 DEF DatabaseTurns, Edit, QuietDown
<1>6. CASE UNCHANGED startupVars
  BY <1>6 DEF startupVars
<1> QED BY <1>0, <1>1, <1>2, <1>3, <1>4, <1>5, <1>6 DEF StartupNext

\* Requests that are lost work under no token any more.
LEMMA LostStep ==
  ASSUME SessionInv, Lost
  PROVE  SessionInv'
<1>1. SessionTypeOK'
  BY IdleType DEF SessionInv, Lost, SessionTypeOK
<1>2. NoOrphan'
  BY DEF SessionInv, Lost, NoOrphan, Live
<1>3. ASSUME NEW t \in Tokens
      PROVE  /\ Dead(t)' <=> Dead(t)
             /\ Working(t)' \subseteq Working(t)
  BY <1>3, IdleType DEF Lost, Dead, Expired, Live, Working, SessionInv, SessionTypeOK
<1>4. ASSUME NEW t \in Tokens
      PROVE  IF Dead(t)' THEN late'[t] + Cardinality(Working(t)')
                                <= Cardinality(Requests)
                         ELSE late'[t] = 0
  <2>1. late'[t] = late[t] /\ late[t] \in Nat
    BY DEF Lost, SessionInv, SessionTypeOK
  <2>2. /\ Cardinality(Working(t)) \in Nat /\ Cardinality(Working(t)') \in Nat
        /\ Cardinality(Working(t)') <= Cardinality(Working(t))
    BY <1>3, Fewer DEF Working
  <2>3. Cardinality(Requests) \in Nat
    BY Fewer
  <2>4. IF Dead(t) THEN late[t] + Cardinality(Working(t)) <= Cardinality(Requests)
                   ELSE late[t] = 0
    BY DEF SessionInv, LateBound
  <2> QED BY <1>3, <2>1, <2>2, <2>3, <2>4
<1> QED BY <1>1, <1>2, <1>4 DEF SessionInv, LateBound

\* What was shown of the store says nothing of the secret.
LEMMA RekeyedStep ==
  ASSUME SessionInv, Rekeyed
  PROVE  SessionInv'
<1>1. SessionTypeOK' /\ NoOrphan'
  BY DEF SessionInv, Rekeyed, SessionTypeOK, NoOrphan, Live
<1>2. LateBound'
  BY DEF SessionInv, Rekeyed, LateBound, Dead, Expired, Live, Working
<1> QED BY <1>1, <1>2 DEF SessionInv

LEMMA StartupSessions == StartupSpec => []SessionInv
<1>1. StartupInit => SessionInv
  BY SessionInvInit DEF StartupInit
<1>2. SessionInv /\ [StartupNext]_startupVars => SessionInv'
  BY StartupStep, LostStep, RekeyedStep, TypeStep, OrphanStep, LateStep
     DEF SessionInv
<1> QED BY <1>1, <1>2, PTL DEF StartupSpec

\* Through crashes, shutdowns and restarts at any moment: no more requests work
\* under a dead token than the server handles at a time, in all its lives
\* taken together.
THEOREM StartupLateBound == StartupSpec => []LateBound
  BY StartupSessions, PTL DEF SessionInv

\* And no crash between two statements leaves a session without its account.
THEOREM StartupNoOrphan == StartupSpec => []NoOrphan
  BY StartupSessions, PTL DEF SessionInv

\* No crash, shutdown or restart ends a session, unless the new server has
\* another secret: rows and the secret are all there is to it.
THEOREM StartupKeptValid == StartupSpec => SessionKept
<1> DEFINE Step == \A t \in Tokens : InEffect(t) =>
             \/ InEffect(t)'
             \/ token[t].user \notin accounts'
             \/ \E r \in Working(t) : req[r].pc = "logout" /\ req'[r].pc = "idle"
             \/ secret' # secret
             \/ token'[t].life = "live" /\ token'[t].age = Ttl
<1>1. SessionTypeOK /\ [StartupNext]_startupVars => [Step]_sessionVars
  <2> SUFFICES ASSUME SessionTypeOK, [StartupNext]_startupVars
               PROVE  [Step]_sessionVars
    OBVIOUS
  <2>1. CASE SessionNext
    BY <2>1, KeptStep DEF RunsOut
  <2>2. CASE Lost
    BY <2>2 DEF Lost, InEffect
  <2>3. CASE Rekeyed
    BY <2>3 DEF Rekeyed, InEffect
  <2> QED BY <2>1, <2>2, <2>3, StartupStep
<1> QED
  BY <1>1, StartupSessions, PTL DEF StartupSpec, SessionInv, SessionKept

\* Nor does a restart bring a dead token back.
THEOREM StartupDeadForGood ==
  StartupSpec => [][\A t \in Tokens : Dead(t) => Dead(t)']_sessionVars
<1>1. SessionTypeOK /\ [StartupNext]_startupVars
        => [\A t \in Tokens : Dead(t) => Dead(t)']_sessionVars
  BY StartupStep, DeathIsFinal DEF Lost, Rekeyed, Dead, Expired, Live
<1> QED BY <1>1, StartupSessions, PTL DEF StartupSpec, SessionInv
-----------------------------------------------------------------------------
(* A server that serves is ready to.                                       *)

\* What is settled by the time run has got to a stage.  .env is only edited
\* while there is no process; the tables are not taken away again.
Settled ==
  /\ stage \notin {"off", "config"} => /\ ConfigOk(environment)
                                      /\ secret = environment.session_secret
  /\ stage \in {"discover", "seed", "bind", "serve", "drain"} => migrated
  /\ stage = "discover" \/ sso => environment.oidc # {}
  /\ sso => stage \in {"seed", "bind", "serve", "drain"}

LEMMA StartupTypeStep ==
  ASSUME StartupTypeOK, SessionTypeOK', [StartupNext]_startupVars
  PROVE  StartupTypeOK'
<1>1. /\ MaxAttempts \in Nat /\ 0 \in 0 .. MaxAttempts - 1
      /\ attempt \in 0 .. MaxAttempts - 1
      /\ stage \in Stages
  BY StartupAssumption DEF StartupTypeOK
<1>2. /\ environment \in Environments
      /\ sso \in BOOLEAN /\ migrated \in BOOLEAN
      /\ database \in BOOLEAN /\ calm \in BOOLEAN
  BY DEF StartupTypeOK
<1>3. ASSUME NEW next \in Stages, NEW n \in 0 .. MaxAttempts - 1, GoOn(next, n)
      PROVE  StartupTypeOK'
  BY <1>2, <1>3, Zenon DEF GoOn, StartupTypeOK
<1>4. "off" \in Stages
  BY DEF Stages
<1>5. ASSUME End  PROVE StartupTypeOK'
  BY <1>1, <1>2, <1>4, <1>5 DEF End, StartupTypeOK
<1>6. CASE Boot \/ ReadConfig
  <2>1. "config" \in Stages /\ "connect" \in Stages
    BY DEF Stages
  <2>2. CASE ReadConfig /\ ConfigOk(environment)
    BY <1>1, <1>2, <2>1, <2>2, Zenon DEF ReadConfig, StartupTypeOK
  <2> QED BY <1>1, <1>3, <1>5, <1>6, <2>1, <2>2 DEF Boot, ReadConfig
<1>7. CASE Connect
  <2>1. CASE database
    BY <1>1, <1>3, <1>7, <2>1 DEF Connect, Stages
  <2>2. CASE ~database /\ attempt + 1 < MaxAttempts
    <3>1. attempt + 1 \in 0 .. MaxAttempts - 1
      BY <1>1, <2>2
    <3> QED BY <1>3, <1>7, <2>2, <3>1 DEF Connect, Stages
  <2> QED BY <1>5, <1>7, <2>1, <2>2 DEF Connect
<1>8. CASE Sleep \/ Seed \/ Bind \/ Drained \/ Signal \/ Crash
  BY <1>1, <1>3, <1>5, <1>8
     DEF Sleep, Seed, Bind, Drained, Signal, Crash, Stages
<1>9. CASE Migrate
  <2>1. AfterMigration \in Stages
    BY DEF AfterMigration, Stages
  <2> QED BY <1>1, <1>2, <1>5, <1>9, <2>1 DEF Migrate, StartupTypeOK
<1>10. CASE Discover
  <2>1. "seed" \in Stages
    BY DEF Stages
  <2> QED BY <1>1, <1>2, <1>10, <2>1, Zenon DEF Discover, StartupTypeOK
<1>11. ASSUME Beside  PROVE StartupTypeOK'
  BY <1>1, <1>2, <1>11 DEF Beside, StartupTypeOK
<1>12. CASE DatabaseTurns \/ Edit \/ QuietDown
  BY <1>1, <1>2, <1>12 DEF DatabaseTurns, Edit, QuietDown, StartupTypeOK
<1>13. CASE UNCHANGED startupVars
  BY <1>1, <1>2, <1>13 DEF startupVars, StartupTypeOK
<1> QED BY <1>6, <1>7, <1>8, <1>9, <1>10, <1>11, <1>12, <1>13
       DEF StartupNext, Run, Accept, HandleSession, Erasure, PurgeTask, TimePasses

\* The variables of Startup keep their types.
THEOREM StartupTyped == StartupSpec => []StartupTypeOK
<1>1. StartupInit => StartupTypeOK
  <2> SUFFICES ASSUME StartupInit  PROVE StartupTypeOK
    OBVIOUS
  <2>1. SessionTypeOK
    BY SessionInvInit DEF StartupInit, SessionInv
  <2>2. attempt \in 0 .. MaxAttempts - 1 /\ stage \in Stages
    BY StartupAssumption DEF StartupInit, Stages
  <2> QED BY <2>1, <2>2, Zenon DEF StartupInit, StartupTypeOK
<1>2. StartupTypeOK /\ SessionInv' /\ [StartupNext]_startupVars
        => StartupTypeOK'
  BY StartupTypeStep DEF SessionInv
<1> QED BY <1>1, <1>2, StartupSessions, PTL DEF StartupSpec

LEMMA SettledStep ==
  ASSUME StartupTypeOK, Settled, [StartupNext]_startupVars
  PROVE  Settled'
<1> USE DEF Settled, sessionVars
<1>1. CASE Boot \/ ReadConfig \/ Connect \/ Sleep
  BY <1>1 DEF Boot, ReadConfig, Connect, Sleep, GoOn, End
<1>2. CASE Migrate
  BY <1>2 DEF Migrate, AfterMigration, End
<1>3. CASE Seed \/ Bind \/ Drained \/ Signal \/ Crash
  BY <1>3 DEF Seed, Bind, Drained, Signal, Crash, GoOn, End
<1>4. CASE Discover
  BY <1>4 DEF Discover
<1>5. ASSUME Beside  PROVE Settled'
  BY <1>5 DEF Beside
<1>6. CASE DatabaseTurns \/ Edit \/ QuietDown
  BY <1>6 DEF DatabaseTurns, Edit, QuietDown
<1>7. CASE UNCHANGED startupVars
  BY <1>7 DEF startupVars
<1> QED BY <1>1, <1>2, <1>3, <1>4, <1>5, <1>6, <1>7
       DEF StartupNext, Run, Accept, HandleSession, Erasure, PurgeTask, TimePasses

\* Whatever failed, was edited or restarted before: a server that listens has
\* the tables of scheduling, a configuration that from_env accepts, and its
\* secret.
THEOREM StartupServesReady == StartupSpec => []ServesReady
<1>1. StartupInit => Settled
  BY DEF StartupInit, Settled
<1>2. StartupTypeOK /\ Settled /\ [StartupNext]_startupVars => Settled'
  BY SettledStep
<1>3. Settled => ServesReady
  BY DEF Settled, ServesReady
<1> QED BY <1>1, <1>2, <1>3, StartupTyped, PTL DEF StartupSpec
=============================================================================
