--------------------------- MODULE AccountsProofs ---------------------------
(* One account for an identity and for an email, a sign-on that ends with   *)
(* the account of its identity, and an admin who remains as long as no two  *)
(* erasures run at once - for any ids, emails, identities, claims and       *)
(* requests.                                                                *)
EXTENDS Accounts, FiniteSetTheorems, TLAPS

LEMMA IdleType ==
  ASSUME NEW reply \in Replies
  PROVE  /\ Idle(reply) \in Request
         /\ Idle(reply).pc = "idle" /\ Idle(reply).reply = reply
  BY DEF Idle, Request, Statements

LEMMA FinishType ==
  ASSUME AccountsTypeOK, NEW r \in Requests, NEW reply \in Replies,
         Finish(r, reply)
  PROVE  req' \in [Requests -> Request] /\ req'[r].pc = "idle"
  BY IdleType DEF Finish, AccountsTypeOK

LEMMA GotoType ==
  ASSUME AccountsTypeOK, NEW r \in Requests, NEW pc \in Statements,
         Goto(r, pc)
  PROVE  /\ req' \in [Requests -> Request]
         /\ req'[r].pc = pc /\ req'[r].account = req[r].account
         /\ req'[r].identity = req[r].identity
  BY DEF Goto, AccountsTypeOK, Request

LEMMA WithType ==
  ASSUME NEW h \in Request, NEW pc \in Statements, NEW a \in Ids \cup {None}
  PROVE  /\ With(h, pc, a) \in Request
         /\ With(h, pc, a).pc = pc /\ With(h, pc, a).account = a
         /\ With(h, pc, a).identity = h.identity
  BY DEF With, Request

LEMMA SignInType ==
  ASSUME AccountsTypeOK, NEW r \in Requests, NEW a \in Ids \cup {None},
         SignIn(r, a)
  PROVE  /\ req' \in [Requests -> Request]
         /\ req'[r].pc = "session" /\ req'[r].account = a
         /\ req'[r].identity = req[r].identity
<1>1. req[r] \in Request /\ "session" \in Statements
  BY DEF AccountsTypeOK, Statements
<1> QED BY <1>1, WithType DEF SignIn, AccountsTypeOK

LEMMA EnterType ==
  ASSUME AccountsTypeOK, NEW r \in Requests, NEW pc \in Statements,
         NEW a \in Ids \cup {None}, NEW e \in Emails \cup {None},
         NEW i \in Identities \cup {None}, Enter(r, pc, a, e, i)
  PROVE  /\ req' \in [Requests -> Request]
         /\ req'[r].pc = pc /\ req'[r].account = a /\ req'[r].identity = i
<1> DEFINE h == [pc |-> pc, account |-> a, email |-> e,
                 identity |-> i, reply |-> "none"]
<1>1. h \in Request
  BY DEF Request, Replies
<1> QED BY <1>1 DEF Enter, AccountsTypeOK

LEMMA RowType ==
  ASSUME NEW e \in Emails \cup {SeedEmail, None}, NEW admin \in BOOLEAN,
         NEW i \in Identities \cup {None}
  PROVE  Row(e, admin, i) \in User
  BY DEF Row, User

(* What a statement does to the table: it inserts a row that violates no    *)
(* index, links a row, deletes one, or leaves the table as it is.           *)

Adds == \E a \in Ids, e \in Emails \cup {SeedEmail, None},
           admin \in BOOLEAN, i \in Identities \cup {None} :
          Insertable(Row(e, admin, i)) /\ Inserted(a, Row(e, admin, i))

Links(a, i) ==
  /\ a \in Live => WithIdentity(i) \ {a} = {}
  /\ user' = [b \in Ids |-> IF b = a /\ b \in Live
                            THEN Row(user[b].email, user[b].admin, i)
                            ELSE user[b]]

Deletes(a) ==
  user' = [b \in Ids |-> IF b = a /\ b \in Live THEN NoUser("gone")
                                                ELSE user[b]]

LEMMA TableStep ==
  ASSUME AccountsTypeOK, [AccountsNext]_accountsVars
  PROVE  \/ UNCHANGED user
         \/ Adds
         \/ \E r \in Requests : Link(r) /\ Links(req[r].account, req[r].identity)
         \/ \E r \in Requests : Erase(r) /\ Deletes(req[r].account)
<1>1. CASE Start
  <2>1. Insertable(Row(SeedEmail, TRUE, None)) \/ UNCHANGED user
    BY <1>1 DEF Start, Insertable, Row
  <2>2. CASE UNCHANGED user
    BY <2>2
  <2>3. CASE ~UNCHANGED user
    <3>1. \E a \in Ids : Inserted(a, Row(SeedEmail, TRUE, None))
      BY <1>1, <2>3 DEF Start
    <3> QED BY <2>1, <2>3, <3>1 DEF Adds
  <2> QED BY <2>2, <2>3
<1>2. ASSUME NEW r \in Requests, CreateUser(r)
      PROVE  UNCHANGED user \/ Adds
  <2>1. req[r].email \in Emails \cup {SeedEmail, None}
    BY DEF AccountsTypeOK, Request
  <2>2. ASSUME ~UNCHANGED user
        PROVE  \E admin \in BOOLEAN : \E a \in Ids :
                 /\ Insertable(Row(req[r].email, admin, None))
                 /\ Inserted(a, Row(req[r].email, admin, None))
    BY <1>2, <2>2 DEF CreateUser
  <2> QED BY <2>1, <2>2 DEF Adds
<1>3. ASSUME NEW r \in Requests, Provision(r)
      PROVE  UNCHANGED user \/ Adds
  <2>1. /\ req[r].email \in Emails \cup {SeedEmail, None}
        /\ req[r].identity \in Identities \cup {None}
        /\ DefaultAdmin \in BOOLEAN
    BY AccountsAssumption DEF AccountsTypeOK, Request
  <2>2. ASSUME ~UNCHANGED user
        PROVE  \E a \in Ids :
                 /\ Insertable(Row(req[r].email, DefaultAdmin, req[r].identity))
                 /\ Inserted(a, Row(req[r].email, DefaultAdmin, req[r].identity))
    BY <1>3, <2>2 DEF Provision
  <2> QED BY <2>1, <2>2 DEF Adds
<1>4. ASSUME NEW r \in Requests, Link(r)
      PROVE  UNCHANGED user \/ Links(req[r].account, req[r].identity)
  BY <1>4 DEF Link, Links
<1>5. ASSUME NEW r \in Requests, Erase(r)
      PROVE  Deletes(req[r].account)
  BY <1>5 DEF Erase, Deletes
<1>6. ASSUME NEW r \in Requests,
             \/ Receive(r) \/ Abort(r) \/ EraseRole(r) \/ EraseCount(r)
             \/ ByIdentity(r) \/ ByEmail(r) \/ Reread(r) \/ StoreSession(r)
      PROVE  UNCHANGED user
  BY <1>6 DEF Receive, Abort, EraseRole, EraseCount, ByIdentity, ByEmail,
              Reread, StoreSession
<1>7. UNCHANGED accountsVars \/ Stop => UNCHANGED user
  BY DEF accountsVars, Stop
<1> QED BY <1>1, <1>2, <1>3, <1>4, <1>5, <1>6, <1>7 DEF AccountsNext, SignOn

(* Type correctness.                                                       *)

LEMMA UserType ==
  ASSUME AccountsTypeOK, [AccountsNext]_accountsVars
  PROVE  user' \in [Ids -> User]
<1>1. CASE Adds
  <2>1. PICK a \in Ids, e \in Emails \cup {SeedEmail, None},
             admin \in BOOLEAN, i \in Identities \cup {None} :
               Inserted(a, Row(e, admin, i))
    BY <1>1 DEF Adds
  <2>2. Row(e, admin, i) \in User
    BY RowType
  <2> QED BY <2>1, <2>2 DEF Inserted, AccountsTypeOK
<1>2. ASSUME NEW r \in Requests, Links(req[r].account, req[r].identity)
      PROVE  user' \in [Ids -> User]
  <2>1. ASSUME NEW b \in Ids
        PROVE  Row(user[b].email, user[b].admin, req[r].identity) \in User
    <3>1. /\ user[b].email \in Emails \cup {SeedEmail, None}
          /\ user[b].admin \in BOOLEAN
          /\ req[r].identity \in Identities \cup {None}
      BY DEF AccountsTypeOK, User, Request
    <3> QED BY <3>1, RowType
  <2> QED BY <1>2, <2>1 DEF Links, AccountsTypeOK
<1>3. ASSUME NEW r \in Requests, Deletes(req[r].account)
      PROVE  user' \in [Ids -> User]
  <2>1. NoUser("gone") \in User
    BY DEF NoUser, User
  <2> QED BY <1>3, <2>1 DEF Deletes, AccountsTypeOK
<1> QED BY <1>1, <1>2, <1>3, TableStep DEF AccountsTypeOK

LEMMA ReqType ==
  ASSUME AccountsTypeOK, [AccountsNext]_accountsVars
  PROVE  req' \in [Requests -> Request]
<1>1. CASE Stop
  BY <1>1, IdleType DEF Stop, Replies
<1>2. ASSUME NEW r \in Requests, Receive(r)
      PROVE  req' \in [Requests -> Request]
  <2>1. CASE \E e \in Creatable : Enter(r, "create", None, e, None)
    <3>1. PICK e \in Creatable : Enter(r, "create", None, e, None)
      BY <2>1
    <3>2. e \in Emails \cup {None} /\ "create" \in Statements
      BY AccountsAssumption DEF Statements
    <3> QED BY <3>1, <3>2, EnterType
  <2>2. CASE \E a \in Ids : Enter(r, "erase_role", a, None, None)
    <3>1. "erase_role" \in Statements
      BY DEF Statements
    <3> QED BY <2>2, <3>1, EnterType
  <2>3. CASE \E claim \in Claims :
               Enter(r, "by_identity", None, claim[2], claim[1])
    <3>1. PICK claim \in Claims :
                 Enter(r, "by_identity", None, claim[2], claim[1])
      BY <2>3
    <3>2. /\ claim[2] \in Emails \cup {None}
          /\ claim[1] \in Identities \cup {None}
          /\ "by_identity" \in Statements
      BY AccountsAssumption DEF Statements
    <3> QED BY <3>1, <3>2, EnterType
  <2> QED BY <1>2, <2>1, <2>2, <2>3 DEF Receive
<1>3. ASSUME NEW r \in Requests, NEW reply \in Replies, Finish(r, reply)
      PROVE  req' \in [Requests -> Request]
  BY <1>3, FinishType
<1>4. ASSUME NEW r \in Requests, NEW pc \in Statements, Goto(r, pc)
      PROVE  req' \in [Requests -> Request]
  BY <1>4, GotoType
<1>5. ASSUME NEW r \in Requests, NEW a \in Ids \cup {None}, SignIn(r, a)
      PROVE  req' \in [Requests -> Request]
  BY <1>5, SignInType
<1>6. ASSUME NEW r \in Requests, ByEmail(r)
      PROVE  req' \in [Requests -> Request]
  <2>1. CASE Goto(r, "provision")
    BY <1>4, <2>1 DEF Statements
  <2>2. CASE \E a \in Ids : req' = [req EXCEPT ![r] = With(req[r], "link", a)]
    <3>1. PICK a \in Ids : req' = [req EXCEPT ![r] = With(req[r], "link", a)]
      BY <2>2
    <3>2. With(req[r], "link", a) \in Request
      BY WithType DEF AccountsTypeOK, Statements
    <3> QED BY <3>1, <3>2 DEF AccountsTypeOK
  <2> QED BY <1>6, <2>1, <2>2 DEF ByEmail, WithEmail, Live
<1>7. ASSUME NEW r \in Requests
      PROVE  req[r].account \in Ids \cup {None}
  BY DEF AccountsTypeOK, Request
<1>8. ASSUME NEW r \in Requests, Abort(r) \/ CreateUser(r) \/ EraseRole(r)
               \/ EraseCount(r) \/ Erase(r) \/ StoreSession(r)
      PROVE  req' \in [Requests -> Request]
  BY <1>3, <1>4, <1>8 DEF Abort, CreateUser, EraseRole, EraseCount, Erase,
                          StoreSession, Replies, Statements
<1>9. ASSUME NEW r \in Requests, ByIdentity(r) \/ Link(r) \/ Provision(r)
               \/ Reread(r)
      PROVE  req' \in [Requests -> Request]
  BY <1>3, <1>4, <1>5, <1>7, <1>9
  DEF ByIdentity, Link, Provision, Reread, WithIdentity, Live, Replies,
      Statements
<1> QED BY <1>1, <1>2, <1>6, <1>8, <1>9
        DEF AccountsNext, SignOn, Start, AccountsTypeOK, accountsVars

LEMMA TypeStep ==
  ASSUME AccountsTypeOK, [AccountsNext]_accountsVars
  PROVE  AccountsTypeOK'
<1>1. server' \in {"new", "up", "down"}
  BY DEF AccountsTypeOK, AccountsNext, Start, Stop, Receive, Abort,
         CreateUser, EraseRole, EraseCount, Erase, SignOn, ByIdentity,
         ByEmail, Link, Provision, Reread, StoreSession, accountsVars
<1> QED BY <1>1, UserType, ReqType DEF AccountsTypeOK

LEMMA TypeInit == AccountsInit => AccountsTypeOK
<1>1. NoUser("unborn") \in User
  BY DEF NoUser, User
<1>2. Idle("none") \in Request
  BY IdleType DEF Replies
<1> QED BY <1>1, <1>2 DEF AccountsInit, AccountsTypeOK

\* The variables keep their types.
THEOREM AccountsTyped == AccountsSpec => []AccountsTypeOK
  BY TypeInit, TypeStep, PTL DEF AccountsSpec

(* One account for one identity and one email.                             *)

LEMMA OneStep ==
  ASSUME AccountsTypeOK, OneAccount, [AccountsNext]_accountsVars
  PROVE  OneAccount'
<1>1. CASE UNCHANGED user
  BY <1>1 DEF OneAccount, Live
<1>2. CASE Adds
  <2>1. PICK n \in Ids, e \in Emails \cup {SeedEmail, None},
             admin \in BOOLEAN, i \in Identities \cup {None} :
               Insertable(Row(e, admin, i)) /\ Inserted(n, Row(e, admin, i))
    BY <1>2 DEF Adds
  <2>2. \A b \in Live : /\ user[b].email # e
                        /\ i = None \/ user[b].identity # i
    BY <2>1 DEF Insertable, WithEmail, WithIdentity, Row
  <2>3. /\ user'[n].email = e /\ user'[n].identity = i
        /\ \A b \in Ids : b # n => user'[b] = user[b]
    BY <2>1 DEF Inserted, Row, AccountsTypeOK
  <2> QED BY <2>2, <2>3 DEF OneAccount, Live
<1>3. ASSUME NEW r \in Requests, Links(req[r].account, req[r].identity)
      PROVE  OneAccount'
  <2> DEFINE n == req[r].account
             i == req[r].identity
  <2>1. ASSUME NEW b \in Live'
        PROVE  /\ b \in Live /\ user'[b].email = user[b].email
               /\ user'[b].identity = IF b = n THEN i ELSE user[b].identity
    BY <1>3, <2>1 DEF Links, Live, Row, AccountsTypeOK
  <2>2. n \in Live => \A b \in Live : b = n \/ user[b].identity # i
    BY <1>3 DEF Links, WithIdentity
  <2> HIDE DEF n, i
  <2> QED BY <2>1, <2>2 DEF OneAccount
<1>4. ASSUME NEW r \in Requests, Deletes(req[r].account)
      PROVE  OneAccount'
  <2>1. ASSUME NEW b \in Live'
        PROVE  b \in Live /\ user'[b] = user[b]
    BY <1>4, <2>1 DEF Deletes, Live, NoUser, AccountsTypeOK
  <2> QED BY <2>1 DEF OneAccount
<1> QED BY <1>1, <1>2, <1>3, <1>4, TableStep

LEMMA OneInit == AccountsInit => OneAccount
  BY DEF AccountsInit, OneAccount, Live, NoUser

\* However provisioning, linking, creation and seeding interleave, there is
\* one account for an identity and one for an email.
THEOREM OneForAll == AccountsSpec => []OneAccount
  BY OneInit, OneStep, AccountsTyped, PTL DEF AccountsSpec

(* A sign-on goes on with the account of its identity.                     *)

\* The callback's statements, each with the identity it was entered with.
SignOnPcs == {"by_identity", "by_email", "link", "provision", "reread", "session"}

Named == \A r \in Requests : req[r].pc \in SignOnPcs => req[r].identity # None

\* What a handler's step does to the other slots: nothing.
LEMMA OthersStay ==
  ASSUME AccountsTypeOK, NEW r \in Requests, NEW q \in Requests, q # r,
         \/ Receive(q) \/ Abort(q) \/ CreateUser(q) \/ EraseRole(q)
         \/ EraseCount(q) \/ Erase(q) \/ SignOn(q)
  PROVE  req'[r] = req[r]
<1> USE DEF AccountsTypeOK, Finish, Goto, Enter, SignIn
<1>1. CASE Receive(q)  BY <1>1 DEF Receive
<1>2. CASE Abort(q)  BY <1>2 DEF Abort
<1>3. CASE CreateUser(q)  BY <1>3 DEF CreateUser
<1>4. CASE EraseRole(q)  BY <1>4 DEF EraseRole
<1>5. CASE EraseCount(q)  BY <1>5 DEF EraseCount
<1>6. CASE Erase(q)  BY <1>6 DEF Erase
<1>7. CASE ByIdentity(q)  BY <1>7 DEF ByIdentity
<1>8. CASE ByEmail(q)  BY <1>8 DEF ByEmail
<1>9. CASE Link(q)  BY <1>9 DEF Link
<1>10. CASE Provision(q)  BY <1>10 DEF Provision
<1>11. CASE Reread(q)  BY <1>11 DEF Reread
<1>12. CASE StoreSession(q)  BY <1>12 DEF StoreSession
<1> QED BY <1>1, <1>2, <1>3, <1>4, <1>5, <1>6, <1>7, <1>8, <1>9, <1>10,
           <1>11, <1>12 DEF SignOn

\* What the own step of a request can be, by the statement it is at.
LEMMA ReceivedPc ==
  ASSUME AccountsTypeOK, NEW r \in Requests, Receive(r)
  PROVE  \/ req'[r].pc \in {"create", "erase_role"}
         \/ req'[r].pc = "by_identity" /\ req'[r].identity \in Identities
<1>1. CASE \E e \in Creatable : Enter(r, "create", None, e, None)
  BY <1>1 DEF Enter, AccountsTypeOK
<1>2. CASE \E a \in Ids : Enter(r, "erase_role", a, None, None)
  BY <1>2 DEF Enter, AccountsTypeOK
<1>3. CASE \E claim \in Claims :
             Enter(r, "by_identity", None, claim[2], claim[1])
  BY <1>3, AccountsAssumption DEF Enter, AccountsTypeOK
<1> QED BY <1>1, <1>2, <1>3 DEF Receive

LEMMA LinkPc ==
  ASSUME AccountsTypeOK, NEW r \in Requests, ByEmail(r)
  PROVE  /\ req'[r].pc \in {"provision", "link"}
         /\ req'[r].identity = req[r].identity
<1>1. CASE Goto(r, "provision")
  BY <1>1, GotoType DEF Statements
<1>2. CASE \E a \in Ids : req' = [req EXCEPT ![r] = With(req[r], "link", a)]
  <2>1. PICK a \in Ids : req' = [req EXCEPT ![r] = With(req[r], "link", a)]
    BY <1>2
  <2>2. /\ With(req[r], "link", a).pc = "link"
        /\ With(req[r], "link", a).identity = req[r].identity
    BY WithType DEF AccountsTypeOK, Statements
  <2> QED BY <2>1, <2>2 DEF AccountsTypeOK
<1> QED BY <1>1, <1>2 DEF ByEmail, WithEmail, Live

LEMMA IdlePc ==
  ASSUME AccountsTypeOK, NEW r \in Requests, NEW reply \in Replies,
         Finish(r, reply)
  PROVE  req'[r].pc = "idle"
  BY FinishType

\* A handler of the callback keeps the identity it was entered with.
LEMMA SignOnStep ==
  ASSUME AccountsTypeOK, NEW r \in Requests, SignOn(r)
  PROVE  /\ req[r].pc \in SignOnPcs
         /\ \/ req'[r].pc = "idle"
            \/ /\ req'[r].pc \in SignOnPcs
               /\ req'[r].identity = req[r].identity
<1>0. req[r].account \in Ids \cup {None}
  BY DEF AccountsTypeOK, Request
<1>1. \A reply \in Replies : Finish(r, reply) => req'[r].pc = "idle"
  BY IdlePc
<1>2. \A a \in Ids \cup {None} :
        SignIn(r, a) => /\ req'[r].pc = "session"
                        /\ req'[r].identity = req[r].identity
  BY SignInType
<1>3. \A pc \in Statements :
        Goto(r, pc) => /\ req'[r].pc = pc
                       /\ req'[r].identity = req[r].identity
  BY GotoType
<1> USE DEF SignOnPcs, At
<1>4. CASE ByIdentity(r)
  BY <1>2, <1>3, <1>4 DEF ByIdentity, WithIdentity, Live, Statements
<1>5. CASE ByEmail(r)  BY <1>5, LinkPc DEF ByEmail
<1>6. CASE Link(r)
  BY <1>0, <1>1, <1>2, <1>6 DEF Link, Replies
<1>7. CASE Provision(r)
  BY <1>2, <1>3, <1>7 DEF Provision, Statements
<1>8. CASE Reread(r)
  BY <1>1, <1>2, <1>8 DEF Reread, WithIdentity, Live, Replies
<1>9. CASE StoreSession(r)
  BY <1>1, <1>9 DEF StoreSession, Replies
<1> QED BY <1>4, <1>5, <1>6, <1>7, <1>8, <1>9 DEF SignOn

\* No other handler gets to a statement of the callback.
LEMMA OtherPcs ==
  ASSUME AccountsTypeOK, NEW r \in Requests,
         Abort(r) \/ CreateUser(r) \/ EraseRole(r) \/ EraseCount(r) \/ Erase(r)
  PROVE  req'[r].pc \notin SignOnPcs
<1>1. \A reply \in Replies : Finish(r, reply) => req'[r].pc = "idle"
  BY IdlePc
<1>2. \A pc \in Statements : Goto(r, pc) => req'[r].pc = pc
  BY GotoType
<1> USE <1>1, <1>2 DEF SignOnPcs, Replies, Statements
<1>3. CASE Abort(r)  BY <1>3 DEF Abort
<1>4. CASE CreateUser(r)  BY <1>4 DEF CreateUser
<1>5. CASE EraseRole(r)  BY <1>5 DEF EraseRole
<1>6. CASE EraseCount(r)  BY <1>6 DEF EraseCount
<1>7. CASE Erase(r)  BY <1>7 DEF Erase
<1> QED BY <1>3, <1>4, <1>5, <1>6, <1>7

LEMMA NamedStep ==
  ASSUME AccountsTypeOK, Named, [AccountsNext]_accountsVars
  PROVE  Named'
<1> SUFFICES ASSUME NEW r \in Requests, req'[r].pc \in SignOnPcs
             PROVE  req'[r].identity # None
  BY DEF Named
<1>1. CASE req'[r] = req[r]
  BY <1>1 DEF Named
<1>2. CASE Stop
  BY <1>2 DEF Stop, Idle, SignOnPcs
<1>3. CASE Receive(r)
  BY <1>3, ReceivedPc, AccountsAssumption DEF SignOnPcs
<1>4. CASE SignOn(r)
  BY <1>4, SignOnStep DEF Named, SignOnPcs
<1>5. CASE Abort(r) \/ CreateUser(r) \/ EraseRole(r) \/ EraseCount(r)
             \/ Erase(r)
  BY <1>5, OtherPcs
<1> QED BY <1>1, <1>2, <1>3, <1>4, <1>5, OthersStay
        DEF AccountsNext, Start, accountsVars

LEMMA NamedInit == AccountsInit => Named
  BY DEF AccountsInit, Named, Idle, SignOnPcs

\* How a sign-on gets to create_session: the account was found by its
\* identity, or has been given it by this very step.
LEMMA Arrival ==
  ASSUME AccountsTypeOK, OneAccount, Named, AccountsNext,
         NEW r \in Requests, ~At(r, "session"), At(r, "session")',
         req'[r].account \in Live'
  PROVE  WithIdentity(req[r].identity)' = {req'[r].account}
<1> DEFINE i == req[r].identity
<1>0. SignOn(r)
  <2>1. req'[r] # req[r] /\ req'[r].pc \in SignOnPcs
        /\ req'[r].pc # "by_identity"
    BY DEF At, SignOnPcs
  <2>2. ~Stop
    BY <2>1 DEF Stop, Idle, SignOnPcs
  <2>3. ~Receive(r)
    BY <2>1, ReceivedPc DEF SignOnPcs
  <2> QED BY <2>1, <2>2, <2>3, OthersStay, OtherPcs DEF AccountsNext, Start
<1>1. i # None
  BY <1>0, SignOnStep DEF Named
<1>2. req'[r].identity = i
  BY <1>0, SignOnStep DEF At
<1>3. ASSUME NEW a \in Ids, user'[a].identity = i, a \in Live'
      PROVE  WithIdentity(i)' = {a}
  <2>1. OneAccount'
    BY OneStep
  <2> HIDE DEF i
  <2> QED BY <1>1, <1>2, <1>3, <2>1 DEF OneAccount, WithIdentity, Live, i
<1>4. ASSUME NEW a \in WithIdentity(i), SignIn(r, a), UNCHANGED user
      PROVE  req'[r].account = a /\ user'[a].identity = i
  BY <1>4, SignInType DEF WithIdentity, Live
<1>5. CASE ByIdentity(r)
  <2>1. ~Goto(r, "by_email")
    BY GotoType DEF At, Statements
  <2>2. PICK a \in WithIdentity(i) : SignIn(r, a)
    BY <1>5, <2>1 DEF ByIdentity
  <2> QED BY <1>3, <1>4, <1>5, <2>2 DEF ByIdentity, WithIdentity, Live
<1>6. CASE Reread(r)
  <2>1. ~Finish(r, "not_found")
    BY IdlePc DEF At, Replies
  <2>2. PICK a \in WithIdentity(i) : SignIn(r, a)
    BY <1>6, <2>1 DEF Reread
  <2> QED BY <1>3, <1>4, <1>6, <2>2 DEF Reread, WithIdentity, Live
<1>7. CASE Link(r)
  <2> DEFINE a == req[r].account
  <2>1. ~Finish(r, "error")
    BY IdlePc DEF At, Replies
  <2>2. /\ SignIn(r, a)
        /\ user' = [b \in Ids |-> IF b = a /\ b \in Live
                                  THEN Row(user[b].email, user[b].admin, i)
                                  ELSE user[b]]
    BY <1>7, <2>1 DEF Link
  <2>3. req'[r].account = a /\ a \in Ids /\ a \in Live'
    <3>1. a \in Ids \cup {None}
      BY DEF AccountsTypeOK, Request
    <3> QED BY <2>2, <3>1, SignInType DEF Live
  <2>4. user'[a].identity = i
    BY <2>2, <2>3 DEF Row, Live
  <2> QED BY <1>3, <2>3, <2>4
<1>8. CASE Provision(r)
  <2>1. ~Goto(r, "reread")
    BY GotoType DEF At, Statements
  <2>2. PICK a \in Ids :
               /\ Inserted(a, Row(req[r].email, DefaultAdmin, i))
               /\ SignIn(r, a)
    BY <1>8, <2>1 DEF Provision
  <2>3. req'[r].account = a /\ user'[a].identity = i
    BY <2>2, SignInType DEF Inserted, Row, AccountsTypeOK
  <2> QED BY <1>3, <2>3
<1>9. ~ByEmail(r) /\ ~StoreSession(r)
  BY LinkPc, IdlePc DEF At, StoreSession, Replies
<1> QED BY <1>0, <1>5, <1>6, <1>7, <1>8, <1>9 DEF SignOn

\* Whoever signs on goes on with the one account of their identity.
THEOREM OwnAccount == AccountsSpec => SignedOnAsLinked
<1> DEFINE Step == \A r \in Requests :
             ~At(r, "session") /\ At(r, "session")'
               => LET a == req'[r].account IN
                  a \in Live' => WithIdentity(req[r].identity)' = {a}
<1>1. AccountsTypeOK /\ OneAccount /\ Named /\ [AccountsNext]_accountsVars
        => [Step]_accountsVars
  BY Arrival
<1>2. AccountsSpec => []Named
  BY NamedInit, NamedStep, AccountsTyped, PTL DEF AccountsSpec
<1> QED BY <1>1, <1>2, AccountsTyped, OneForAll, PTL
        DEF AccountsSpec, SignedOnAsLinked

(* An admin remains, as long as there is one eraser at a time.             *)

OneEraser == \A r, q \in Erasers : r = q

\* The admin an erasure has already counted is not the last one: nothing but
\* another erasure takes an admin away, and there is none.
Spared(a) == /\ user[a].life # "unborn"
             /\ a \in Admins => \E b \in Admins : b # a

AdminInv ==
  /\ server = "new" => /\ Live = {}
                       /\ \A r \in Requests : At(r, "idle")
  /\ server # "new" /\ SeedEmail # None => Admins # {}
  /\ \A r \in Requests : At(r, "erase_role") \/ At(r, "erase_count")
                           \/ At(r, "erase") => r \in Erasers
  /\ \A r \in Requests : At(r, "erase_count") =>
       req[r].account \in Ids /\ user[req[r].account].life # "unborn"
  /\ \A r \in Requests : At(r, "erase") =>
       req[r].account \in Ids /\ Spared(req[r].account)

LEMMA TwoAdmins ==
  ASSUME ~(Cardinality(Admins) <= 1), NEW a \in Ids
  PROVE  \E b \in Admins : b # a
<1>1. IsFiniteSet(Admins)
  BY AccountsAssumption, FS_Subset DEF Admins, Live
<1> SUFFICES ASSUME Admins \subseteq {a}
             PROVE  FALSE
  OBVIOUS
<1>2. IsFiniteSet({a}) /\ Cardinality({a}) = 1
  BY FS_Singleton
<1>3. Cardinality(Admins) <= Cardinality({a})
  BY <1>2, FS_Subset
<1> QED BY <1>2, <1>3

\* An account that was born stays what it is, or goes.
LEMMA Kept ==
  ASSUME AccountsTypeOK, [AccountsNext]_accountsVars, NEW a \in Ids,
         user[a].life # "unborn"
  PROVE  /\ user'[a].life # "unborn"
         /\ a \in Admins' => a \in Admins
<1>1. CASE UNCHANGED user
  BY <1>1 DEF Admins, Live
<1>2. CASE Adds
  BY <1>2 DEF Adds, Inserted, Admins, Live, AccountsTypeOK
<1>3. ASSUME NEW r \in Requests, Links(req[r].account, req[r].identity)
      PROVE  /\ user'[a].life # "unborn"
             /\ a \in Admins' => a \in Admins
  BY <1>3 DEF Links, Row, Admins, Live
<1>4. ASSUME NEW r \in Requests, Deletes(req[r].account)
      PROVE  /\ user'[a].life # "unborn"
             /\ a \in Admins' => a \in Admins
  BY <1>4 DEF Deletes, NoUser, Admins, Live
<1> QED BY <1>1, <1>2, <1>3, <1>4, TableStep

\* An admin stays one until an erasure of his account gets to its DELETE.
LEMMA AdminStays ==
  ASSUME AccountsTypeOK, [AccountsNext]_accountsVars, NEW a \in Admins,
         \A r \in Requests : Erase(r) => req[r].account # a
  PROVE  a \in Admins'
<1>1. CASE UNCHANGED user
  BY <1>1 DEF Admins, Live
<1>2. CASE Adds
  BY <1>2 DEF Adds, Inserted, Admins, Live, AccountsTypeOK
<1>3. ASSUME NEW r \in Requests, Links(req[r].account, req[r].identity)
      PROVE  a \in Admins'
  BY <1>3 DEF Links, Row, Admins, Live
<1>4. ASSUME NEW r \in Requests, Erase(r), Deletes(req[r].account)
      PROVE  a \in Admins'
  BY <1>4 DEF Deletes, Admins, Live
<1> QED BY <1>1, <1>2, <1>3, <1>4, TableStep

\* Who is at a statement of an erasure after a step, and was not there before.
LEMMA EraserPcs ==
  ASSUME AccountsTypeOK, [AccountsNext]_accountsVars,
         NEW r \in Requests, req'[r] # req[r],
         req'[r].pc \in {"erase_role", "erase_count", "erase"}
  PROVE  \/ req'[r].pc = "erase_role" /\ r \in Erasers
         \/ EraseRole(r) /\ req'[r].account = req[r].account
         \/ EraseCount(r) /\ req'[r].account = req[r].account
                          /\ req'[r].pc = "erase"
<1>1. ~Stop
  BY DEF Stop, Idle
<1>2. ASSUME Receive(r)
      PROVE  req'[r].pc = "erase_role" /\ r \in Erasers
  <2>1. CASE \E e \in Creatable : Enter(r, "create", None, e, None)
    BY <2>1 DEF Enter, AccountsTypeOK
  <2>2. CASE r \in Erasers /\ \E a \in Ids : Enter(r, "erase_role", a, None, None)
    BY <2>2 DEF Enter, AccountsTypeOK
  <2>3. CASE \E claim \in Claims :
               Enter(r, "by_identity", None, claim[2], claim[1])
    BY <2>3 DEF Enter, AccountsTypeOK
  <2> QED BY <1>2, <2>1, <2>2, <2>3 DEF Receive
<1>3. ~SignOn(r)
  BY SignOnStep DEF SignOnPcs
<1>4. \A reply \in Replies : ~Finish(r, reply)
  BY IdlePc
<1>5. ~Abort(r) /\ ~CreateUser(r) /\ ~Erase(r)
  BY <1>4 DEF Abort, CreateUser, Erase, Replies
<1>6. ASSUME EraseRole(r) PROVE req'[r].account = req[r].account
  BY <1>4, <1>6, GotoType DEF EraseRole, Replies, Statements
<1>7. ASSUME EraseCount(r)
      PROVE  req'[r].account = req[r].account /\ req'[r].pc = "erase"
  BY <1>4, <1>7, GotoType DEF EraseCount, Replies, Statements
<1> QED BY <1>1, <1>2, <1>3, <1>5, <1>6, <1>7, OthersStay
        DEF AccountsNext, Start, accountsVars

\* Before its first start there is nothing to act on.
LEMMA NewStep ==
  ASSUME AdminInv, [AccountsNext]_accountsVars, server' = "new"
  PROVE  UNCHANGED accountsVars
<1>1. ~Start /\ ~Stop
  BY DEF Start, Stop
<1>2. ASSUME NEW r \in Requests,
             \/ Receive(r) \/ Abort(r) \/ CreateUser(r) \/ EraseRole(r)
             \/ EraseCount(r) \/ Erase(r) \/ SignOn(r)
      PROVE  FALSE
  <2>1. UNCHANGED server
    BY <1>2 DEF Receive, Abort, CreateUser, EraseRole, EraseCount, Erase,
                SignOn, ByIdentity, ByEmail, Link, Provision, Reread,
                StoreSession
  <2>2. At(r, "idle") /\ server = "new"
    BY <2>1 DEF AdminInv
  <2> QED BY <1>2, <2>2 DEF At, Receive, Abort, CreateUser, EraseRole,
             EraseCount, Erase, SignOn, ByIdentity, ByEmail, Link, Provision,
             Reread, StoreSession
<1> QED BY <1>1, <1>2 DEF AccountsNext

LEMMA AdminStep ==
  ASSUME OneEraser, AccountsTypeOK, AdminInv, [AccountsNext]_accountsVars
  PROVE  AdminInv'
<1> USE DEF At
<1>1. ASSUME server' = "new"
      PROVE  Live' = {} /\ \A r \in Requests : At(r, "idle")'
  BY <1>1, NewStep DEF AdminInv, accountsVars, Live
<1>2. ASSUME server' # "new", SeedEmail # None  PROVE Admins' # {}
  <2>1. CASE server = "new"
    <3>1. Start
      <4>1. ~UNCHANGED server
        BY <1>2, <2>1
      <4> QED BY <2>1, <4>1 DEF AccountsNext, accountsVars, Stop, Receive,
                 Abort, CreateUser, EraseRole, EraseCount, Erase, SignOn,
                 ByIdentity, ByEmail, Link, Provision, Reread, StoreSession
    <3>2. WithEmail(SeedEmail) = {}
      BY <2>1 DEF AdminInv, WithEmail
    <3>3. PICK a \in Ids : Inserted(a, Row(SeedEmail, TRUE, None))
      BY <1>2, <3>1, <3>2 DEF Start
    <3>4. a \in Admins'
      BY <3>3 DEF Inserted, Row, Admins, Live, AccountsTypeOK
    <3> QED BY <3>4
  <2>2. CASE server # "new" /\ \E r \in Requests : Erase(r)
    <3>1. PICK r \in Requests : Erase(r)
      BY <2>2
    <3>2. PICK b \in Admins : b # req[r].account
      BY <1>2, <2>2, <3>1 DEF AdminInv, Erase, Spared
    <3>3. ASSUME NEW q \in Requests, Erase(q)  PROVE req[q].account # b
      BY <3>1, <3>2, <3>3 DEF AdminInv, Erase, OneEraser
    <3> QED BY <3>2, <3>3, AdminStays
  <2>3. CASE server # "new" /\ \A r \in Requests : ~Erase(r)
    BY <1>2, <2>3, AdminStays DEF AdminInv
  <2> QED BY <2>1, <2>2, <2>3
<1>3. ASSUME NEW r \in Requests,
             req'[r].pc \in {"erase_role", "erase_count", "erase"}
      PROVE  r \in Erasers
  BY <1>3, EraserPcs DEF AdminInv, EraseRole, EraseCount
<1>4. ASSUME NEW r \in Requests, At(r, "erase_count")'
      PROVE  req'[r].account \in Ids /\ user'[req'[r].account].life # "unborn"
  <2>1. CASE req'[r] = req[r]
    BY <1>4, <2>1, Kept DEF AdminInv
  <2>2. CASE EraseRole(r) /\ req'[r].account = req[r].account
    <3>1. \A reply \in Replies : ~Finish(r, reply)
      BY <1>4, IdlePc
    <3>2. ~Goto(r, "erase")
      BY <1>4, GotoType DEF Statements
    <3>3. req[r].account \in Admins /\ UNCHANGED user
      BY <2>2, <3>1, <3>2 DEF EraseRole, Replies
    <3> QED BY <2>2, <3>3 DEF Admins, Live
  <2> QED BY <1>4, <2>1, <2>2, EraserPcs
<1>5. ASSUME NEW r \in Requests, At(r, "erase")'
      PROVE  req'[r].account \in Ids /\ Spared(req[r].account)'
  <2>0. \A reply \in Replies : ~Finish(r, reply)
    BY <1>5, IdlePc
  <2>1. CASE req'[r] = req[r]
    <3>1. req[r].account \in Ids /\ Spared(req[r].account) /\ r \in Erasers
      BY <1>5, <2>1 DEF AdminInv
    <3>2. ASSUME NEW q \in Requests, Erase(q)  PROVE FALSE
      BY <2>0, <3>1, <3>2 DEF AdminInv, Erase, OneEraser, Replies
    <3> QED BY <2>1, <3>1, <3>2, Kept, AdminStays DEF Spared
  <2>2. CASE EraseRole(r) /\ req'[r].account = req[r].account
    <3>1. ~Goto(r, "erase_count")
      BY <1>5, GotoType DEF Statements
    <3>2. req[r].account \in Live \ Admins /\ UNCHANGED user
      BY <2>0, <2>2, <3>1 DEF EraseRole, Replies
    <3> QED BY <2>2, <3>2 DEF Spared, Admins, Live
  <2>3. CASE EraseCount(r) /\ req'[r].account = req[r].account
    <3>1. ~(Cardinality(Admins) <= 1) /\ UNCHANGED user
      BY <2>0, <2>3 DEF EraseCount, Replies
    <3>2. req[r].account \in Ids /\ user[req[r].account].life # "unborn"
      BY <2>3 DEF AdminInv, EraseCount
    <3>3. \E b \in Admins : b # req[r].account
      BY <3>1, <3>2, TwoAdmins
    <3>4. Admins' = Admins
      BY <3>1 DEF Admins, Live
    <3> QED BY <2>3, <3>1, <3>2, <3>3, <3>4 DEF Spared
  <2> QED BY <1>5, <2>1, <2>2, <2>3, EraserPcs
<1> QED BY <1>1, <1>2, <1>3, <1>4, <1>5 DEF AdminInv

LEMMA AdminInit == AccountsInit => AdminInv
  BY DEF AccountsInit, AdminInv, Live, NoUser, At, Idle

\* With one erasure at a time an admin remains, through every sign-on, link,
\* creation and restart.
THEOREM AnAdminRemains ==
  ASSUME OneEraser
  PROVE  AccountsSpec => []AdminRemains
<1>1. AccountsTypeOK /\ AdminInv /\ [AccountsNext]_accountsVars => AdminInv'
  BY AdminStep
<1>2. AdminInv => AdminRemains
  BY DEF AdminInv, AdminRemains
<1> QED BY <1>1, <1>2, AdminInit, AccountsTyped, PTL DEF AccountsSpec
=============================================================================
