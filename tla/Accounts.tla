------------------------------ MODULE Accounts ------------------------------
(***************************************************************************)
(* The users table and everything that adds, links or removes a row of it: *)
(* the seed admin (auth.rs), account creation and erasure by admins        *)
(* (routes/users.rs), and single sign-on, which finds, links or provisions *)
(* an account for a verified identity (routes/oidc.rs).                    *)
(*                                                                         *)
(* A step is one SQL statement.  A handler keeps what it read before in    *)
(* its row of req; other handlers run in between.  Ids are never used      *)
(* again.  Of the roles only admin matters here.                           *)
(***************************************************************************)
EXTENDS Naturals, FiniteSets

CONSTANTS Ids,         \* account ids; Bound: no more accounts than ids
          Emails,      \* emails in the normal form of validate_email
          Identities,  \* (issuer, subject) pairs
          Claims,      \* what the provider vouches for: <<identity, email>>
          Creatable,   \* emails an admin may create an account for
          SeedEmail,   \* SEED_ADMIN_EMAIL as configured, or None
          DefaultAdmin,\* whether OIDC_DEFAULT_ROLE is admin
          Requests,    \* requests the server can work on at the same time
          Erasers,     \* Bound: those of them that may be erasures
          None

ASSUME AccountsAssumption ==
  /\ IsFiniteSet(Ids)
  /\ Erasers \subseteq Requests
  /\ Claims \subseteq Identities \X Emails
  /\ Creatable \subseteq Emails
  /\ DefaultAdmin \in BOOLEAN
  /\ None \notin Ids \cup Emails \cup Identities

VARIABLES server,      \* "new" before its first start, then "up" or "down"
          user,        \* user[a]: the row a of users
          req          \* req[r]: the handler working on r, or its last reply

accountsVars == <<server, user, req>>

User == [life : {"unborn", "live", "gone"}, email : Emails \cup {SeedEmail, None},
         admin : BOOLEAN, identity : Identities \cup {None}]

\* Seeded fault: a row that is not there has no role.
NoUserNoRole(life) == [life |-> life, email |-> None, admin |-> None,
                       identity |-> None]

NoUser(life) == [life |-> life, email |-> None, admin |-> FALSE,
                 identity |-> None]

Row(email, admin, identity) ==
  [life |-> "live", email |-> email, admin |-> admin, identity |-> identity]

\* The statement a request is about to run.
Statements == {"create",                              \* POST /api/users
               "erase_role", "erase_count", "erase",  \* DELETE /api/users/:id
               "by_identity", "by_email", "link",     \* the SSO callback
               "provision", "reread", "session"}

\* 2xx or the redirect, 400 and 409, 404, 500; none while at work or aborted.
Replies == {"none", "ok", "refused", "not_found", "error"}

Request == [pc : Statements \cup {"idle"}, account : Ids \cup {None},
            email : Emails \cup {None}, identity : Identities \cup {None},
            reply : Replies]

Idle(reply) == [pc |-> "idle", account |-> None, email |-> None,
                identity |-> None, reply |-> reply]

AccountsTypeOK == /\ server \in {"new", "up", "down"}
                  /\ user \in [Ids -> User]
                  /\ req \in [Requests -> Request]

AccountsInit == /\ server = "new"
                /\ user = [a \in Ids |-> NoUser("unborn")]
                /\ req = [r \in Requests |-> Idle("none")]
-----------------------------------------------------------------------------
Live == {a \in Ids : user[a].life = "live"}
Admins == {a \in Live : user[a].admin}
WithEmail(e) == {a \in Live : user[a].email = e}
WithIdentity(i) == {a \in Live : user[a].identity = i}

At(r, pc) == req[r].pc = pc
Goto(r, pc) == req' = [req EXCEPT ![r].pc = pc]
Finish(r, reply) == req' = [req EXCEPT ![r] = Idle(reply)]

With(handler, pc, a) == [handler EXCEPT !.pc = pc, !.account = a]

\* provision_user is done with account a; create_session is next.
SignIn(r, a) == req' = [req EXCEPT ![r] = With(req[r], "session", a)]

Enter(r, pc, a, e, i) ==
  req' = [req EXCEPT ![r] = [pc |-> pc, account |-> a, email |-> e,
                             identity |-> i, reply |-> "none"]]

\* Seeded fault: the index uq_users_oidc is not there.
InsertableByEmail(row) == WithEmail(row.email) = {}

\* INSERT INTO users: email is unique, and so is an identity that is not NULL.
Insertable(row) == /\ WithEmail(row.email) = {}
                   /\ row.identity # None => WithIdentity(row.identity) = {}

Inserted(a, row) == /\ user[a].life = "unborn"
                    /\ user' = [user EXCEPT ![a] = row]

(* The life of the process.  ensure_seed_admin runs before the server       *)
(* accepts requests, so its SELECT and its INSERT meet no other statement.  *)

Start ==
  /\ server # "up"
  /\ server' = "up"
  /\ IF SeedEmail = None \/ WithEmail(SeedEmail) # {}
     THEN UNCHANGED user
     ELSE \E a \in Ids : Inserted(a, Row(SeedEmail, TRUE, None))
  /\ UNCHANGED req

\* A crash, or the end of a graceful shutdown's patience.
Stop == /\ server = "up"
        /\ server' = "down"
        /\ req' = [r \in Requests |-> Idle("none")]
        /\ UNCHANGED user

\* Only admins create and erase; nobody erases himself.  Anyone the provider
\* vouches for may come back from it with a claim.
Receive(r) ==
  /\ server = "up" /\ At(r, "idle")
  /\ \/ /\ Admins # {}
        /\ \E e \in Creatable : Enter(r, "create", None, e, None)
     \/ /\ r \in Erasers
        /\ \E caller \in Admins : \E target \in Ids \ {caller} :
             Enter(r, "erase_role", target, None, None)
     \/ \E claim \in Claims :
          Enter(r, "by_identity", None, claim[2], claim[1])
  /\ UNCHANGED <<server, user>>

\* The client hangs up or the statement fails for want of a connection.
Abort(r) == ~At(r, "idle") /\ Finish(r, "none") /\ UNCHANGED <<server, user>>

CreateUser(r) ==
  /\ At(r, "create")
  /\ \E admin \in BOOLEAN :
       LET row == Row(req[r].email, admin, None) IN
       IF Insertable(row)
       THEN Finish(r, "ok") /\ \E a \in Ids : Inserted(a, row)
       ELSE Finish(r, "refused") /\ UNCHANGED user
  /\ UNCHANGED server

(* DELETE /api/users/:id reads the role, counts the admins, and deletes.   *)

EraseRole(r) ==
  /\ At(r, "erase_role")
  /\ LET a == req[r].account IN
     \/ a \notin Live /\ Finish(r, "not_found")
     \/ a \in Admins /\ Goto(r, "erase_count")
     \/ a \in Live \ Admins /\ Goto(r, "erase")
  /\ UNCHANGED <<server, user>>

EraseCount(r) ==
  /\ At(r, "erase_count")
  /\ IF Cardinality(Admins) <= 1 THEN Finish(r, "refused")
                                 ELSE Goto(r, "erase")
  /\ UNCHANGED <<server, user>>

\* How many rows were deleted is not looked at.
Erase(r) ==
  /\ At(r, "erase")
  /\ user' = [a \in Ids |-> IF a = req[r].account /\ a \in Live
                            THEN NoUser("gone") ELSE user[a]]
  /\ Finish(r, "ok")
  /\ UNCHANGED server

(* provision_user: by identity, else by email, else a new account.         *)

ByIdentity(r) ==
  /\ At(r, "by_identity")
  /\ \/ /\ WithIdentity(req[r].identity) = {}
        /\ Goto(r, "by_email")
     \/ \E a \in WithIdentity(req[r].identity) : SignIn(r, a)
  /\ UNCHANGED <<server, user>>

ByEmail(r) ==
  /\ At(r, "by_email")
  /\ \/ /\ WithEmail(req[r].email) = {}
        /\ Goto(r, "provision")
     \/ \E a \in WithEmail(req[r].email) :
          req' = [req EXCEPT ![r] = With(req[r], "link", a)]
  /\ UNCHANGED <<server, user>>

\* Seeded fault: an account that is linked already is left as it is.
LinkOnce(r) ==
  /\ At(r, "link")
  /\ LET a == req[r].account IN
     /\ user' = [b \in Ids |->
          IF b = a /\ b \in Live /\ user[b].identity = None
          THEN [user[b] EXCEPT !.identity = req[r].identity]
          ELSE user[b]]
     /\ SignIn(r, a)
  /\ UNCHANGED server

\* Seeded fault: the role is written along with the identity.
LinkWithRole(r) ==
  /\ At(r, "link")
  /\ LET a == req[r].account
         i == req[r].identity
     IN IF a \in Live /\ WithIdentity(i) \ {a} # {}
        THEN Finish(r, "error") /\ UNCHANGED user
        ELSE /\ user' = [b \in Ids |->
                  IF b = a /\ b \in Live
                  THEN Row(user[b].email, DefaultAdmin, i) ELSE user[b]]
             /\ SignIn(r, a)
  /\ UNCHANGED server

\* UPDATE ... WHERE id: overwrites an earlier link; touches no row if the
\* account is gone; fails if another account holds the identity by now.
Link(r) ==
  /\ At(r, "link")
  /\ LET a == req[r].account
         i == req[r].identity
     IN IF a \in Live /\ WithIdentity(i) \ {a} # {}
        THEN Finish(r, "error") /\ UNCHANGED user
        ELSE /\ user' = [b \in Ids |->
                  IF b = a /\ b \in Live
                  THEN Row(user[b].email, user[b].admin, i) ELSE user[b]]
             /\ SignIn(r, a)
  /\ UNCHANGED server

Provision(r) ==
  /\ At(r, "provision")
  /\ LET row == Row(req[r].email, DefaultAdmin, req[r].identity) IN
     IF Insertable(row)
     THEN \E a \in Ids : Inserted(a, row) /\ SignIn(r, a)
     ELSE Goto(r, "reread") /\ UNCHANGED user
  /\ UNCHANGED server

\* The index that was violated may have been the email's.
Reread(r) ==
  /\ At(r, "reread")
  /\ \/ WithIdentity(req[r].identity) = {} /\ Finish(r, "not_found")
     \/ \E a \in WithIdentity(req[r].identity) : SignIn(r, a)
  /\ UNCHANGED <<server, user>>

\* create_session: user_id is a foreign key.
StoreSession(r) ==
  /\ At(r, "session")
  /\ Finish(r, IF req[r].account \in Live THEN "ok" ELSE "error")
  /\ UNCHANGED <<server, user>>

SignOn(r) == \/ ByIdentity(r) \/ ByEmail(r) \/ Link(r)
             \/ Provision(r) \/ Reread(r) \/ StoreSession(r)

AccountsNext ==
  \/ Start \/ Stop
  \/ \E r \in Requests :
       \/ Receive(r) \/ Abort(r)
       \/ CreateUser(r) \/ EraseRole(r) \/ EraseCount(r) \/ Erase(r)
       \/ SignOn(r)

AccountsSpec == AccountsInit /\ [][AccountsNext]_accountsVars

\* The runtime polls the handler of every sign-on.
AccountsFairSpec ==
  AccountsSpec /\ \A r \in Requests : WF_accountsVars(SignOn(r))
-----------------------------------------------------------------------------
(* Properties.                                                             *)

\* README.md:193-194, "Deleting yourself or the last admin is blocked to
\* prevent lockout": once the seed admin has been created there is an admin.
\* With one erasure at a time this holds through every sign-on, link, creation
\* and restart; with two it does not (users.rs:93-106).
AdminRemains == server # "new" /\ SeedEmail # None => Admins # {}

\* Whoever signs on with an identity goes on with an account that carries it
\* at that moment - found, linked, provisioned or left behind by the winner of
\* a race - and by nobody else's, although the account found by email may have
\* been linked or erased since (oidc.rs:222-283).  An erased one gets no
\* session.
SignedOnAsLinked ==
  [][\A r \in Requests :
       ~At(r, "session") /\ At(r, "session")'
         => LET a == req'[r].account IN
            a \in Live' => WithIdentity(req[r].identity)' = {a}]_accountsVars

\* oidc.rs:271, "Lost a race with a concurrent first login - re-read the
\* winner": a sign-on whose INSERT comes second goes on with the account that
\* came first.
WinnerIsFound ==
  [][\A r \in Requests :
       At(r, "provision") \/ At(r, "reread")
         => req'[r].reply \notin {"not_found", "error"}]_accountsVars

\* One account for one identity and for one email, as the indexes of init.sql
\* (41, 53-55) have it, through every order of provisioning, linking,
\* creation and seeding - and hence at most one row for WithIdentity and
\* WithEmail to find.
OneAccount == \A a, b \in Live :
  a # b => /\ user[a].email # user[b].email
           /\ user[a].identity = None \/ user[a].identity # user[b].identity
=============================================================================
