---------------------------- MODULE AuthSessions ----------------------------
(***************************************************************************)
(* The session store behind the cookie: create_session, destroy_session,   *)
(* user_for_token and auth_middleware of auth.rs, logout of routes/auth.rs *)
(* and the hourly purge of main.rs, over the table sessions.               *)
(*                                                                         *)
(* A token is 256 random bits, so no token is made twice.  Its row is      *)
(* found by a hash that is keyed with SESSION_SECRET.  The middleware      *)
(* resolves it once, with one SELECT; what follows runs on the copy in     *)
(* AuthUser, whatever becomes of the token and the account meanwhile.      *)
(*                                                                         *)
(* Time passes in ticks; a row has an age, which stops at Ttl, where       *)
(* expires_at <= now.  The clocks of server and database are one clock.    *)
(***************************************************************************)
EXTENDS Naturals, FiniteSets

CONSTANTS Users,    \* account ids
          Tokens,   \* Bound: no more tokens are made than these
          Requests, \* requests the server can work on at the same time
          Ttl,      \* SESSION_TTL_HOURS, in ticks
          Secrets,  \* what SESSION_SECRET may be for from_env to take it
          None

ASSUME SessionAssumption == /\ IsFiniteSet(Requests)
                            /\ Ttl \in Nat \ {0}
                            /\ None \notin Users \cup Tokens

VARIABLES accounts, \* the accounts that still exist
          token,    \* token[t]: the row of sessions with t's hash
          req,      \* req[r]: the handler working on r
          late,     \* history: late[t], requests that went to work under t
                    \* after t had died
          secret    \* the SESSION_SECRET of the server, or of the last one

sessionVars == <<accounts, token, req, late, secret>>

NoRow(life) == [life |-> life, user |-> None, age |-> 0, key |-> None]

\* key: the secret that token_hash was made with.
TokenRow == [life : {"unborn", "live", "gone"}, user : Users \cup {None},
             age : 0 .. Ttl, key : Secrets \cup {None}]

\* Waiting for user_for_token with a goal; then running it as user; or about
\* to insert a row for user that create_session dated age ticks ago.
Request ==
  [pc : {"resolve"}, goal : {"act", "logout"}, token : Tokens,
   user : {None}, age : {0}]
  \cup
  [pc : {"idle", "act", "logout", "insert"}, goal : {"none"},
   token : Tokens \cup {None}, user : Users \cup {None}, age : 0 .. Ttl]

Idle == [pc |-> "idle", goal |-> "none", token |-> None, user |-> None,
         age |-> 0]

SessionTypeOK == /\ accounts \subseteq Users
                 /\ token \in [Tokens -> TokenRow]
                 /\ req \in [Requests -> Request]
                 /\ late \in [Tokens -> Nat]
                 /\ secret \in Secrets

SessionInit == /\ accounts = Users
               /\ token = [t \in Tokens |-> NoRow("unborn")]
               /\ req = [r \in Requests |-> Idle]
               /\ late = [t \in Tokens |-> 0]
               /\ secret \in Secrets
-----------------------------------------------------------------------------
Live(t) == token[t].life = "live"

\* Seeded fault: a session is over a tick early.
ExpiredEarly(t) == Live(t) /\ token[t].age + 1 >= Ttl

Expired(t) == Live(t) /\ token[t].age = Ttl

\* Seeded fault: the SELECT of user_for_token does not look at expires_at.
ValidForever(t) == Live(t) /\ token[t].key = secret

\* What user_for_token finds: the hash is the same, and expires_at > now.
Valid(t) == Live(t) /\ token[t].key = secret /\ ~Expired(t)

\* Logged out, erased with its account, purged, or expired.  A session whose
\* key is another secret is not dead: its secret may be set again.
Dead(t) == token[t].life = "gone" \/ Expired(t)

\* Requests the middleware has let through under t.
Working(t) == {r \in Requests : /\ req[r].pc \in {"act", "logout"}
                                /\ req[r].token = t}

At(r, pc) == req[r].pc = pc

\* An answer is given; which one, the step that gives it says.
Finish(r) == req' = [req EXCEPT ![r] = Idle]

\* A request arrives with a cookie, or a login gets as far as create_session.
Receive(r) ==
  /\ At(r, "idle")
  /\ \/ \E t \in Tokens, goal \in {"act", "logout"} :
          /\ token[t].life # "unborn"
          /\ req' = [req EXCEPT ![r] =
               [pc |-> "resolve", goal |-> goal, token |-> t, user |-> None,
                age |-> 0]]
     \/ \E u \in accounts : req' = [req EXCEPT ![r] =
               [pc |-> "insert", goal |-> "none", token |-> None, user |-> u,
                age |-> 0]]
  /\ UNCHANGED <<accounts, token, late>>

\* The client hangs up or the statement fails.
Abort(r) == ~At(r, "idle") /\ Finish(r)
            /\ UNCHANGED <<accounts, token, late>>

\* Seeded fault: user_id is no foreign key.
CreateSessionUnchecked(r) ==
  /\ At(r, "insert")
  /\ \E t \in Tokens :
       /\ token[t].life = "unborn"
       /\ token' = [token EXCEPT ![t] = [life |-> "live",
                      user |-> req[r].user, age |-> req[r].age,
                      key |-> secret]]
  /\ Finish(r)
  /\ UNCHANGED <<accounts, late>>

\* create_session: INSERT; user_id is a foreign key.
CreateSession(r) ==
  /\ At(r, "insert")
  /\ IF req[r].user \in accounts
     THEN /\ \E t \in Tokens :
               /\ token[t].life = "unborn"
               /\ token' = [token EXCEPT ![t] = [life |-> "live",
                              user |-> req[r].user, age |-> req[r].age,
                              key |-> secret]]
          /\ Finish(r)
     ELSE Finish(r) /\ UNCHANGED token
  /\ UNCHANGED <<accounts, late>>

\* auth_middleware: user_for_token, then the copy of the user goes along.
Resolve(r) ==
  /\ At(r, "resolve")
  /\ LET t == req[r].token IN
     IF Valid(t)
     THEN req' = [req EXCEPT ![r] =
            [pc |-> req[r].goal, goal |-> "none", token |-> t,
             user |-> token[t].user, age |-> 0]]
     ELSE Finish(r)
  /\ UNCHANGED <<accounts, token, late>>

\* A handler behind the middleware does its work.
Act(r) ==
  /\ At(r, "act")
  /\ late' = IF Dead(req[r].token)
             THEN [late EXCEPT ![req[r].token] = @ + 1] ELSE late
  /\ Finish(r)
  /\ UNCHANGED <<accounts, token>>

\* Seeded fault: the rows are deleted by user_id instead of token_hash.
LogoutEverywhere(r) ==
  /\ At(r, "logout")
  /\ token' = [t \in Tokens |-> IF Live(t) /\ token[t].user = req[r].user
                                THEN NoRow("gone") ELSE token[t]]
  /\ late' = IF Dead(req[r].token)
             THEN [late EXCEPT ![req[r].token] = @ + 1] ELSE late
  /\ Finish(r)
  /\ UNCHANGED accounts

\* Seeded fault: the cookie is removed, the row is not.
LogoutForgets(r) ==
  /\ At(r, "logout")
  /\ late' = IF Dead(req[r].token)
             THEN [late EXCEPT ![req[r].token] = @ + 1] ELSE late
  /\ Finish(r)
  /\ UNCHANGED <<accounts, token>>

\* logout, through the middleware like the rest: destroy_session, which is
\* content to find no row.
Logout(r) ==
  /\ At(r, "logout")
  /\ token' = [t \in Tokens |-> IF t = req[r].token
                                THEN NoRow("gone") ELSE token[t]]
  /\ late' = IF Dead(req[r].token)
             THEN [late EXCEPT ![req[r].token] = @ + 1] ELSE late
  /\ Finish(r)
  /\ UNCHANGED accounts
-----------------------------------------------------------------------------
\* DELETE /api/users/:id: the rows of u cascade.
EraseUser(u) ==
  /\ u \in accounts
  /\ accounts' = accounts \ {u}
  /\ token' = [t \in Tokens |-> IF Live(t) /\ token[t].user = u
                                THEN NoRow("gone") ELSE token[t]]
  /\ UNCHANGED <<req, late>>

\* Seeded fault: the comparison is the wrong way round.
PurgeValid ==
  /\ token' = [t \in Tokens |-> IF Valid(t) THEN NoRow("gone") ELSE token[t]]
  /\ UNCHANGED <<accounts, req, late>>

\* The cleanup task, once an hour.  A failed DELETE is logged and left to the
\* next round.
Purge ==
  /\ token' = [t \in Tokens |-> IF Expired(t)
                                THEN NoRow("gone") ELSE token[t]]
  /\ UNCHANGED <<accounts, req, late>>

\* Seeded fault: an expired row goes on ageing.
OlderAlways(age) == age + 1

Older(age) == IF age < Ttl THEN age + 1 ELSE Ttl

Tick ==
  /\ token' = [t \in Tokens |-> IF Live(t)
                 THEN [life |-> "live", user |-> token[t].user,
                       age |-> Older(token[t].age), key |-> token[t].key]
                 ELSE token[t]]
  /\ req' = [r \in Requests |-> IF At(r, "insert")
                 THEN [req[r] EXCEPT !.age = Older(@)] ELSE req[r]]
  /\ UNCHANGED <<accounts, late>>

\* A server keeps the secret it was started with.
SessionNext ==
  /\ \/ \E r \in Requests : \/ Receive(r) \/ Abort(r) \/ CreateSession(r)
                            \/ Resolve(r) \/ Act(r) \/ Logout(r)
     \/ \E u \in Users : EraseUser(u)
     \/ Purge
     \/ Tick
  /\ UNCHANGED secret

SessionSpec == SessionInit /\ [][SessionNext]_sessionVars
-----------------------------------------------------------------------------
(* Properties.                                                             *)

\* A token that was logged out, has expired, or went with its account does
\* not authenticate again: what is still done under it are the requests the
\* middleware had already let through, no more than the server handles at a
\* time (auth.rs:148-153 resolves the token once, before the handler).
LateBound == \A t \in Tokens :
  IF Dead(t) THEN late[t] + Cardinality(Working(t)) <= Cardinality(Requests)
             ELSE late[t] = 0

\* No session outlives its account: a login that had its password verified
\* before the erasure does not leave one behind (routes/auth.rs:37-63 against
\* users.rs:103-106).
NoOrphan == \A t \in Tokens : Live(t) => token[t].user \in accounts

\* A row that has not run out, found with the secret it was made with.
InEffect(t) == /\ token[t].life = "live" /\ token[t].age < Ttl
               /\ token[t].key = secret

\* A session ends only with a logout under this very token, the erasure of its
\* account, a server with another secret, or Ttl ticks after it was made:
\* neither the purge nor another session's logout ends it, and nothing ends it
\* a tick too early (auth.rs:104-107 and 120, main.rs:157).
SessionKept ==
  [][\A t \in Tokens : InEffect(t) =>
       \/ InEffect(t)'
       \/ token[t].user \notin accounts'
       \/ \E r \in Working(t) : req[r].pc = "logout" /\ req'[r].pc = "idle"
       \/ secret' # secret
       \/ token'[t].life = "live" /\ token'[t].age = Ttl]_sessionVars
=============================================================================
