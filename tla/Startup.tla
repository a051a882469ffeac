------------------------------ MODULE Startup ------------------------------
(***************************************************************************)
(* The life of the server process - run of main.rs, Config::from_env of    *)
(* config.rs - and, while it serves, the sessions of AuthSessions: the     *)
(* requests and the purge task die with the process, the rows stay.        *)
(*                                                                         *)
(* A step is one thing that run awaits.  What may fail in it ends the      *)
(* process with exit code 1, discovery excepted, and the container is      *)
(* started again.                                                          *)
(***************************************************************************)
EXTENDS AuthSessions

CONSTANTS MaxAttempts,  \* connection attempts: 10 in connect_with_retry
          Environments  \* what .env may say

OidcVars == {"issuer_url", "client_id", "client_secret", "redirect_url"}

\* What from_env looks at, as far as it tells values apart.  default_role:
\* unset, a role, or something else.  seed: both SEED_ADMIN_* are set.
\* address: BIND_ADDR can be bound.
Environment ==
  [database_url : BOOLEAN, session_secret : {"unset", "short"} \cup Secrets,
   oidc : SUBSET OidcVars, default_role : {"unset", "role", "other"},
   seed : BOOLEAN, address : BOOLEAN]

ASSUME StartupAssumption == /\ MaxAttempts \in Nat \ {0}
                            /\ Secrets \cap {"unset", "short"} = {}
                            /\ Environments \subseteq Environment

VARIABLES stage,       \* what run awaits; "off" while there is no process
          attempt,     \* attempts of connect_with_retry that have failed
          sso,         \* whether state.oidc is there
          environment, \* .env, which every start reads
          migrated,    \* whether the database has training_sessions and
                       \* session_enrollments, the tables of scheduling
          database,    \* whether the database answers
          calm         \* from now on the database answers, .env will do, and
                       \* nobody kills the server or sends it a signal

startupVars ==
  <<sessionVars, stage, attempt, sso, environment, migrated, database, calm>>

Stages == {"off", "config", "connect", "sleep", "migrate", "discover",
           "seed", "bind", "serve", "drain"}

StartupTypeOK == /\ SessionTypeOK
                 /\ stage \in Stages
                 /\ attempt \in 0 .. MaxAttempts - 1
                 /\ sso \in BOOLEAN
                 /\ environment \in Environments
                 /\ migrated \in BOOLEAN
                 /\ database \in BOOLEAN
                 /\ calm \in BOOLEAN

\* A volume from before scheduling lacks its tables.
StartupInit == /\ SessionInit
               /\ stage = "off" /\ attempt = 0 /\ sso = FALSE
               /\ environment \in Environments
               /\ migrated \in BOOLEAN
               /\ database \in BOOLEAN
               /\ calm = FALSE
-----------------------------------------------------------------------------
\* oidc_from_env: nothing, or everything and a role that exists.
OidcOk(env) == \/ env.oidc = {}
               \/ env.oidc = OidcVars /\ env.default_role # "other"

ConfigOk(env) == env.database_url /\ env.session_secret \in Secrets /\ OidcOk(env)

\* run goes on to the next stage, after n failed attempts to connect.
GoOn(next, n) ==
  /\ stage' = next
  /\ attempt' = n
  /\ UNCHANGED <<sessionVars, sso, environment, migrated, database, calm>>

\* The process is no more, and nothing it had in memory.
End == /\ stage' = "off" /\ attempt' = 0 /\ sso' = FALSE
       /\ req' = [r \in Requests |-> Idle]
       /\ UNCHANGED <<accounts, token, late, secret, environment, migrated,
                      database, calm>>

\* docker compose up, or the restart of a container that has ended.
Boot == stage = "off" /\ GoOn("config", 0)

\* Seeded fault: the secret that was there first stays in use.
ReadConfigOnce == /\ stage = "config"
                  /\ IF ConfigOk(environment) THEN GoOn("connect", 0) ELSE End

ReadConfig ==
  /\ stage = "config"
  /\ IF ConfigOk(environment)
     THEN /\ stage' = "connect"
          /\ secret' = environment.session_secret
          /\ UNCHANGED <<accounts, token, req, late, attempt, sso, environment,
                         migrated, database, calm>>
     ELSE End

\* Seeded fault: the attempt is counted where it succeeds.
ConnectForEver == /\ stage = "connect"
                  /\ IF database THEN GoOn("migrate", 0) ELSE GoOn("sleep", attempt)

\* connect_with_retry: no attempt takes longer than acquire_timeout.
Connect == /\ stage = "connect"
           /\ IF database THEN GoOn("migrate", 0)
              ELSE IF attempt + 1 < MaxAttempts THEN GoOn("sleep", attempt + 1)
              ELSE End

Sleep == stage = "sleep" /\ GoOn("connect", attempt)

AfterMigration == IF environment.oidc = {} THEN "seed" ELSE "discover"

\* Seeded fault: a failed migration is logged, and that is all.
MigrateIfPossible ==
  /\ stage = "migrate"
  /\ stage' = AfterMigration
  /\ migrated' = (migrated \/ database)
  /\ UNCHANGED <<sessionVars, attempt, sso, environment, database, calm>>

\* run_migrations: IF NOT EXISTS, so a volume without these tables will do,
\* and one that has them.  What else an old volume may lack is not made here.
Migrate ==
  /\ stage = "migrate"
  /\ IF database
     THEN /\ stage' = AfterMigration
          /\ migrated' = TRUE
          /\ UNCHANGED <<sessionVars, attempt, sso, environment, database, calm>>
     ELSE End

\* Seeded fault: a provider that cannot be discovered ends the process.
DiscoverOrEnd ==
  /\ stage = "discover"
  /\ \/ End
     \/ /\ stage' = "seed" /\ sso' = TRUE
        /\ UNCHANGED <<sessionVars, attempt, environment, migrated, database, calm>>

\* OidcState::init finds the provider's metadata or fails.  The HTTP client
\* has no timeout: it does either when the provider answers, if it ever does.
Discover ==
  /\ stage = "discover"
  /\ stage' = "seed" /\ sso' \in BOOLEAN
  /\ UNCHANGED <<sessionVars, attempt, environment, migrated, database, calm>>

\* ensure_seed_admin, whose rows are in Accounts.  With nothing to seed the
\* database is not asked.
Seed == /\ stage = "seed"
        /\ IF environment.seed /\ ~database THEN End ELSE GoOn("bind", 0)

\* The purge task has been spawned by now.
Bind == /\ stage = "bind"
        /\ IF environment.address THEN GoOn("serve", 0) ELSE End

\* shutdown_signal: no more requests are accepted ...
Signal == stage = "serve" /\ ~calm /\ GoOn("drain", 0)

\* ... and those that were are waited for, however long they take.
Drained == /\ stage = "drain"
           /\ \A r \in Requests : At(r, "idle")
           /\ End

\* The process is killed, at any point.
Crash == stage # "off" /\ ~calm /\ End

Run == \/ Boot \/ ReadConfig \/ Connect \/ Sleep \/ Migrate
       \/ Seed \/ Bind \/ Drained
-----------------------------------------------------------------------------
(* What goes on beside run.                                                *)

Beside == UNCHANGED <<secret, stage, attempt, sso, environment, migrated,
                      database, calm>>

Accept(r) == stage = "serve" /\ Receive(r) /\ Beside

\* A request that was accepted goes on while the server drains.  Nothing makes
\* it end: neither axum::serve nor the client of the SSO exchange has a timeout.
HandleSession(r) ==
  /\ stage \in {"serve", "drain"}
  /\ Abort(r) \/ CreateSession(r) \/ Resolve(r) \/ Act(r) \/ Logout(r)
  /\ Beside

\* An account is erased by a request, too.
Erasure == /\ stage \in {"serve", "drain"}
           /\ \E u \in Users : EraseUser(u)
           /\ Beside

PurgeTask == stage \in {"bind", "serve", "drain"} /\ Purge /\ Beside

TimePasses == Tick /\ Beside

\* Once the server is up, a database that does not answer shows as Abort.
DatabaseTurns ==
  /\ stage \notin {"bind", "serve", "drain"} /\ ~calm
  /\ database' = ~database
  /\ UNCHANGED <<sessionVars, stage, attempt, sso, environment, migrated, calm>>

\* .env is corrected, or spoilt.
Edit ==
  /\ stage = "off" /\ ~calm
  /\ environment' \in Environments
  /\ UNCHANGED <<sessionVars, stage, attempt, sso, migrated, database, calm>>

\* The disturbances end.
QuietDown ==
  /\ database /\ ConfigOk(environment) /\ environment.address
  /\ calm' = TRUE
  /\ UNCHANGED <<sessionVars, stage, attempt, sso, environment, migrated,
                 database>>

StartupNext ==
  \/ Run \/ Discover \/ Signal \/ Crash
  \/ \E r \in Requests : Accept(r) \/ HandleSession(r)
  \/ Erasure \/ PurgeTask \/ TimePasses
  \/ DatabaseTurns \/ Edit \/ QuietDown

StartupSpec == StartupInit /\ [][StartupNext]_startupVars

\* run is polled, and a container that has ended is started again; the purge
\* comes round.  Nothing else is assumed: the provider may never answer, a
\* request may never end.
StartupFairSpec == /\ StartupSpec
                   /\ WF_startupVars(Run)
                   /\ WF_startupVars(PurgeTask)
-----------------------------------------------------------------------------
(* Properties.                                                             *)

\* Whatever failed, was restarted or edited before: a server that listens
\* has the tables of scheduling, also on a volume from before they were added,
\* works from a configuration that from_env accepts and with the secret that
\* it names, and offers SSO only if that is configured (main.rs:37-83 and
\* 104-106).
ServesReady == stage \in {"bind", "serve", "drain"} =>
  /\ migrated /\ ConfigOk(environment)
  /\ secret = environment.session_secret
  /\ sso => environment.oidc # {}

\* A provider that is asked for its metadata and says nothing (oidc.rs:41-51).
SilentProvider == <>[](stage = "discover")

\* A request the server has accepted and never answers (main.rs:77).
EndlessRequest == \E r \in Requests : <>[](stage = "drain" /\ ~At(r, "idle"))

\* main.rs:96-97: connect_with_retry retries "for a while".  A start comes to
\* an end, the server serves or exits, even if the database never answers; and
\* so does a shutdown.  There are two things that run waits for without a
\* timeout, and only these can keep it for ever: a provider that is silent, and
\* one request that never ends.
Decided == []<>(stage \in {"serve", "off"}) \/ SilentProvider \/ EndlessRequest

\* main.rs:43-44 and 96-97: once nothing disturbs it the server comes up to
\* stay, however many starts have failed, in whichever stage, and although the
\* provider may refuse to be discovered every time - but not if the provider
\* says nothing, or if an earlier shutdown waits for an endless request.
ComesUp == <>[]calm =>
  <>[](stage = "serve") \/ SilentProvider \/ EndlessRequest

\* README.md:200-201, "expired sessions are purged hourly [...] rather than
\* retained indefinitely": no row stays once it has run out, not even one that
\* did while the server was down, or whose purge its end has cut off; nor while
\* the server drains.  Only a start that a silent provider holds up keeps it.
PurgedInTheEnd == <>[]calm =>
  \/ \A t \in Tokens : []<>~(token[t].life = "live" /\ token[t].age = Ttl)
  \/ SilentProvider
=============================================================================
