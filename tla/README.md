# A TLA+ model of the learning management system

The program is a small learning management system: a Rust server (Axum, sqlx)
over PostgreSQL, and a React front end. This directory holds a model of its
logic in TLA+, the TLC configurations that check it on small instances, and
proofs, checked by TLAPS, of the properties that matter most.

All paths below are relative to `src/`. `ses.rs` etc. stand for
`backend/src/routes/sessions.rs` etc. where no confusion can arise.

## 1. The system

### How it runs

Every request is a future on a shared runtime. A handler behind
`auth_middleware` runs with an `AuthUser`, the answer of one SELECT made before
the handler is entered. From then on the handler awaits one SQL statement after
the other on a connection of the pool. No statement is part of an explicit
transaction, so each is a transaction of its own, and between two statements of
a handler any statement of any other may run. Whatever a handler decided from
an earlier statement may be stale when the next one runs.

A statement may fail (no connection within the pool's five seconds, a lost
database, a violated constraint), and a handler's future is dropped when the
client hangs up. Nothing that has run is undone in either case.

What the processes share is the database and one map in memory, the login
throttle, under a mutex.

### Components

| Component | State | Operations | What is hard | Correct if |
| --- | --- | --- | --- | --- |
| Scheduling (`routes/sessions.rs`) | `training_sessions`, `session_enrollments` | create, update, delete, enroll, cancel, four reads | enroll counts, then inserts; rows vanish under handlers | sessions are oversold by a known bound at most; nobody loses a seat to others; nothing outlives what it belongs to |
| Trainings (`routes/trainings.rs`) | `trainings`, `user_training_completions` | create, update, delete, complete, two reads | complete checks, then inserts; deletion cascades | as above |
| Certifications (`routes/certifications.rs`) | `certifications`, `user_certifications` | create, update, delete, assign, two reads | assign checks twice, then inserts | as above |
| Compliance report (`routes/reports.rs`, `certification_statuses` in `routes/users.rs`) | none | one SELECT for users, one per user | a torn read across changes and midnight; SQL and Rust judge the same date | whoever belongs in it is in it |
| Accounts (`routes/users.rs`, `ensure_seed_admin` in `auth.rs`) | `users` | create, delete, seed on start | delete counts admins, then deletes | an admin remains; erased data does not come back |
| Single sign-on (`routes/oidc.rs`) | `oidc_auth_requests`, `users` | status, login, callback, provision_user | concurrent first logins, links, one-time requests | one account per identity and email; a lost race still signs on; each request is used once |
| Login throttle (`ratelimit.rs`, `login` in `routes/auth.rs`) | map of buckets in memory | check, record_failure, reset | check and record are separated by a SELECT; windows expire between them | failures per window are bounded; accounts do not influence each other; nobody is throttled for ever |
| Authentication sessions (`auth.rs`, `logout`, the purge in `main.rs`) | `sessions` | create_session, destroy_session, user_for_token, purge | handlers go on under dead tokens; logins race erasure; boundary of the expiry | no dead token authenticates; no session outlives its account; the purge takes no valid one and leaves no expired one |
| Startup (`main.rs`, `config.rs`, `state.rs`) | the stage `run` is at, `state.oidc` | read the configuration, connect with retry, migrate, discover, seed, bind, serve, drain | every stage may fail after the ones before succeeded; the process dies with the requests and the purge task, the rows stay | a start comes to an end, unless the identity provider holds it up; a server that listens works on migrated tables and under the secret it was given; undisturbed, it comes up and stays |
| Validation (`validation.rs`) | none | normal forms, ranges | boundaries | an account is stored under the form login looks for |
| Front end: who is signed on (`AuthContext.tsx`, `App.tsx`, `LoginPage.tsx`, `Layout.tsx`, `api.ts`) | `user`, `loading`, `submitting`, the cookie | ask, log in, log out, SSO, reload | answers late, lost or overtaken; several tabs, one cookie; a refused logout | a page shows the account its calls act as; a logout leaves no session |
| Front end: session lists (`SchedulePage.tsx`, `TrainingDetailPage.tsx`) | loaded rows, `busyId`, `error` | load, toggle, create | answers out of order or lost; a click acts on the row as shown; one `busyId` for all buttons | the rows show the user's seats or an error; no button stays disabled |
| Front end: other pages | a loaded list each | load, submit | little | |

Interactions: the middleware stands before every protected handler and gives it
its user; login and the SSO callback end in `create_session`; erasing an account
cascades into sessions, enrollments, completions and certifications; deleting a
training cascades into its sessions and their enrollments; the purge deletes
beside all of them; the report reads what assign writes.

The hazards are listed one by one, with their lines and the properties that
watch them, in `PROJECT.json`.

## 2. The modules

A step is one SQL statement, or one call of the throttle. `req[r]` is the
handler working on request slot `r`: its program counter is the statement it
will run next, its other fields are what it keeps between statements, and
`reply` is how it ended, where a property asks for it. The number of slots is
the number of requests the server works on at a time. Rows are named by ids that are used once, as UUIDs
are: a row is `"unborn"`, `"live"`, then `"gone"`. `Abort` is the hang-up or the
failed statement; it may come before any statement.

| Module | Models | Notes |
| --- | --- | --- |
| `SeatBook` | what scheduled sessions promise about seats | abstract: who holds a seat, and the widest capacity offered |
| `Scheduling` | `routes/sessions.rs`, create, update and delete of `routes/trainings.rs`, the cascades of `db/init.sql` | one action per statement: `SessionCreate` (the check), `SessionInsert`, `SessionView` (the read-back), `SessionUpdate`, `SessionDelete`, `TrainingCreate`, `TrainingUpdate`, `TrainingDelete`, `Enroll` (the SELECT and the decisions on it), `EnrollInsert`, `Cancel`; `StartPasses` is time, `EraseUser` the last statement of `DELETE /api/users/:id` |
| `LoginThrottle` | `ratelimit.rs` and `login` | `Login` (check), `Fail` (record_failure), `Succeed` (reset), `StoreSession`, `Tick`, `Restart` |
| `AuthSessions` | sessions of `auth.rs`, `logout`, the purge | `Receive`, `Resolve` (the middleware's SELECT), `Act` (the handler), `Logout`, `CreateSession`, `EraseUser`, `Purge`, `Tick` |
| `Browser` | the tabs of one browser, composed with `AuthSessions` | `Mount` (AuthProvider's effect), `Submit`, `ClickLogout`, `ClickSso`, `Reload`; `Serve` is a step of `AuthSessions` with its answer; `Lose`, `Arrive` (Set-Cookie), `Settle` (the promise, `setUser`); `CookieExpires`; `Elsewhere` is erasure, purge and time |
| `Accounts` | create and delete of `routes/users.rs`, `ensure_seed_admin`, `provision_user` | `Start`, `Stop`; `CreateUser`; `EraseRole`, `EraseCount`, `Erase`; `ByIdentity`, `ByEmail`, `Link`, `Provision`, `Reread`, `StoreSession` |
| `SsoFlow` | login and callback of `routes/oidc.rs`, the purge of `oidc_auth_requests` | `Login`, `Insert`; `Callback`, `Consume` (DELETE ... RETURNING), `Exchange` (the provider and the judgement of the ID token), `SignOn` (what `Accounts` details); `Answer` is the provider and the user; `Purge`, `Tick` |
| `Records` | complete, create, delete and assign of certifications, `certification_statuses`, compliance | `Complete`, `CompleteInsert`; `Assign`, `AssignUser`, `AssignInsert`; `Compliance`, `Statuses`, `ReportDone`; handlers of one statement are one step; `Midnight` |
| `Startup` | `run` of `main.rs`, `from_env`, composed with `AuthSessions` by EXTENDS: a step of that module is one of this with the process in the right stage | `Boot`, `ReadConfig`, `Connect`, `Sleep`, `Migrate`, `Discover`, `Seed`, `Bind`; `Signal`, `Drained`, `Crash`; `Accept` and `HandleSession` (the requests), `Erasure`, `PurgeTask`; the surroundings: `DatabaseTurns`, `Edit` (of `.env`), `QuietDown` |
| `SessionList` | the lists and buttons of `SchedulePage.tsx` and `TrainingDetailPage.tsx`, against list, enroll, cancel and create as one step each (`Scheduling` has their statements) | `Click` (toggleEnroll), `Submit` (onCreate); `Read`, `Execute`, `Refuse` (the server); `Changed`, `ChangeFailed`, `Listed`, `ListFailed` (the page); `TrainingLoaded`, `TrainingFailed` (getTraining, markComplete, remove); `Remount`, `Elsewhere` |
| `SeedAdmin` | the spelling of emails, over `Accounts` | `NormalForm` (validate_email), `LoginFinds` (the SELECT of login) |
| `MC*` | | symmetry sets, claims and environments for TLC |
| `*Proofs` | | theorems about the module they are named after; `SessionProofs` about `AuthSessions`, `Browser` and `Startup` |

A definition under the comment "Seeded fault" is a variant of the definition
that follows it with a bug the code could have had. No specification uses it.
Each property is known to fail when such a variant takes the place of the
definition it is a variant of (`PROJECT.json`, `mutants`).

### What is abstracted

- Titles, places, times of day, passwords, tokens' bits and wording of answers;
  a completion keeps its score, a member of `Scores`. Of a session's times only whether it has started is kept; of a
  certificate's dates only the days to expiry; of an `Instant` only its age.
- Roles are reduced to what guards ask for: `Managers` in `Scheduling`, admin or
  not in `Accounts`. `Records` lets anybody ask for what a manager may ask for.
- Capacities are small numbers, `NoLimit` (0) stands for NULL; a stored capacity
  is at least 1.
- The SELECT of `enroll` and the test `starts_at <= now` that follows it are one
  step: nothing is awaited between them. A start that passes in between is only
  refused earlier than in the model.
- The clocks of server and database are taken for one clock. They are two
  containers on one host.
- A single statement is atomic. PostgreSQL runs them at READ COMMITTED; each
  statement modelled here reads one snapshot and changes rows by key, foreign
  keys and unique indexes being checked by the database against concurrent
  transactions.
- A document asks once who is signed on, as a production build does; React's
  StrictMode asks twice in development. Calls of the pages for data are left out
  of `Browser`: no answer to them, a 401 included, changes who is signed on.
- Handlers that only read (lists, single rows, schedules) are left out, except
  the report and, in `SessionList`, the list of sessions.
- Of a row of `SessionList` only two things are kept, whether it is listed (what
  is over is left out by `upcoming`) and whether the user is enrolled, which
  decides the call a click makes. A row without a free seat is one that is not
  clicked, or whose enroll is refused; that a session has started shows in the
  answer only (`Refuse`).
- A row of `sessions` is found by a hash keyed with `SESSION_SECRET`. In
  `AuthSessions` it carries the secret it was made with (`key`), and is `Valid`
  under that secret only. `Startup` changes the secret when a start reads
  another one (`ReadConfig`); a row under the old secret ages and is purged as
  before, and is valid again if the old secret returns. `Browser` looks at one
  server run, so there the secret does not change.
- `migrated` stands for the two tables that `run_migrations` creates,
  `training_sessions` and `session_enrollments`, and for nothing else.
  `oidc_auth_requests` and the OIDC columns of `users` are made by `init.sql` on
  an empty volume only, so `ServesReady` says nothing about them.
- In `Records` the days of SQL (`now()::date`) and of Rust (`Utc::now()`) come
  from one clock: both containers run on one host, in UTC unless configured
  otherwise. Midnight between two statements is modelled, dates that differ at
  one moment are not.
- Of the configuration `Startup` keeps what `from_env` tells apart: a missing
  `DATABASE_URL`, a session secret that is missing or short, the four OIDC
  settings that must come together, a role that does not exist, whether there is
  an admin to seed, and whether the address can be bound.

History variables hold what properties need to remember: `peak` (the
widest capacity), `recent` (failures by age), `late` (requests that worked under
a dead token), `exchanges` and `signOns` (of a login attempt), `steady` (users a
report must not miss), `rival` (another tab has signed on), `excused` (the
rows are wrong for a reason that `OwnSeatsShown` names). No guard reads them.
`calm` of `Startup` is no history but an assumption about the surroundings: from
`QuietDown` on the database answers, `.env` will do, and nobody ends the process.
Only `QuietDown` sets it, and no step has to.

## 3. The runs

| Run | Instance | Shows |
| --- | --- | --- |
| `scheduling` | 3 users, 2 trainings, 1 session, 2 requests, capacities none and 1; safety, with symmetry | `SeatBound`, `ClosedToNewcomers`, `SeatKept`, `Integrity` under every deletion, moves of the session between trainings included, and that `Scheduling` implements `SeatBook` |
| `sched_oversold` | 3 users, capacity 1, 2 requests, fair | **violated**: two people get the last seat |
| `throttle` | 2 emails, 2 requests, 2 failures, 3 ticks, time goes on | `WindowBound`, `RecentBound`, `JustThrottled`, `Isolated`, `Released` |
| `startup` | 1 user, 2 tokens, 2 requests, 2 ticks to live, 2 secrets; 2 connection attempts, 5 environments, an old volume or a new one; fair | `ServesReady`, `Decided`, `ComesUp`; and, through crashes, shutdowns, restarts and a change of the secret, `LateBound`, `NoOrphan`, `SessionKept`, `PurgedInTheEnd` of the sessions |
| `session_list` | both pages, 2 sessions, 2 calls at a time, one of which may create a session; every call settles | `OwnSeatsShown`, `Unstuck` |
| `seed_spelling` | a seed email with a capital letter | **violated**: no login finds the seed admin |
| `accounts_sign_on` | 3 ids, a seed admin, crossed claims, 2 requests of which 1 may erase | `OneAccount`, `SignedOnAsLinked`, `AdminRemains` |
| `accounts_last_admin` | 2 ids, 2 requests that may erase | **violated**: two admins delete each other |
| `accounts_lost_race` | one email, two identities, 2 requests, fair | **violated**: the loser of a first login is answered 404 |
| `sso_flow` | 2 attempts, 3 requests, lifetime of 1 tick; time and the purge go on | `UsedOnce`, `InTime`, `AttemptKept`, `Dropped` |
| `records` | 2 users, 1 training, 1 certification, 2 scores, 2 requests; with symmetry | `RecordsIntegrity`, `ReportComplete`, `RecordsKept` |
| `browser` | 2 users, 2 tabs, 2 tokens, 2 calls, 1 tick; safety, with symmetry | `SameIdentity`, `LogoutKills`, `StaysOut` |

The passing runs also check the type invariant of their module, except
`throttle` and `sso_flow`: `ThrottleTypeOK` and `SsoTypeOK` are proved. None of
them uses symmetry together with a liveness property.

### Why the bounds are enough

Every handler touches one session, one account, one token or one bucket, and
the races are between what one request read and what one other changes: two
slots show every such race. One session suffices for seats because no statement
reads the seats of two sessions; there are two trainings because a deletion must
take a session that was moved to the training and leave one that was moved away.
With one seat and two requests a session may hold two people: the third user is
the one whom a weaker check would let in. A capacity is lowered under the people
who hold seats when it goes from none to one.

Two tabs, two accounts and two calls are what it takes for a late answer of one
to meet the cookie of another; two calls on a page, for a list to be overtaken
by the call that makes it stale. For the throttle, the window must be long
enough for two windows to touch within a stretch of its length, and the limit
large enough to be approached: three ticks and two failures are. A session that
lives two ticks is born valid, grows older, and expires, with every other step
before, between and after; the tick before the last is where a boundary that is
off by one ends it. One account has two sessions in `startup`, so that a logout
of the one could end the other; that no account's steps touch another's session
is proved for any number of them (`StartupKeptValid`, `KeptValid`). Two attempts
to connect are one that is followed by another and one that is the last; the ten of the program repeat the first. The environments are
one that will do, the same with another secret, one without SSO whose address
cannot be bound, and one for each way in which the OIDC settings are refused; a
bad secret or database URL takes the same branch of `ReadConfig`.

With one slot, `SeatBound` and `WindowBound` say that the checks are exact: a
session is never oversold and a window never counts more than `MAX_FAILURES`.
The theorems below hold for one slot as for any number; the runs show that
with two the code exceeds both limits by one.

`Erasers` bounds, in `Accounts`, which slots may work on an erasure. With one
eraser the last admin is safe from every order of sign-ons, links, creations and
restarts; with two it is not, which is what `accounts_last_admin` shows.

Bounds that cap the model itself: ids (`SessionIdLeft`, `TrainingIdLeft`, the
sets of account ids and tokens: a row is only created while an id is left), ages
that stop at the window or the time to live, and `Days`, which stops one day
after expiry and one day before the warning. Each stops where nothing changes
any more.

Deadlock is not checked where the system may stop: in `Scheduling` when every
account has been erased, in `Accounts` (and `SeedAdmin` over it) when all ids are
used up and the server is down.

### Fairness

`Released` assumes that time goes on. `Dropped` assumes that an expired row is
purged in the end: the task ticks every hour and logs a failure without ending,
and the database is not down at every tick.

`Startup` assumes that `run` is polled and that a container that has ended is
started again (`WF(Run)`: `restart: unless-stopped` in `docker-compose.yml:27`),
and that the purge comes round (`WF(PurgeTask)`). `Connect` needs no assumption
about the database: the pool gives up after five seconds. Nothing is assumed
about the provider and about requests, for nothing makes them end: the HTTP
client that `OidcState::init` builds (`oidc.rs:41-51`) has no timeout, neither for discovery
nor, later, for the exchange of a code, and `axum::serve` has none for requests.
So `Discover` and `HandleSession(r)` may be put off for ever. `Decided`, `ComesUp`
and `PurgedInTheEnd` name what may then happen: `SilentProvider`, a start that is
held up in discovery for ever, and `EndlessRequest`, a shutdown that waits for
ever for a request. Each holds outright of the behaviours without these two, and
what it adds is that there is no third thing `run` could wait for.
`ComesUp` and `PurgedInTheEnd` speak of behaviours that become calm; nothing
makes them so.

`Unstuck` assumes that every call settles (`WF(Settle(c))`): the proxy in front
of the server answers for it after a minute. The violations stated as action
properties (`sched_oversold`, `accounts_lost_race`) use fair specifications
(`WF(Handle(r))`, `WF(SignOn(r))`: the runtime polls every woken future), so that
the behaviours that refute them are ones a running server can show.

## 4. What is proved

`TLC` shows a property on the instance above; a theorem shows it for any sets of
users, sessions, tokens and requests and any limits, under the assumptions named
in each module (`SchedulingAssumption`, `BookAssumption`, `ThrottleAssumption`,
`SessionAssumption`, `SsoAssumption`, `BrowserAssumption`, `AccountsAssumption`,
`RecordsAssumption`, `StartupAssumption`): the sets that are counted are finite,
numbers are natural, and `None` is not an id.

- `SeatBookProofs!BookSafe`: `BookTypeOK` and `NeverOversold`, under
  `BookAssumption`. They are inductive together.
- `SchedulingProofs`: `TypeCorrect`; `NothingOutlives` (`Integrity`); then
  `SeatsBounded`. `SeatBound` is not inductive alone: that a request found room
  says something about the session's present capacity, while the bound is about
  `peak`, and `peak` may drop to a new session's capacity. The strengthening is
  `IInv`, the conjunction of types, `Integrity`, `PeakCovers` (the capacity of a
  live session is covered by its peak) and `SeatBound`. A request counts as
  pending from the moment it found room, so inserting only moves it from one
  side to the other; finding room requires a free seat, and the other pending
  requests are at most the other slots.
  `Refinement` maps every step to one of `SeatBook` or a stutter, with the slack
  of one less than the slots; the bound just described is what its `Admit` asks
  for. `Closed` proves `ClosedToNewcomers` and `SeatsStay` proves `SeatKept`, both
  action properties.
- `LoginThrottleProofs`: `ThrottleSafe`, the types (`ThrottleTyped`) and
  `WindowBound`, by the same counting: an attempt counts from the moment it is
  let in. `Isolation` proves `Isolated`. `RecentBounded` (`RecentBound`) and
  `NobodyThrottledInVain` (`JustThrottled`) relate the counter to the history of
  failures, from the invariant `Counted`. It has two halves. The open window
  has counted the failures since its opener and no others, so that a full
  window is made of failures that are all recent. And whatever else is recent
  was counted by one earlier window, whose opener is not recent any more: no
  window opens while another is open, so that of two that touch a stretch
  never sees the first whole. That is where the "less one" of `RecentBound`
  comes from. The failures of a stretch are counted as the size of a set of
  numbered failures (`Numbered`) and not as the sum of a function, which the
  provers could only get hold of by induction.
- `SessionProofs` is about the store `AuthSessions` and the two modules composed
  with it, `Browser` and `Startup`, which rest on the same lemmas about a step of
  the store.
  - The store: `SessionsSafe`, the types (`SessionsTyped`), `NoOrphan`
    (`NoneOrphaned`) and `LateBound`. Death is final (`DeathIsFinal`; as a theorem,
    `DeadForGood`) and nobody starts to work under a dead token (`NoNewWork`), so
    each late request is one fewer that can still come (`CountedOnce`). `KeptValid`
    proves `SessionKept`, an action property, whose boundary is written out and
    not in terms of the `Expired` that `Purge` uses. `OneKey` says that the rows
    of one server run have one key, so that only another run can put a session
    out of effect by its key.
  - The browser: a step of a tab leaves the store alone or makes one step of
    it (`BrowserStep`), so that `SessionsSafe` holds of the composition
    (`BrowserSafe`). `BrowserTyped` (`BrowserTypeOK`). `LogoutsKill` (`LogoutKills`): the
    invariant `LogoutGoes` ties a logout's fetch to the request that serves it
    while it is on the way, so that its answer is given in the step that finds or
    makes the session dead, and death is final. `OutStaysOut` (`StaysOut`): the
    invariant `Waits` says that a tab that asks who is signed on shows "Loading"
    and has no other call, so no such answer can reach a login form.
    `OneIdentity` (`SameIdentity`): the page, the cookie and the account behind it
    are changed by three different steps, so that the invariant has to say what
    every call in between knows. `Goes`: while a call is on its way the server
    works on it, and a cookie that comes with a login is of the account that has
    logged in. `Told`: what a call for the profile will be, or was, answered is
    true of the cookie there is now, unless there is none. `Knows`: so it is with
    the page, in every tab behind whose back no other has signed on. `Form`: a
    login goes out from the form only, one at a time, so that the cookie it
    brings never meets the page of somebody else in its own tab; this is the
    disabled button of `LoginPage.tsx`. Under it all lies that a session is never
    handed on to another account (`HoldsStays`).
  - The process: what `run` does to the store is a step of it, `Lost`,
    the end of all requests at once, or `Rekeyed`, another secret (`StartupStep`).
    `Lost` only takes workers away (`LostStep`), which gives `StartupLateBound`, `StartupNoOrphan`,
    `StartupKeptValid` and `StartupDeadForGood` through crashes and restarts:
    death does not depend on the secret.
    `StartupTyped` (`StartupTypeOK`). `StartupServesReady` (`ServesReady`) by the
    invariant `Settled`, which says for each stage what is settled when `run` has
    got that far.
- `SessionListProofs`: `ListTyped` (`ListTypeOK`); `SeatsShown` (`OwnSeatsShown`). The
  strengthening is `WrongIsMended`: while the rows are wrong, not excused, and no
  error is shown, a call is under way that `Mends` them - a call of `Change`, after
  which the page loads again, a list that has not been read yet, or one that was read
  since. At rest there is none, so the rows are right. `BusyIsWaiting` is the
  safety half of `Unstuck`: a button is disabled only while a call of its own is
  under way, although one `busyId` stands for all rows.
- `SsoFlowProofs`: `SsoTyped` (`SsoTypeOK`), `OneExchange` (`UsedOnce`), `ExchangedInTime` (`InTime`) and
  `Kept` (`AttemptKept`). The strengthening is `SsoInv`: besides types it says
  whoever is past the DELETE for an attempt is alone with it and has not signed
  on (`Sole`), and that an attempt about to be stored is nobody else's
  (`Reserved`).
- `AccountsProofs`: `AccountsTyped`; `OneForAll` (`OneAccount`, inductive with the
  types: `TableStep` says what a statement can do to the table, an insert that
  violates no index, a link, a deletion or nothing); `OwnAccount`
  (`SignedOnAsLinked`), which needs that a handler of the callback keeps the
  identity it was entered with (`Named`); `AnAdminRemains` (`AdminRemains`) under
  the hypothesis `OneEraser`, that no two erasures run at once. The strengthening
  `AdminInv` says of an erasure that is past its checks that another admin than
  its target remains (`Spared`). It breaks exactly where a second erasure may
  take that one, which is what the run `accounts_last_admin` shows.
- `RecordsProofs`: `RecordsTyped`; `NothingKept` (`RecordsIntegrity`), where the
  foreign keys of the inserts do what the checks before them can not;
  `ReportsComplete` (`ReportComplete`); `Kept` (`RecordsKept`), an action property.

Every invariant and every action property that a passing run checks is a
theorem. Only model-checked is what is out of the prover's reach, liveness:
`Released`, `Dropped`, `Decided`, `ComesUp`, `PurgedInTheEnd` and `Unstuck`, which
rest on fairness and ENABLED. The runs that end in a violation have nothing to
prove. Not stated as theorems are the strengthenings themselves; before they
were proved inductive they were checked with TLC on the instances of section 3.

`SessionProofs` extends `Browser` and `Startup` side by side: a theorem about the
one uses neither the variables nor the assumptions of the other.

## 5. Where code and text disagree

Four runs end in a violation, on purpose; `PROJECT.json` lists them under
`findings` with the lines quoted. Two are races between a check and the
statement that relies on it (the last seat, the last admin), one is a re-read
that looks for the wrong winner, and one is a value stored in another spelling
than the one it is looked up in (the seed admin's email).

More disagreements show in the actions, and have no run of their own:

- `ratelimit.rs:5-6` promises to stop an account after `MAX_FAILURES` failures;
  `check` and `record_failure` are two critical sections with a password check
  between them, so concurrent attempts may exceed it by their number less one.
  `WindowBound` is the bound that does hold. `ratelimit.rs:8` calls the window
  "sliding", but it is fixed: `RecentBound` says how much more than `MAX_FAILURES`
  a stretch of its length can hold that no success and no restart, which both
  clear the map's entry, fall into.
- `certifications.rs:150` promises "clean 404s" where `assign` answers a missing
  target with 400 (`AssignUser`).
- `sessions.rs:124` and `trainings.rs:143` look a training up "rather than" let a
  foreign key fail, but the training may be deleted before the INSERT
  (`SessionInsert` and `CompleteInsert` then end in `"fk_error"`).
- `SEED_ADMIN_PASSWORD` is hashed as configured, while login refuses a password
  that `validate_password` does not accept before it looks at it: a seed password
  that is too short or too long can not be used.
- `main.rs:43-44` lets the server start without SSO when discovery fails; a
  discovery that never ends is not a failure, and holds the start up, password
  login included (`SilentProvider`, section 3). Likewise a shutdown waits for a
  request that waits for the provider (`EndlessRequest`) until it is killed.
- `README.md:17-20` has `run_migrations` make an older volume good. It creates
  the two tables of scheduling; a volume from before single sign-on would still
  lack `oidc_auth_requests` and the OIDC columns of `users` (`Migrate`).
- On the schedule page a list that was read earlier and arrives later stays until
  the next load, and a click on one row enables the button of another whose call
  is still under way. `OwnSeatsShown` exempts the former, by name, and says
  that apart from it and from changes elsewhere nothing leaves a wrong row; the
  latter only makes calls that the server takes or refuses. A new load clears
  no error and a click or a submission does, also one that another call has set. On the page of a training a failed
  list is ignored, and the error of a failed toggle replaces the whole page.

## 6. Not modelled

- The dashboard (`users.rs`): three reads of one user, which nothing checks
  against each other and no text promises anything about.
- The bounds of `validation.rs` other than the normal form of an email: the
  inputs of the models are those that pass them, and they have no state.
- The other pages, rendering and formatting: no state beyond a list that is
  loaded once.
- Liveness of `Browser` ("Loading" ends, whatever the answer, by the `finally` of
  `AuthContext.tsx`): the run needs symmetry to be small, and symmetry excludes
  it.
- The hours of the time to live are multiplied into seconds unchecked
  (`config.rs`): a configuration that large is out of any use, and the model's
  times are ticks.
- The verification of ID tokens (the `openidconnect` crate), password hashing, the
  proxy and the networks of the containers: outside the program or without states to check.

What could be proved next: that the bounds are met exactly when there is one
slot (`SeatBound`, `WindowBound`), and the safety halves of the remaining liveness
properties (which step is due in each stage of `Startup`, as `BusyIsWaiting` says
of `Unstuck`).
