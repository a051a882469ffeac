--------------------------- MODULE LoginThrottle ---------------------------
(***************************************************************************)
(* The login throttle: LoginRateLimiter of ratelimit.rs and the handler    *)
(* login of routes/auth.rs that drives it.  The limiter is a map under a   *)
(* mutex, so each of its calls is one step; the handler asks it, awaits    *)
(* the SELECT of the account, and only then tells it how the attempt       *)
(* ended.  Between the two any number of other attempts are let in.        *)
(*                                                                         *)
(* Time passes in ticks.  Of an Instant only its distance to now matters:  *)
(* a bucket has an age, which stops at Window, where it has expired.       *)
(***************************************************************************)
EXTENDS Naturals, FiniteSets

CONSTANTS Emails,      \* emails as validate_email returns them
          Requests,    \* login requests handled at the same time
          MaxFailures, \* MAX_FAILURES
          Window,      \* WINDOW, in ticks
          None         \* no email

ASSUME ThrottleAssumption ==
  /\ IsFiniteSet(Requests) /\ Requests # {}
  /\ MaxFailures \in Nat \ {0}
  /\ Window \in Nat \ {0}

VARIABLES bucket,   \* bucket[e]: failures counted for e and the window's age
          req,      \* req[r]: where the handler of r stands
          recent    \* history: recent[e][a], failures of e that were recorded
                    \* a ticks ago, since its last success or the start

throttleVars == <<bucket, req, recent>>

\* No entry in the map.  An entry that has expired counts as little.
NoBucket == [age |-> Window, failures |-> 0]
NoFailures == [a \in 0 .. Window - 1 |-> 0]

\* Not logging in; waiting for the SELECT; storing the session.  A reply is
\* 429, 401, or 200 with a cookie.
Idle(reply) == [pc |-> "idle", email |-> None, reply |-> reply]
Attempt == [pc : {"idle"}, email : {None},
            reply : {"none", "throttled", "denied", "granted"}]
           \cup [pc : {"select", "session"}, email : Emails, reply : {"none"}]

ThrottleTypeOK ==
  /\ bucket \in [Emails -> [age : 0 .. Window, failures : Nat]]
  /\ req \in [Requests -> Attempt]
  /\ recent \in [Emails -> [0 .. Window - 1 -> Nat]]

ThrottleInit == /\ bucket = [e \in Emails |-> NoBucket]
                /\ req = [r \in Requests |-> Idle("none")]
                /\ recent = [e \in Emails |-> NoFailures]
-----------------------------------------------------------------------------
\* Seeded fault: a window is a tick short.
FreshShort(e) == bucket[e].age + 1 < Window

Fresh(e) == bucket[e].age < Window

\* Seeded fault: a count outlives its window.
AllowedNever(e) == bucket[e].failures < MaxFailures

\* check
Allowed(e) == Fresh(e) => bucket[e].failures < MaxFailures

Throttled(e) == ~Allowed(e)

\* Attempts on e that were let in and have not been settled.
InFlight(e) == {r \in Requests : req[r].pc = "select" /\ req[r].email = e}

Finish(r, reply) == req' = [req EXCEPT ![r] = Idle(reply)]

\* Seeded fault: the throttle is not asked.
LoginUnasked(r) ==
  /\ req[r].pc = "idle"
  /\ \E e \in Emails : req' = [req EXCEPT ![r] =
       [pc |-> "select", email |-> e, reply |-> "none"]]
  /\ UNCHANGED <<bucket, recent>>

\* The throttle is asked about the email in its normal form; the SELECT is
\* sent, or the attempt refused.
Login(r) ==
  /\ req[r].pc = "idle"
  /\ \E email \in Emails :
       IF Allowed(email)
       THEN req' = [req EXCEPT ![r] = [pc |-> "select", email |-> email,
                                       reply |-> "none"]]
       ELSE Finish(r, "throttled")
  /\ UNCHANGED <<bucket, recent>>

\* Seeded fault: an expired window starts anew with the old count.
RecordFailureKept(e) ==
  bucket' = [bucket EXCEPT ![e] = [age |-> IF Fresh(e) THEN @.age ELSE 0,
                                   failures |-> @.failures + 1]]

\* Seeded fault: retain keeps what has expired.
RecordFailureDrops(e) ==
  bucket' = [f \in Emails |->
    IF f = e THEN [age |-> IF Fresh(e) THEN bucket[e].age ELSE 0,
                   failures |-> 1 + IF Fresh(e) THEN bucket[e].failures ELSE 0]
    ELSE IF Fresh(f) THEN NoBucket ELSE bucket[f]]

\* record_failure: expired entries are dropped, whose ever they are; the first
\* failure opens a window, the next ones count into it.  (The count saturates
\* at 2^32 - 1; WindowBound keeps it far away from there.)
RecordFailure(e) ==
  bucket' = [f \in Emails |->
    IF f = e THEN [age |-> IF Fresh(e) THEN bucket[e].age ELSE 0,
                   failures |-> 1 + IF Fresh(e) THEN bucket[e].failures ELSE 0]
    ELSE IF Fresh(f) THEN bucket[f] ELSE NoBucket]

\* The password is wrong, there is no such account, or it has no password.
Fail(r) ==
  /\ req[r].pc = "select"
  /\ RecordFailure(req[r].email)
  /\ recent' = [recent EXCEPT ![req[r].email][0] = @ + 1]
  /\ Finish(r, "denied")

\* The password is right: reset, then create_session.
Succeed(r) ==
  /\ req[r].pc = "select"
  /\ bucket' = [bucket EXCEPT ![req[r].email] = NoBucket]
  /\ recent' = [recent EXCEPT ![req[r].email] = NoFailures]
  /\ req' = [req EXCEPT ![r].pc = "session"]

StoreSession(r) ==
  /\ req[r].pc = "session"
  /\ Finish(r, "granted")
  /\ UNCHANGED <<bucket, recent>>

\* The client hangs up, or the statement awaited fails.  An attempt that ends
\* at its SELECT is neither a failure nor a success.
Abort(r) ==
  /\ req[r].pc # "idle"
  /\ Finish(r, "none")
  /\ UNCHANGED <<bucket, recent>>

Tick == /\ bucket' = [e \in Emails |->
             [age |-> IF Fresh(e) THEN bucket[e].age + 1 ELSE Window,
              failures |-> bucket[e].failures]]
        /\ recent' = [e \in Emails |-> [a \in 0 .. Window - 1 |->
                        IF a = 0 THEN 0 ELSE recent[e][a - 1]]]
        /\ UNCHANGED req

\* The process ends and is started again: the map lives in memory.
Restart == /\ bucket' = [e \in Emails |-> NoBucket]
           /\ req' = [r \in Requests |-> Idle("none")]
           /\ recent' = [e \in Emails |-> NoFailures]

ThrottleNext ==
  \/ \E r \in Requests : \/ Login(r) \/ Fail(r) \/ Succeed(r)
                         \/ StoreSession(r) \/ Abort(r)
  \/ Tick
  \/ Restart

ThrottleSpec == ThrottleInit /\ [][ThrottleNext]_throttleVars

\* Time goes on.
ThrottleFairSpec == ThrottleSpec /\ WF_throttleVars(Tick)
-----------------------------------------------------------------------------
(* Properties.                                                             *)

\* A window counts no more failures than MAX_FAILURES and the other attempts
\* that can be waiting for their SELECT when the last one is let in
\* (routes/auth.rs:31-57); attempts that were let in count already.
WindowBound == \A e \in Emails :
  Fresh(e) => bucket[e].failures + Cardinality(InFlight(e))
                <= MaxFailures - 1 + Cardinality(Requests)

\* The failures of a row of recent: how long ago, and which one of that tick.
Numbered(row) == UNION {{a} \X (1 .. row[a]) : a \in 0 .. Window - 1}

\* Failures of e in the last Window, wherever the windows of ratelimit.rs
\* begin and end, since the last success of e or restart of the server.
RecentFailures(e) == Cardinality(Numbered(recent[e]))

\* The window does not slide: it opens with a failure and is forgotten as a
\* whole, so that two windows may touch.  In a stretch of Window without a
\* success or a restart there are no more failures than two windows count,
\* less the one that opened the first (ratelimit.rs:43-59).
RecentBound == \A e \in Emails :
  RecentFailures(e) <= 2 * (MaxFailures - 1 + Cardinality(Requests)) - 1

\* Nobody is throttled for failures that are older than the window, were made
\* good by a success, or were somebody else's: what the limiter holds against
\* an account are failures of this account in the last Window.
JustThrottled == \A e \in Emails :
  Throttled(e) => RecentFailures(e) >= MaxFailures

\* ratelimit.rs:18-20: attempts on one account do not move the throttle of
\* another.  An account becomes throttled by a failure of its own, and is let
\* in again by a success of its own, by time or by a restart, although every
\* failure anywhere sweeps the whole map.
Isolated ==
  [][\A e \in Emails :
       /\ Allowed(e) /\ Throttled(e)' =>
            \E r \in InFlight(e) : req'[r].reply = "denied"
       /\ Throttled(e) /\ Allowed(e)' =>
            \/ \E r \in InFlight(e) : req'[r].pc = "session"
            \/ UNCHANGED req
            \/ req' = [r \in Requests |-> Idle("none")]]_throttleVars

\* A throttled account is let in again, whatever the attempts that still come:
\* they are refused without being counted.
Released == \A e \in Emails : Throttled(e) ~> Allowed(e)
=============================================================================
