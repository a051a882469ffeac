------------------------------ MODULE SsoFlow ------------------------------
(***************************************************************************)
(* The authorization code flow of routes/oidc.rs: login stores a one-time  *)
(* request in oidc_auth_requests and sends the browser to the provider;    *)
(* the provider sends it back to callback, which consumes the row, has the *)
(* code exchanged and signs the user on.  The hourly task of main.rs drops *)
(* what nobody came back for.                                              *)
(*                                                                         *)
(* The browser may come back never, late, or - reloaded, or resent by a    *)
(* proxy - several times, also while an earlier callback is still waiting  *)
(* for the provider.  A code comes with the state it was issued for.  What      *)
(* provision_user does with the claims is module Accounts.                 *)
(***************************************************************************)
EXTENDS Naturals

CONSTANTS Attempts, \* values of state; Bound: no more logins than these
          Requests, \* requests the server can work on at the same time
          Lifetime, \* the ten minutes of an attempt, in ticks
          None

ASSUME SsoAssumption == Lifetime \in Nat /\ None \notin Attempts

VARIABLES attempt,   \* attempt[s]: the row with state s; the age of a row
                     \* that is gone is the age it was consumed at
          answer,    \* answer[s]: what the provider sent the browser back with
          req,       \* req[r]: the handler working on r, or its last reply
          exchanges, \* history: exchanges begun with the verifier of s
          signOns    \* history: sessions made for s

ssoVars == <<attempt, answer, req, exchanges, signOns>>

\* Bound: once past its lifetime a row ages no more.
Ages == 0 .. Lifetime + 1

Row == [life : {"unborn", "live", "gone"}, age : Ages]

\* Not asked yet; asked; refused by the user; a code, good for one exchange.
Answers == {"none", "asked", "error", "code", "redeemed"}

\* A redirect into the page, 400, 401 or 403, 500.
Replies == {"none", "ok", "refused", "error"}

\* age: how long ago expires_at was computed for the row about to be inserted.
Request == [pc : {"idle", "insert", "callback", "exchange", "sign_on"},
            attempt : Attempts \cup {None}, age : Ages, reply : Replies]

Idle(reply) == [pc |-> "idle", attempt |-> None, age |-> 0, reply |-> reply]

SsoTypeOK == /\ attempt \in [Attempts -> Row]
             /\ answer \in [Attempts -> Answers]
             /\ req \in [Requests -> Request]
             /\ exchanges \in [Attempts -> Nat]
             /\ signOns \in [Attempts -> Nat]

SsoInit == /\ attempt = [s \in Attempts |-> [life |-> "unborn", age |-> 0]]
           /\ answer = [s \in Attempts |-> "none"]
           /\ req = [r \in Requests |-> Idle("none")]
           /\ exchanges = [s \in Attempts |-> 0]
           /\ signOns = [s \in Attempts |-> 0]
-----------------------------------------------------------------------------
Live(s) == attempt[s].life = "live"

\* Seeded fault: an attempt may be dropped a tick early.
StaleEarly(s) == attempt[s].age + 1 >= Lifetime

\* The hourly task's expires_at <= now, and callback's expires_at < now.
Stale(s) == attempt[s].age >= Lifetime

\* Seeded fault: expiry is left to the hourly task.
TooLateNever(s) == ~Live(s)

TooLate(s) == attempt[s].age > Lifetime

At(r, pc) == req[r].pc = pc
Goto(r, pc) == req' = [req EXCEPT ![r].pc = pc]
Finish(r, reply) == req' = [req EXCEPT ![r] = Idle(reply)]
Enter(r, pc, s) == req' = [req EXCEPT ![r] =
  [pc |-> pc, attempt |-> s, age |-> 0, reply |-> "none"]]

\* The state of a new attempt is random: nobody else has it.
Login(r) ==
  /\ At(r, "idle")
  /\ \E s \in Attempts :
       /\ attempt[s].life = "unborn"
       /\ \A q \in Requests : req[q].attempt # s
       /\ Enter(r, "insert", s)
  /\ UNCHANGED <<attempt, answer, exchanges, signOns>>

\* The row is in the table before the browser learns where to go.
Insert(r) ==
  /\ At(r, "insert")
  /\ LET s == req[r].attempt IN
     /\ attempt' = [attempt EXCEPT ![s] =
                      [life |-> "live", age |-> req[r].age]]
     /\ answer' = [answer EXCEPT ![s] = "asked"]
  /\ Finish(r, "ok")
  /\ UNCHANGED <<exchanges, signOns>>

\* External: the user agrees or not, at any time - and may go back to the
\* provider's page and get another code for the same attempt.
Answer(s) ==
  /\ answer[s] # "none"
  /\ \E a \in {"error", "code"} : answer' = [answer EXCEPT ![s] = a]
  /\ UNCHANGED <<attempt, req, exchanges, signOns>>

\* The browser comes back, for the first time or once more.  With an error
\* the row stays where it is.
Callback(r) ==
  /\ At(r, "idle")
  /\ \E s \in Attempts :
       \/ answer[s] = "error" /\ Finish(r, "refused")
       \/ answer[s] \in {"code", "redeemed"} /\ Enter(r, "callback", s)
  /\ UNCHANGED <<attempt, answer, exchanges, signOns>>

\* Seeded fault: the row is read and left in the table.
ConsumeNot(r) ==
  /\ At(r, "callback")
  /\ LET s == req[r].attempt IN
     IF Live(s) /\ ~TooLate(s)
     THEN /\ Goto(r, "exchange")
          /\ exchanges' = [exchanges EXCEPT ![s] = @ + 1]
     ELSE Finish(r, "refused") /\ UNCHANGED exchanges
  /\ UNCHANGED <<attempt, answer, signOns>>

\* DELETE ... RETURNING, then a look at expires_at: a row that is too old is
\* consumed all the same.
Consume(r) ==
  /\ At(r, "callback")
  /\ LET s == req[r].attempt IN
     /\ attempt' = [attempt EXCEPT ![s].life = IF Live(s) THEN "gone" ELSE @]
     /\ IF Live(s) /\ ~TooLate(s)
        THEN /\ Goto(r, "exchange")
             /\ exchanges' = [exchanges EXCEPT ![s] = @ + 1]
        ELSE Finish(r, "refused") /\ UNCHANGED exchanges
  /\ UNCHANGED <<answer, signOns>>

\* The code is redeemed, or the provider does not answer or refuses.  Then the
\* ID token, its email, whether that is verified, and its domain are judged.
Exchange(r) ==
  /\ At(r, "exchange")
  /\ LET s == req[r].attempt IN
     \/ /\ answer[s] = "code"
        /\ answer' = [answer EXCEPT ![s] = "redeemed"]
        /\ Goto(r, "sign_on") \/ Finish(r, "refused")
     \/ Finish(r, "refused") /\ UNCHANGED answer
  /\ UNCHANGED <<attempt, exchanges, signOns>>

\* provision_user and create_session.
SignOn(r) ==
  /\ At(r, "sign_on")
  /\ \/ /\ Finish(r, "ok")
        /\ signOns' = [signOns EXCEPT ![req[r].attempt] = @ + 1]
     \/ Finish(r, "error") /\ UNCHANGED signOns
  /\ UNCHANGED <<attempt, answer, exchanges>>

\* The client hangs up or a statement fails.  What was consumed stays so.
Abort(r) == /\ ~At(r, "idle")
            /\ Finish(r, "none")
            /\ UNCHANGED <<attempt, answer, exchanges, signOns>>

\* Seeded fault: only rows a callback came too late for are dropped.
PurgeAnswered ==
  /\ attempt' = [s \in Attempts |-> IF Live(s) /\ Stale(s) /\ answer[s] = "code"
                  THEN [attempt[s] EXCEPT !.life = "gone"] ELSE attempt[s]]
  /\ UNCHANGED <<answer, req, exchanges, signOns>>

\* The hourly task, whose failures are logged and left to the next round.
Purge ==
  /\ attempt' = [s \in Attempts |-> IF Live(s) /\ Stale(s)
                  THEN [attempt[s] EXCEPT !.life = "gone"] ELSE attempt[s]]
  /\ UNCHANGED <<answer, req, exchanges, signOns>>

Older(age) == IF age <= Lifetime THEN age + 1 ELSE age

Tick ==
  /\ attempt' = [s \in Attempts |-> IF Live(s)
                  THEN [attempt[s] EXCEPT !.age = Older(@)] ELSE attempt[s]]
  /\ req' = [r \in Requests |-> IF At(r, "insert")
                  THEN [req[r] EXCEPT !.age = Older(@)] ELSE req[r]]
  /\ UNCHANGED <<answer, exchanges, signOns>>

SsoNext ==
  \/ \E r \in Requests : \/ Login(r) \/ Insert(r) \/ Callback(r) \/ Consume(r)
                         \/ Exchange(r) \/ SignOn(r) \/ Abort(r)
  \/ \E s \in Attempts : Answer(s)
  \/ Purge
  \/ Tick

SsoSpec == SsoInit /\ [][SsoNext]_ssoVars

\* Time goes on, and the purge comes round every hour.
SsoFairSpec == SsoSpec /\ WF_ssoVars(Tick) /\ WF_ssoVars(Purge)
-----------------------------------------------------------------------------
(* Properties.                                                             *)

\* README.md:168, "used once": however often the browser comes back, and
\* however many of its callbacks are handled at the same time, the verifier
\* and the nonce of an attempt go into one exchange, and one session at most
\* comes of it (oidc.rs:141-151).
UsedOnce == \A s \in Attempts : exchanges[s] <= 1 /\ signOns[s] <= exchanges[s]

\* README.md:169, "expire after 10 minutes": nobody is signed on by an attempt
\* that was consumed later than that, although the hourly purge leaves it
\* lying about for longer (oidc.rs:152-154).
InTime == \A s \in Attempts : exchanges[s] > 0 => attempt[s].age <= Lifetime

\* An attempt waits for its own callback for the whole of its ten minutes:
\* neither the purge nor somebody else's callback ends it before, and its own,
\* if it comes before, is not sent away (main.rs:168-173, oidc.rs:152-154).
AttemptKept ==
  [][\A s \in Attempts : Live(s) /\ attempt[s].age < Lifetime =>
       \/ Live(s)'
       \/ \E r \in Requests : /\ At(r, "callback") /\ req[r].attempt = s
                              /\ At(r, "exchange")']_ssoVars

\* init.sql:140, "short-lived, one-time store": no row stays for ever, whether
\* the browser came back with a code, with an error, or not at all.
Dropped == \A s \in Attempts : Live(s) ~> ~Live(s)
=============================================================================
