------------------------------- MODULE Browser -------------------------------
(***************************************************************************)
(* The tabs of one browser over the session store of AuthSessions: the     *)
(* AuthProvider of AuthContext.tsx, the gate of App.tsx, the buttons of    *)
(* Layout.tsx and LoginPage.tsx, and request() of api.ts.                  *)
(*                                                                         *)
(* The tabs share one cookie.  A call carries the cookie of the moment it  *)
(* is sent; its answer first changes the cookie, when the headers arrive,  *)
(* and later the page, when its promise is settled; answers overtake each  *)
(* other.  Calls for data (trainings, schedules) are left out: they leave  *)
(* the cookie and the user of a page alone, even when answered 401.        *)
(***************************************************************************)
EXTENDS AuthSessions

CONSTANT Tabs

ASSUME BrowserAssumption == None \notin Tabs

VARIABLES jar,  \* the token in the cookie, or None
          page, \* page[b]: what tab b shows, and to whom
          call, \* call[r]: the fetch that request r of the server answers
          rival \* history: rival[b], another tab has signed on while b was
                \* showing somebody or about to

browserVars == <<sessionVars, jar, page, call, rival>>

\* A document that has not run yet; the "Loading" of App; the login form; the
\* application; the identity provider's pages.
Views == {"blank", "loading", "login", "home", "away"}

Page == [at : Views, user : Users \cup {None}]

Nobody(at) == [at |-> at, user |-> None]
Shows(u) == [at |-> "home", user |-> u]

\* A fetch of a tab, or its journey to the identity provider.  token is the
\* cookie that "logout" carries, or that "login" and "sso" set.
Call == [tab : Tabs \cup {None}, kind : {"none", "me", "login", "logout", "sso"},
         stage : {"none", "sent", "answered", "arrived"},
         status : {"none", "ok", "unauthorized", "failed"},
         user : Users \cup {None}, token : Tokens \cup {None}]

NoCall == [tab |-> None, kind |-> "none", stage |-> "none",
           status |-> "none", user |-> None, token |-> None]

BrowserTypeOK == /\ SessionTypeOK
                 /\ jar \in Tokens \cup {None}
                 /\ page \in [Tabs -> Page]
                 /\ call \in [Requests -> Call]
                 /\ rival \in [Tabs -> BOOLEAN]

BrowserInit == /\ SessionInit
               /\ jar = None
               /\ page = [b \in Tabs |-> Nobody("blank")]
               /\ call = [r \in Requests |-> NoCall]
               /\ rival = [b \in Tabs |-> FALSE]
-----------------------------------------------------------------------------
Calls(b, kind) == {r \in Requests : call[r].tab = b /\ call[r].kind = kind}

\* Bound: a tab calls only while a request is free.
Send(r, b, kind, carried) ==
  /\ call[r] = NoCall
  /\ call' = [call EXCEPT ![r] = [tab |-> b, kind |-> kind, stage |-> "sent",
                status |-> "none", user |-> None, token |-> carried]]

Answered(fetch, status, u, t) ==
  [fetch EXCEPT !.stage = "answered", !.status = status, !.user = u, !.token = t]

\* The server is done with r; whether anybody waits for it is another matter.
Answer(r, status, u, t) ==
  call' = IF call[r] = NoCall THEN call
          ELSE [call EXCEPT ![r] = Answered(call[r], status, u, t)]

\* fetch with credentials: "include".  auth_middleware looks for the cookie
\* before it does anything else.
SendCookie(r, b, kind) ==
  /\ At(r, "idle") /\ call[r] = NoCall
  /\ IF jar = None
     THEN /\ call' = [call EXCEPT ![r] = [tab |-> b, kind |-> kind,
                        stage |-> "answered", status |-> "unauthorized",
                        user |-> None, token |-> None]]
          /\ UNCHANGED sessionVars
     ELSE /\ Receive(r)
          /\ req'[r].token = jar
          /\ req'[r].goal = IF kind = "logout" THEN "logout" ELSE "act"
          /\ Send(r, b, kind, IF kind = "logout" THEN jar ELSE None)

\* A document that goes away takes its fetches with it: the server may still
\* work on them, but their answers reach no jar and no page.
Dropped(b) == [r \in Requests |-> IF call[r].tab = b THEN NoCall ELSE call[r]]

\* Seeded fault: the login form is there before the answer is.
MountOpen(b) ==
  /\ page[b].at = "blank"
  /\ \E r \in Requests : SendCookie(r, b, "me")
  /\ page' = [page EXCEPT ![b] = Nobody("login")]
  /\ UNCHANGED <<jar, rival>>

\* AuthProvider's effect asks who is signed on.  It runs once per document, as
\* in a production build (StrictMode runs it twice in development).
Mount(b) ==
  /\ page[b].at = "blank"
  /\ \E r \in Requests : SendCookie(r, b, "me")
  /\ page' = [page EXCEPT ![b] = Nobody("loading")]
  /\ UNCHANGED <<jar, rival>>

\* The user reloads, closes or leaves the document.
Reload(b) ==
  /\ page[b].at # "blank"
  /\ page' = [page EXCEPT ![b] = Nobody("blank")]
  /\ call' = Dropped(b)
  /\ rival' = [rival EXCEPT ![b] = FALSE]
  /\ UNCHANGED <<sessionVars, jar>>

\* Seeded fault: the button is not disabled while a login is under way.
SubmitAgain(b) ==
  /\ page[b].at = "login"
  /\ \E r \in Requests : /\ Receive(r) /\ req'[r].pc = "insert"
                         /\ Send(r, b, "login", None)
  /\ UNCHANGED <<jar, page, rival>>

\* The login form, as the account of the email that was typed in.  A login
\* that the server refuses is one that ends in Abort.
Submit(b) ==
  /\ page[b].at = "login"
  /\ Calls(b, "login") = {}
  /\ \E r \in Requests : /\ Receive(r) /\ req'[r].pc = "insert"
                         /\ Send(r, b, "login", None)
  /\ UNCHANGED <<jar, page, rival>>

\* The button stays enabled while a logout is under way.
ClickLogout(b) ==
  /\ page[b].at = "home"
  /\ \E r \in Requests : SendCookie(r, b, "logout")
  /\ UNCHANGED <<jar, page, rival>>

\* The document is left for the identity provider.  What becomes of the
\* attempt is SsoFlow; here it is the create_session at its end.
ClickSso(b) ==
  /\ page[b].at = "login"
  /\ page' = [page EXCEPT ![b] = Nobody("away")]
  /\ \E r \in Requests :
       /\ Receive(r) /\ req'[r].pc = "insert"
       /\ call[r] = NoCall
       /\ call' = [Dropped(b) EXCEPT ![r] = [tab |-> b, kind |-> "sso",
            stage |-> "sent", status |-> "none", user |-> None,
            token |-> None]]
  /\ rival' = [rival EXCEPT ![b] = FALSE]
  /\ UNCHANGED jar
-----------------------------------------------------------------------------
(* The server, as AuthSessions has it, with the answers it gives.          *)

ServeResolve(r) ==
  /\ Resolve(r)
  /\ IF req'[r].pc = "idle" THEN Answer(r, "unauthorized", None, call[r].token)
                            ELSE UNCHANGED call

\* GET /api/me reads the profile of the account, which may be gone by now.
ServeMe(r) ==
  /\ Act(r)
  /\ IF req[r].user \in accounts
     THEN Answer(r, "ok", req[r].user, None)
     ELSE Answer(r, "failed", None, None)

ServeLogout(r) == Logout(r) /\ Answer(r, "ok", None, call[r].token)

ServeLogin(r) ==
  /\ CreateSession(r)
  /\ \/ \E t \in Tokens : /\ ~Live(t) /\ Live(t)'
                          /\ Answer(r, "ok", req[r].user, t)
     \/ token' = token /\ Answer(r, "failed", None, None)

Serve(r) ==
  /\ \/ ServeResolve(r)
     \/ ServeMe(r)
     \/ ServeLogout(r)
     \/ ServeLogin(r)
     \/ Abort(r) /\ Answer(r, "failed", None, None)
  /\ UNCHANGED <<jar, page, rival>>
-----------------------------------------------------------------------------
(* The way back.                                                           *)

Failed(fetch) ==
  [fetch EXCEPT !.status = "failed", !.user = None, !.token = None]

\* The answer does not make it, or its body does not: the promise is
\* rejected, though the server has acted and the cookie may be set.
Lose(r) ==
  /\ call[r].stage \in {"answered", "arrived"} /\ call[r].status # "failed"
  /\ call' = [call EXCEPT ![r] = Failed(call[r])]
  /\ UNCHANGED <<sessionVars, jar, page, rival>>

\* Tab b shows somebody, or is about to.
Identified(b) == page[b].at \in {"loading", "home"} \/ Calls(b, "login") # {}

SetsCookie(r) == call[r].status = "ok" /\ call[r].kind # "me"

\* The headers of an answer with Set-Cookie are in.
Arrive(r) ==
  /\ call[r].stage = "answered" /\ SetsCookie(r)
  /\ call' = [call EXCEPT ![r].stage = "arrived"]
  /\ IF call[r].kind = "logout"
     THEN jar' = None /\ UNCHANGED rival
     ELSE /\ jar' = call[r].token
          /\ rival' = [b \in Tabs |-> b # call[r].tab /\ Identified(b)]
  /\ UNCHANGED <<sessionVars, page>>

\* What tab b shows once the promise of its call r is settled: a profile is
\* shown, a logout takes it away, only "me" takes a failure for an answer.  A
\* journey ends on a new document, at / or at /login?sso_error=1.
Shown(r) ==
  LET b == call[r].tab IN
  IF call[r].kind = "sso" THEN Nobody("blank")
  ELSE IF call[r].status = "ok"
  THEN IF call[r].kind = "logout" THEN Nobody("login") ELSE Shows(call[r].user)
  ELSE IF call[r].kind = "me" THEN Nobody("login") ELSE page[b]

Settle(r) ==
  /\ \/ call[r].stage = "arrived"
     \/ call[r].stage = "answered" /\ ~SetsCookie(r)
  /\ page' = [page EXCEPT ![call[r].tab] = Shown(r)]
  /\ call' = [call EXCEPT ![r] = NoCall]
  /\ UNCHANGED <<sessionVars, jar, rival>>

\* max-age: the cookie goes when its session has expired, give or take the
\* way the answer took, also if the session was ended before.
CookieExpires ==
  /\ jar # None /\ Dead(jar)
  /\ jar' = None
  /\ UNCHANGED <<sessionVars, page, call, rival>>

\* The rest of the system.
Elsewhere ==
  /\ (\E u \in Users : EraseUser(u)) \/ Purge \/ Tick
  /\ UNCHANGED <<jar, page, call, rival>>

BrowserNext ==
  /\ \/ \E b \in Tabs : \/ Mount(b) \/ Reload(b)
                        \/ Submit(b) \/ ClickLogout(b) \/ ClickSso(b)
     \/ \E r \in Requests : Serve(r) \/ Lose(r) \/ Arrive(r) \/ Settle(r)
     \/ CookieExpires
     \/ Elsewhere
  /\ UNCHANGED secret

BrowserSpec == BrowserInit /\ [][BrowserNext]_browserVars
-----------------------------------------------------------------------------
(* Properties.                                                             *)

\* A page never shows one account while its calls act as another, unless
\* another tab has signed on behind its back (AuthContext.tsx:38-41 sets the
\* user from one answer, the browser sets the cookie from all of them).
SameIdentity == \A b \in Tabs :
  (page[b].at = "home" /\ ~rival[b] /\ jar # None /\ Live(jar))
    => token[jar].user = page[b].user

\* When the page of a logout is told anything but a failure, 200 or 401, the
\* session it asked to end is dead, whatever overtook it: a page that stays
\* signed on after a refused logout (AuthContext.tsx:43-46) does so without
\* a session, and a page that was signed off leaves none.  All this under one
\* secret: a server with another one refuses a session that the next server
\* with the old one finds again.
LogoutKills == \A r \in Requests :
  (/\ call[r].kind = "logout" /\ call[r].token # None
   /\ call[r].status \in {"ok", "unauthorized"})
  => Dead(call[r].token)

\* Who has been shown the login form is signed on by logging in only, not by
\* an answer about who was signed on before (App.tsx:15-17 shows neither form
\* nor buttons while that answer is out).
StaysOut == [][\A b \in Tabs :
  (page[b].at = "login" /\ page'[b].at = "home")
    => \E r \in Calls(b, "login") : call[r].user = page'[b].user]_browserVars
=============================================================================
