----------------------------- MODULE SessionRefresh -----------------------------
(***************************************************************************)
(* The session of a browser: the tabs' API client with its one shared      *)
(* refresh, the auth store with its epoch, the cookies the tabs share, and *)
(* the backend's rotation of refresh tokens.                               *)
(*                                                                         *)
(* Sessions are numbered as they are issued.  Number n stands for all that *)
(* one answer of /auth/login, /auth/register or /auth/refresh carries: the *)
(* access token, the refresh token and the CSRF token n; 0 is "none".      *)
(*                                                                         *)
(* A call is one coroutine of a tab: a request of a page (by request() or  *)
(* requestBlob()), fetchUser, login, register or logout.  A refresh is one *)
(* run of the function in tryRefreshSession, which any number of calls may *)
(* wait for.                                                               *)
(***************************************************************************)
EXTENDS Naturals, Sequences, FiniteSets

CONSTANTS
  Tabs, Users, Calls, Refreshes,
  None,
  FirstUser, FirstTab,  \* whose session the browser starts with, and in which tab
  MaxEvents   \* calls, reloads, lost answers and revocations by an admin (a bound)

ASSUME SessionAssumption ==
  /\ None \notin Tabs \cup Users \cup Calls \cup Refreshes
  /\ FirstUser \in Users /\ FirstTab \in Tabs
  /\ MaxEvents \in Nat

VARIABLES
  cookies,   \* the API's cookies reach it (not so across origins); never changes
  jar,       \* the browser's auth cookies
  store,     \* sessionStorage of each tab: tokens and CSRF
  user, loading, epoch,  \* the auth store of each tab
  inFlight,  \* refreshInFlight of each tab
  call, refresh,
  owner,     \* backend: whose session n is
  live,      \* backend: refresh tokens not revoked
  expired,   \* access tokens up to this number have expired
  events

\* History: the last login (by tab and user), and what happened that may cost a session.
VARIABLES account, mishaps

tabVars    == <<store, user, loading, epoch, inFlight>>
serverVars == <<owner, live, expired>>
history    == <<account, mishaps>>
vars == <<cookies, jar, tabVars, call, refresh, serverVars, events, history>>

Sessions == 0..Len(owner)

Flows    == {"page", "fetch", "login", "register", "logout"}
Requests == {"get", "post", "me", "login", "logout"}

\* Requests that need a session's headers first (AUTH_CSRF_EXEMPT leaves out login).
Mutating == {"post", "logout"}

Idle     == [flow |-> "none", req |-> "none", st |-> "free", tab |-> None, retry |-> FALSE,
             epoch |-> 0, who |-> None, tok |-> 0, csrf |-> FALSE, on |-> None,
             then |-> "none", ans |-> "none"]
Finished == [st |-> "free", tab |-> None, tok |-> 0, new |-> 0]

Init ==
  /\ cookies \in BOOLEAN
  /\ store = [t \in Tabs |-> IF t = FirstTab THEN 1 ELSE 0]
  /\ user = [t \in Tabs |-> IF t = FirstTab THEN FirstUser ELSE None]
  /\ loading = [t \in Tabs |-> t # FirstTab]
  /\ account = [tab |-> FirstTab, user |-> FirstUser]
  /\ jar = IF cookies THEN 1 ELSE 0
  /\ epoch = [t \in Tabs |-> 0]
  /\ inFlight = [t \in Tabs |-> None]
  /\ call = [c \in Calls |-> Idle]
  /\ refresh = [r \in Refreshes |-> Finished]
  /\ owner = <<FirstUser>> /\ live = {1} /\ expired = 0
  /\ events = 0
  /\ mishaps = {}

-----------------------------------------------------------------------------
(* The tab: sending.                                                         *)

\* What a browser sends: the access cookie, while it lasts, goes before the bearer.
Presented(held) == IF jar > expired THEN jar ELSE held

\* Faulty variant: every caller starts a refresh of its own.
TryRefreshAlone(c, rec, held) ==
  \E r \in Refreshes :
    LET tok == IF jar # 0 THEN jar ELSE held IN
    /\ refresh[r] = Finished /\ r = CHOOSE s \in Refreshes : refresh[s] = Finished
    /\ refresh' = [refresh EXCEPT ![r] = [st |-> "sent", tab |-> rec.tab, tok |-> tok, new |-> 0]]
    /\ inFlight' = [inFlight EXCEPT ![rec.tab] = r]
    /\ call' = [call EXCEPT ![c] = [rec EXCEPT !.st = "waiting", !.on = r]]
    /\ mishaps' = IF rec.req = "logout" THEN mishaps \cup {"excused"} ELSE mishaps

\* tryRefreshSession: the call waits for the refresh in flight, or for one it starts.
TryRefresh(c, rec, held) ==
  LET t == rec.tab
      end == IF rec.req = "logout" THEN {"excused"} ELSE {} IN
  IF inFlight[t] # None
  THEN /\ call' = [call EXCEPT ![c] = [rec EXCEPT !.st = "waiting", !.on = inFlight[t]]]
       /\ mishaps' = mishaps \cup end
       /\ UNCHANGED <<refresh, inFlight>>
  ELSE \E r \in Refreshes :
       LET tok == IF jar # 0 THEN jar ELSE held IN
       /\ refresh[r] = Finished /\ r = CHOOSE s \in Refreshes : refresh[s] = Finished
       /\ refresh' = [refresh EXCEPT ![r] = [st |-> "sent", tab |-> t, tok |-> tok, new |-> 0]]
       /\ inFlight' = [inFlight EXCEPT ![t] = r]
       /\ call' = [call EXCEPT ![c] = [rec EXCEPT !.st = "waiting", !.on = r]]
       /\ mishaps' = IF \E s \in Refreshes : refresh[s].st # "free" /\ refresh[s].tok = tok
                                                 /\ refresh[s].tab # t
                     THEN mishaps \cup {"excused"} ELSE mishaps \cup end

Send(c, rec, held) ==
  /\ call' = [call EXCEPT ![c] =
       [rec EXCEPT !.st = "sent", !.on = None, !.then = "none",
          !.tok = CASE rec.req = "logout" -> jar [] rec.req = "login" -> 0
                    [] OTHER -> Presented(held),
          !.csrf = rec.req = "post" /\ (held # 0 \/ jar # 0)]]
  /\ UNCHANGED <<refresh, inFlight, mishaps>>

\* request() and requestBlob(), from the top; held is what the tab has stored by now.
Request(c, rec, held) ==
  IF rec.req \in Mutating /\ held = 0
  THEN TryRefresh(c, [rec EXCEPT !.then = "send"], held)
  ELSE Send(c, rec, held)

\* Continuations run before any other event of the tab.
Quiet(t) == \A c \in Calls : ~(call[c].tab = t /\ call[c].st = "woken")

Start(c, t, flow, req, who, e, held) ==
  /\ events < MaxEvents /\ Quiet(t)
  /\ call[c] = Idle /\ c = CHOOSE d \in Calls : call[d] = Idle
  /\ events' = events + 1
  /\ Request(c, [Idle EXCEPT !.flow = flow, !.req = req, !.tab = t, !.epoch = e,
                             !.who = who], held)

\* A page behind ProtectedRoute asks for data or changes it.
PageRequest(c, t) ==
  /\ user[t] # None
  /\ \E req \in {"get", "post"} : Start(c, t, "page", req, None, 0, store[t])
  /\ UNCHANGED <<cookies, jar, store, user, loading, epoch, serverVars, account>>

\* fetchUser: when the page is loaded, and when the theme is switched in its header.
FetchUser(c, t) ==
  /\ IF loading[t] THEN \A d \in Calls : call[d].tab # t ELSE user[t] # None
  /\ \/ /\ ~cookies /\ store[t] = 0
        /\ Quiet(t)
        /\ user' = [user EXCEPT ![t] = None]
        /\ loading' = [loading EXCEPT ![t] = FALSE]
        /\ UNCHANGED <<call, refresh, inFlight, mishaps, events>>
     \/ /\ cookies \/ store[t] # 0
        /\ Start(c, t, "fetch", "me", None, epoch[t], store[t])
        /\ UNCHANGED <<user, loading>>
  /\ UNCHANGED <<cookies, jar, store, epoch, serverVars, account>>

LoggingIn(t) == \E c \in Calls : call[c].tab = t /\ call[c].flow \in {"login", "register"}

Accounts == {owner[n] : n \in 1..Len(owner)}

\* login and logout begin with clearServerSession, register does not.
Login(c, t) ==
  /\ user[t] = None /\ ~loading[t] /\ ~LoggingIn(t)
  /\ epoch' = [epoch EXCEPT ![t] = @ + 1]
  /\ \E u \in Users :
       \/ /\ store' = [store EXCEPT ![t] = 0]
          /\ Start(c, t, "login", "logout", u, epoch'[t], 0)
       \/ /\ UNCHANGED store /\ u \notin Accounts
          /\ Start(c, t, "register", "login", u, epoch'[t], store[t])
  /\ UNCHANGED <<cookies, jar, user, loading, serverVars, account>>

Logout(c, t) ==
  /\ user[t] # None
  /\ epoch' = [epoch EXCEPT ![t] = @ + 1]
  /\ store' = [store EXCEPT ![t] = 0]
  /\ Start(c, t, "logout", "logout", None, epoch'[t], 0)
  /\ UNCHANGED <<cookies, jar, user, loading, serverVars, account>>

-----------------------------------------------------------------------------
(* The backend.                                                              *)

Issue(u) ==
  /\ owner' = Append(owner, u)
  /\ UNCHANGED expired

\* The dependencies (verify_csrf, which lets /auth/* pass, and get_current_user) and the
\* endpoint of a request.
Serve(c) ==
  LET rec == call[c]
      Unverified == rec.req = "post" /\ ~rec.csrf
      Answer(a) == call' = [call EXCEPT ![c] =
        [rec EXCEPT !.st = "answered", !.ans = a, !.csrf = FALSE,
                    !.tok = IF rec.req = "me" /\ a = "ok" THEN @ ELSE 0]] IN
  /\ rec.st = "sent"
  /\ \/ /\ rec.req \in {"get", "post", "me"}
        /\ Answer(IF Unverified THEN "forbidden"
                  ELSE IF rec.tok > expired THEN "ok" ELSE "unauthorized")
        /\ UNCHANGED serverVars
     \/ /\ rec.req = "logout"
        /\ Answer("ok")
        /\ live' = live \ {rec.tok}
        /\ UNCHANGED <<owner, expired>>
     \/ /\ rec.req = "login"
        /\ Issue(rec.who)
        /\ live' = live \cup {Len(owner')}
        /\ call' = [call EXCEPT ![c].st = "answered", ![c].ans = "ok",
                                ![c].csrf = FALSE, ![c].tok = Len(owner')]
     \/ /\ rec.req = "login" /\ Answer("unauthorized") /\ UNCHANGED serverVars
  /\ UNCHANGED <<cookies, jar, tabVars, refresh, events, history>>

\* rotate_refresh_token: the SELECT of the unrevoked token, later the commit.
RotateRead(r) ==
  /\ refresh[r].st = "sent"
  /\ refresh' = [refresh EXCEPT ![r].st =
       IF refresh[r].tok \in live THEN "read" ELSE "refused"]
  /\ UNCHANGED <<cookies, jar, tabVars, call, serverVars, events, history>>

\* Faulty variant: the new token is answered but its row never added.
RotateCommitUnsaved(r) ==
  /\ refresh[r].st = "read"
  /\ live' = live \ {refresh[r].tok}
  /\ refresh' = [refresh EXCEPT ![r].st = "issued", ![r].new = Len(owner) + 1]
  /\ UNCHANGED <<cookies, jar, tabVars, call, owner, expired, events, history>>

RotateCommit(r) ==
  /\ refresh[r].st = "read"
  /\ Issue(owner[refresh[r].tok])
  /\ live' = (live \ {refresh[r].tok}) \cup {Len(owner')}
  /\ refresh' = [refresh EXCEPT ![r].st = "issued", ![r].new = Len(owner')]
  /\ UNCHANGED <<cookies, jar, tabVars, call, events, history>>

-----------------------------------------------------------------------------
(* The tab: answers.                                                         *)

Waiting(r) == {c \in Calls : call[c].st = "waiting" /\ call[c].on = r}

Wake(r, result) ==
  call' = [c \in Calls |-> IF c \in Waiting(r)
                           THEN [call[c] EXCEPT !.st = "woken", !.on = None, !.ans = result]
                           ELSE call[c]]

\* Faulty variants: the answer sets no cookies; tryRefreshSession has no finally.
RefreshAnsweredNoCookies(r) ==
  LET rec == refresh[r] IN
  /\ rec.st \in {"issued", "refused"} /\ rec.tab # None /\ Quiet(rec.tab)
  /\ store' = IF rec.st = "issued" THEN [store EXCEPT ![rec.tab] = rec.new] ELSE store
  /\ Wake(r, IF rec.st = "issued" THEN "ok" ELSE "refused")
  /\ inFlight' = [inFlight EXCEPT ![rec.tab] = None]
  /\ refresh' = [refresh EXCEPT ![r] = Finished]
  /\ UNCHANGED <<cookies, jar, user, loading, epoch, serverVars, events, history>>

RefreshAnsweredKept(r) ==
  LET rec == refresh[r] IN
  /\ rec.st \in {"issued", "refused"} /\ rec.tab # None /\ Quiet(rec.tab)
  /\ jar' = IF cookies /\ rec.st = "issued" THEN rec.new ELSE jar
  /\ store' = IF rec.st = "issued" THEN [store EXCEPT ![rec.tab] = rec.new] ELSE store
  /\ Wake(r, IF rec.st = "issued" THEN "ok" ELSE "refused")
  /\ refresh' = [refresh EXCEPT ![r] = Finished]
  /\ UNCHANGED <<cookies, user, loading, epoch, inFlight, serverVars, events, history>>

\* The answer of /auth/refresh: cookies, persistAuthTokens, and all that waited go on.
\* A refusal is an HTTPException, which drops the headers clear_auth_cookies has set.
RefreshAnswered(r) ==
  LET rec == refresh[r]
      t == rec.tab IN
  /\ rec.st \in {"issued", "refused"} /\ t # None /\ Quiet(t)
  /\ jar' = IF cookies /\ rec.st = "issued" THEN rec.new ELSE jar
  /\ store' = IF rec.st = "issued" THEN [store EXCEPT ![t] = rec.new] ELSE store
  /\ Wake(r, IF rec.st = "issued" THEN "ok" ELSE "refused")
  /\ inFlight' = [inFlight EXCEPT ![t] = None]
  /\ refresh' = [refresh EXCEPT ![r] = Finished]
  /\ mishaps' = IF rec.st = "issued" /\ owner[rec.new] # account.user
                THEN mishaps \cup {"mixed"} ELSE mishaps
  /\ UNCHANGED <<cookies, user, loading, epoch, serverVars, events, account>>

\* The page is left: its calls are over, what the backend still handles goes unheard.
Unheard(t) ==
  [c \in Calls |->
     IF call[c].tab # t THEN call[c]
     ELSE IF call[c].st = "sent" /\ call[c].req \in {"login", "logout"}
     THEN [Idle EXCEPT !.st = "sent", !.req = call[c].req, !.who = call[c].who,
                       !.tok = call[c].tok]
     ELSE Idle]

LeavePage(t) ==
  /\ call' = Unheard(t)
  /\ refresh' = [r \in Refreshes |-> IF refresh[r].tab = t
                                     THEN [refresh[r] EXCEPT !.tab = None] ELSE refresh[r]]
  /\ inFlight' = [inFlight EXCEPT ![t] = None]
  /\ user' = [user EXCEPT ![t] = None]
  /\ loading' = [loading EXCEPT ![t] = TRUE]
  /\ epoch' = [epoch EXCEPT ![t] = 0]

Finish(c) ==
  /\ call' = [call EXCEPT ![c] = Idle]
  /\ UNCHANGED <<refresh, inFlight, mishaps>>

\* clearClientAuth, 'sppr:auth-lost' and, but on the login page, the way there.
AuthLost(c) ==
  LET t == call[c].tab IN
  /\ store' = [store EXCEPT ![t] = 0]
  /\ mishaps' = mishaps \cup {"dropped"}
  /\ IF user[t] # None
     THEN LeavePage(t)
     ELSE /\ epoch' = [epoch EXCEPT ![t] = @ + 1]
          /\ loading' = [loading EXCEPT ![t] = FALSE]
          /\ call' = [call EXCEPT ![c] = Idle]
          /\ UNCHANGED <<user, refresh, inFlight>>

Current(c) == call[c].epoch = epoch[call[c].tab]

\* set({user, isLoading: false}) at the end of a call.
Show(c, u) ==
  LET t == call[c].tab IN
  /\ user' = [user EXCEPT ![t] = u]
  /\ loading' = [loading EXCEPT ![t] = FALSE]
  /\ call' = [call EXCEPT ![c] = Idle]
  /\ UNCHANGED <<refresh, inFlight>>

\* request() throws: what is left of the call is its catch clause.
Thrown(c) ==
  CASE call[c].flow = "fetch" /\ Current(c) ->
         /\ Show(c, None) /\ UNCHANGED epoch
         /\ mishaps' = IF call[c].ans = "failed" THEN mishaps ELSE mishaps \cup {"dropped"}
    [] call[c].flow \in {"login", "register"} /\ call[c].req = "me" ->
         Show(c, call[c].who) /\ UNCHANGED <<epoch, mishaps>>
    [] OTHER -> Finish(c) /\ UNCHANGED <<user, loading, epoch>>

\* A page's request() gives the session up, its requestBlob() and fetchUser only throw.
Refused(c) ==
  \/ call[c].flow = "page" /\ AuthLost(c)
  \/ Thrown(c) /\ UNCHANGED store

\* A request answered 401 or 403 (CSRF) is tried again once, after a refresh.
TryAgain(c) ==
  LET rec == call[c] IN
  /\ rec.st = "answered" /\ rec.tab # None /\ Quiet(rec.tab)
  /\ rec.ans \in {"unauthorized", "forbidden"} /\ rec.req # "login" /\ ~rec.retry
  /\ TryRefresh(c, [rec EXCEPT !.then = rec.ans, !.ans = "none", !.tok = 0], store[rec.tab])
  /\ UNCHANGED <<cookies, jar, store, user, loading, epoch, serverVars, events, account>>

GiveUp(c) ==
  LET rec == call[c] IN
  /\ rec.tab # None
  /\ \/ /\ rec.st = "answered" /\ Quiet(rec.tab)
        /\ rec.ans \in {"unauthorized", "forbidden"} /\ (rec.req = "login" \/ rec.retry)
     \/ rec.st = "woken" /\ rec.then \in {"unauthorized", "forbidden"} /\ rec.ans = "refused"
  /\ IF "forbidden" \in {rec.ans, rec.then}
     THEN Finish(c) /\ UNCHANGED <<store, user, loading, epoch>>
     ELSE Refused(c)
  /\ UNCHANGED <<cookies, jar, serverVars, events, account>>

\* The refresh a call waited for is over: on with the request, or once more from its top.
GoOn(c) ==
  LET rec == [call[c] EXCEPT !.ans = "none"]
      t == rec.tab IN
  /\ call[c].st = "woken"
  /\ \/ rec.then = "send" /\ Send(c, rec, store[t])
     \/ /\ rec.then \in {"unauthorized", "forbidden"} /\ call[c].ans = "ok"
        /\ Request(c, [rec EXCEPT !.retry = TRUE], store[t])
  /\ UNCHANGED <<cookies, jar, tabVars, serverVars, events, account>>

PageAnswered(c) ==
  /\ call[c].flow = "page"
  /\ Finish(c)
  /\ UNCHANGED <<jar, store, user, loading, epoch, account>>

\* Faulty variant: fetchUser does not look at the epoch.
UserFetchedAnyhow(c) ==
  LET rec == call[c] IN
  /\ rec.flow = "fetch"
  /\ \/ /\ store[rec.tab] = 0 /\ rec.st = "answered"
        /\ TryRefresh(c, [rec EXCEPT !.then = "sync", !.who = owner[rec.tok],
                                     !.ans = "none", !.tok = 0], 0)
        /\ UNCHANGED <<user, loading>>
     \/ /\ store[rec.tab] # 0 \/ rec.st = "woken"
        /\ Show(c, IF rec.st = "woken" THEN rec.who ELSE owner[rec.tok])
        /\ UNCHANGED mishaps
  /\ UNCHANGED <<jar, store, epoch, account>>

\* fetchUser after me(): the epoch is looked at before and after syncClientAuthSession.
UserFetched(c) ==
  LET rec == call[c] IN
  /\ rec.flow = "fetch"
  /\ \/ ~Current(c) /\ Finish(c) /\ UNCHANGED <<user, loading>>
     \/ /\ Current(c) /\ store[rec.tab] = 0 /\ rec.st = "answered"
        /\ TryRefresh(c, [rec EXCEPT !.then = "sync", !.who = owner[rec.tok],
                                     !.ans = "none", !.tok = 0], 0)
        /\ UNCHANGED <<user, loading>>
     \/ /\ Current(c) /\ (store[rec.tab] # 0 \/ rec.st = "woken")
        /\ Show(c, IF rec.st = "woken" THEN rec.who ELSE owner[rec.tok])
        /\ UNCHANGED mishaps
  /\ UNCHANGED <<jar, store, epoch, account>>

\* login after clearServerSession, which swallows what request() throws.
SessionCleared(c) ==
  LET rec == call[c] IN
  /\ rec.flow = "login" /\ rec.req = "logout"
  /\ jar' = IF cookies /\ rec.ans = "ok" THEN 0 ELSE jar
  /\ Send(c, [rec EXCEPT !.req = "login", !.ans = "none"], store[rec.tab])
  /\ UNCHANGED <<store, user, loading, epoch, account>>

\* applyAuthSession, then confirmSession unless another login or logout came between.
LoggedIn(c) ==
  LET rec == call[c]
      t == rec.tab IN
  /\ rec.flow \in {"login", "register"} /\ rec.req = "login"
  /\ jar' = IF cookies THEN rec.tok ELSE jar
  /\ store' = [store EXCEPT ![t] = rec.tok]
  /\ account' = [tab |-> t, user |-> rec.who]
  /\ IF Current(c)
     THEN /\ call' = [call EXCEPT ![c] = [rec EXCEPT !.req = "me", !.ans = "none", !.st = "sent"]]
          /\ UNCHANGED <<refresh, inFlight, mishaps>>
     ELSE Finish(c)
  /\ UNCHANGED <<user, loading, epoch>>

Confirmed(c) ==
  LET rec == call[c] IN
  /\ rec.flow \in {"login", "register"} /\ rec.req = "me"
  /\ Show(c, IF Current(c) THEN owner[rec.tok] ELSE rec.who)
  /\ UNCHANGED <<jar, store, epoch, history>>

LoggedOut(c) ==
  LET rec == call[c] IN
  /\ rec.flow = "logout"
  /\ jar' = IF cookies /\ rec.ans = "ok" THEN 0 ELSE jar
  /\ Show(c, None)
  /\ UNCHANGED <<store, epoch, history>>

Answered(c) ==
  LET rec == call[c] IN
  /\ rec.tab # None
  /\ \/ rec.st = "answered" /\ rec.ans = "ok" /\ Quiet(rec.tab)
     \/ rec.st = "woken" /\ rec.then = "sync"
     \/ rec.st = "answered" /\ rec.ans = "failed" /\ rec.req = "logout" /\ Quiet(rec.tab)
  /\ \/ PageAnswered(c) \/ UserFetched(c) \/ SessionCleared(c)
     \/ LoggedIn(c) \/ Confirmed(c) \/ LoggedOut(c)
  /\ UNCHANGED <<cookies, serverVars, events>>

-----------------------------------------------------------------------------
(* Faults, time, and answers nobody waits for.                               *)

Fault == events < MaxEvents /\ events' = events + 1

\* A request fails or runs into REQUEST_TIMEOUT_MS, before or after it is served.
CallFails(c) ==
  LET rec == call[c] IN
  /\ rec.tab # None /\ rec.st \in {"sent", "answered"} /\ rec.ans # "failed"
  /\ Quiet(rec.tab)
  /\ Fault
  /\ call' = [call EXCEPT ![c] = [rec EXCEPT !.st = "answered", !.ans = "failed", !.tok = 0]]
  /\ UNCHANGED <<cookies, jar, tabVars, refresh, serverVars, history>>

FailureHandled(c) ==
  LET rec == call[c] IN
  /\ rec.ans = "failed" /\ rec.req # "logout" /\ Quiet(rec.tab)
  /\ Thrown(c)
  /\ UNCHANGED <<cookies, jar, store, serverVars, events, account>>

RefreshFails(r) ==
  LET t == refresh[r].tab IN
  /\ refresh[r].st # "free" /\ t # None /\ Quiet(t)
  /\ Fault
  /\ Wake(r, "refused")
  /\ inFlight' = [inFlight EXCEPT ![t] = None]
  /\ refresh' = [refresh EXCEPT ![r] = Finished]
  /\ mishaps' = mishaps \cup {"excused"}
  /\ UNCHANGED <<cookies, jar, store, user, loading, epoch, serverVars, account>>

\* The answer to a page that has been left (the cookies go with it).
Unwanted ==
  /\ \/ /\ UNCHANGED <<refresh, mishaps>>
        /\ \E c \in Calls : /\ call[c].tab = None /\ call[c].st = "answered"
                            /\ call' = [call EXCEPT ![c] = Idle]
     \/ /\ UNCHANGED call
        /\ \E r \in Refreshes :
             /\ refresh[r].tab = None /\ refresh[r].st \in {"issued", "refused"}
             /\ refresh' = [refresh EXCEPT ![r] = Finished]
             /\ mishaps' = mishaps \cup {"excused"}
  /\ UNCHANGED <<cookies, jar, tabVars, serverVars, events, account>>

Reload(t) ==
  /\ ~loading[t]
  /\ Fault
  /\ LeavePage(t)
  /\ UNCHANGED <<cookies, jar, store, serverVars, history>>

\* What a retry carries or is about to carry.
Fresh ==
  {refresh[r].new : r \in Refreshes} \cup {call[c].tok : c \in {d \in Calls : call[d].retry}}
    \cup {store[t] : t \in {x \in Tabs : ~Quiet(x)}}

\* The oldest access token expires.  Its hour is longer than a refresh and a retry take.
Expire ==
  /\ expired < Len(owner) /\ expired + 1 \notin Fresh
  /\ expired' = expired + 1
  /\ UNCHANGED <<cookies, jar, tabVars, call, refresh, owner, live, events, history>>

\* revoke_all_user_refresh_tokens, and refresh tokens past their seven days.
Revoke ==
  /\ Fault
  /\ live' = {}
  /\ mishaps' = mishaps \cup {"excused"}
  /\ UNCHANGED <<cookies, jar, tabVars, call, refresh, owner, expired, account>>

-----------------------------------------------------------------------------

\* The backend serves what it gets and the tabs' event loops run what is ready: while
\* some call or refresh can go on, one of them does.
Work ==
  \/ \E c \in Calls :
       Serve(c) \/ TryAgain(c) \/ GiveUp(c) \/ GoOn(c) \/ Answered(c) \/ FailureHandled(c)
  \/ \E r \in Refreshes : RotateRead(r) \/ RotateCommit(r) \/ RefreshAnswered(r)
  \/ Unwanted

Next ==
  \/ \E c \in Calls, t \in Tabs :
       PageRequest(c, t) \/ FetchUser(c, t) \/ Login(c, t) \/ Logout(c, t)
  \/ Work
  \/ \E c \in Calls : CallFails(c)
  \/ \E r \in Refreshes : RefreshFails(r)
  \/ \E t \in Tabs : Reload(t)
  \/ Expire \/ Revoke

Spec == Init /\ [][Next]_vars

FairSpec == Spec /\ WF_vars(Work)

-----------------------------------------------------------------------------
(* Properties.                                                               *)

CallType ==
  [flow : Flows \cup {"none"}, req : Requests \cup {"none"},
   st : {"free", "waiting", "woken", "sent", "answered"}, tab : Tabs \cup {None},
   retry : BOOLEAN, epoch : Nat, who : Users \cup {None}, tok : Nat, csrf : BOOLEAN,
   on : Refreshes \cup {None}, then : {"none", "send", "sync", "unauthorized", "forbidden"},
   ans : {"none", "ok", "unauthorized", "forbidden", "failed", "refused"}]

RefreshType ==
  [st : {"free", "sent", "read", "issued", "refused"}, tab : Tabs \cup {None},
   tok : Nat, new : Nat]

\* Everything has its type, and a session is known by its number only once it is issued.
TypeOK ==
  /\ cookies \in BOOLEAN /\ jar \in Sessions
  /\ store \in [Tabs -> Sessions] /\ user \in [Tabs -> Users \cup {None}]
  /\ loading \in [Tabs -> BOOLEAN] /\ epoch \in [Tabs -> Nat]
  /\ inFlight \in [Tabs -> Refreshes \cup {None}]
  /\ call \in [Calls -> CallType] /\ \A c \in Calls : call[c].tok \in Sessions
  /\ refresh \in [Refreshes -> RefreshType]
  /\ \A r \in Refreshes : refresh[r].tok \in Sessions /\ refresh[r].new \in Sessions
  /\ owner \in Seq(Users) /\ live \subseteq 1..Len(owner) /\ expired \in Sessions
  /\ events \in 0..MaxEvents
  /\ account \in [tab : Tabs, user : Users]
  /\ mishaps \subseteq {"excused", "mixed", "dropped"}

\* A tab gives its session up (redirects to the login page, or shows nobody because /me
\* was answered 401) only after a logout or a revocation, after an answer of /auth/refresh
\* got lost, or after two tabs presented one refresh token at once: many calls answered 401
\* at the same time do not cost the session (tryRefreshSession, request).  A /me that fails
\* for another reason shows nobody as well (fetchUser), but the session is still there.
SessionKept == "dropped" \in mishaps => "excused" \in mishaps

\* A tab has at most one refresh of its own under way, the one in refreshInFlight, and
\* every call that waits for a refresh waits for that one: none is left behind when the
\* page is left, a refresh fails or another begins (finally of tryRefreshSession).
WaitersShareRefresh ==
  /\ \A r \in Refreshes : refresh[r].tab # None => inFlight[refresh[r].tab] = r
  /\ \A c \in Calls : call[c].st = "waiting" =>
       /\ call[c].tab \in Tabs
       /\ call[c].on = inFlight[call[c].tab]
       /\ call[c].on \in Refreshes /\ refresh[call[c].on].tab = call[c].tab

\* The tab of the last login shows that user or nobody, whatever fetchUser and confirm
\* answers of earlier sessions arrive late (authEpoch), unless the refresh of an earlier
\* session was answered after the login.
ShownUserRight ==
  "mixed" \notin mishaps => user[account.tab] \in {None, account.user}

\* The cookie the browser holds can be exchanged for another, or the answer with its
\* successor is on the way, with the same exceptions as above.
CookieGood ==
  cookies /\ "excused" \notin mishaps =>
    \/ jar \in live
    \/ \E r \in Refreshes : refresh[r].st = "issued" /\ refresh[r].tok = jar

\* Every call ends: nobody waits for good for a refresh that others share.
CallsEnd == \A c \in Calls : []<>(call[c].st = "free")

\* "End server session and local CSRF (switch account / logout)": after a logout the
\* tab holds no tokens.
LogoutClearsTab ==
  [][\A c \in Calls :
       call[c].flow = "logout" /\ call[c].ans = "ok" /\ call'[c] = Idle
         => loading'[call[c].tab] \/ store'[call[c].tab] = 0]_vars
=============================================================================
