-------------------------- MODULE SessionRefresh_proofs ------------------------
(* The session of a browser, for any number of tabs, calls, refreshes, users   *)
(* and faults: the calls of a tab share one refresh; whose session a tab       *)
(* shows; no session is lost without a cause.                                  *)
EXTENDS SessionRefresh, TLAPS

-------------------------------------------------------------------------------
(* The calls of a tab share one refresh.                                      *)

\* A record of a call, and of a refresh, as far as the sharing is concerned.
IsCall(rec) == {"st", "tab", "on"} \subseteq DOMAIN rec /\ rec.tab \in Tabs \cup {None}
IsRefresh(rec) == "tab" \in DOMAIN rec /\ rec.tab \in Tabs \cup {None}

Shaped ==
  /\ DOMAIN call = Calls /\ \A c \in Calls : IsCall(call[c])
  /\ DOMAIN refresh = Refreshes /\ \A r \in Refreshes : IsRefresh(refresh[r])
  /\ DOMAIN inFlight = Tabs

\* A continuation runs in the tab that waited.
WokenInTab == \A c \in Calls : call[c].st = "woken" => call[c].tab \in Tabs

\* refreshInFlight is a refresh of the tab.
InFlightOwn ==
  \A t \in Tabs : inFlight[t] # None => inFlight[t] \in Refreshes /\ refresh[inFlight[t]].tab = t

\* The inductive invariant.
ShareInv == Shaped /\ WokenInTab /\ InFlightOwn /\ WaitersShareRefresh

-------------------------------------------------------------------------------
(* What the steps are made of.                                                *)

LEMMA NoneApart == None \notin Tabs /\ None \notin Refreshes
  BY SessionAssumption

LEMMA Constants ==
  /\ IsCall(Idle) /\ Idle.st = "free" /\ Idle.tab = None
  /\ IsRefresh(Finished) /\ Finished.tab = None
  BY DEF Idle, Finished, IsCall, IsRefresh

\* No refresh begins or ends, and nobody begins to wait.
LEMMA NobodyWaits ==
  ASSUME ShareInv, UNCHANGED <<refresh, inFlight>>,
         DOMAIN call' = Calls, \A c \in Calls : IsCall(call'[c]),
         \A c \in Calls :
           \/ call'[c] = call[c]
           \/ call'[c].st \notin {"waiting", "woken"}
  PROVE  ShareInv'
<1>1. Shaped' /\ InFlightOwn'
  BY DEF ShareInv, Shaped, InFlightOwn
<1>2. WokenInTab'
  BY DEF ShareInv, WokenInTab
<1>3. WaitersShareRefresh'
  BY DEF ShareInv, WaitersShareRefresh
<1>4. QED
  BY <1>1, <1>2, <1>3 DEF ShareInv

\* One call changes, and does not wait afterwards.
LEMMA OneCall ==
  ASSUME ShareInv, UNCHANGED <<refresh, inFlight>>, NEW c \in Calls, NEW rec, IsCall(rec),
         rec.st \notin {"waiting", "woken"}, call' = [call EXCEPT ![c] = rec]
  PROVE  ShareInv'
<1>1. DOMAIN call' = Calls /\ call'[c] = rec /\ \A d \in Calls \ {c} : call'[d] = call[d]
  BY DEF ShareInv, Shaped
<1>2. \A d \in Calls : IsCall(call'[d])
  BY <1>1 DEF ShareInv, Shaped
<1>3. QED
  BY <1>1, <1>2, NobodyWaits

\* A call begins to wait for the refresh in flight.
LEMMA Joins ==
  ASSUME ShareInv, UNCHANGED <<refresh, inFlight>>, NEW c \in Calls, NEW rec, IsCall(rec),
         rec.tab \in Tabs, rec.st = "waiting", inFlight[rec.tab] # None, rec.on = inFlight[rec.tab],
         call' = [call EXCEPT ![c] = rec]
  PROVE  ShareInv'
<1>1. DOMAIN call' = Calls /\ call'[c] = rec /\ \A d \in Calls \ {c} : call'[d] = call[d]
  BY DEF ShareInv, Shaped
<1>2. \A d \in Calls : IsCall(call'[d])
  BY <1>1 DEF ShareInv, Shaped
<1>3. Shaped' /\ InFlightOwn'
  BY <1>1, <1>2 DEF ShareInv, Shaped, InFlightOwn
<1>4. WokenInTab'
  BY <1>1 DEF ShareInv, WokenInTab
<1>5. rec.on \in Refreshes /\ refresh[rec.on].tab = rec.tab
  BY DEF ShareInv, InFlightOwn
<1>6. WaitersShareRefresh'
  BY <1>1, <1>5 DEF ShareInv, WaitersShareRefresh
<1>7. QED
  BY <1>3, <1>4, <1>6 DEF ShareInv

\* A call begins to wait for the refresh it starts.
LEMMA Starts ==
  ASSUME ShareInv, NEW c \in Calls, NEW rec, IsCall(rec), NEW r \in Refreshes, NEW new,
         rec.tab \in Tabs, rec.st = "waiting", inFlight[rec.tab] = None, rec.on = r,
         refresh[r].tab = None, IsRefresh(new), new.tab = rec.tab,
         call' = [call EXCEPT ![c] = rec],
         refresh' = [refresh EXCEPT ![r] = new],
         inFlight' = [inFlight EXCEPT ![rec.tab] = r]
  PROVE  ShareInv'
<1>1. DOMAIN call' = Calls /\ call'[c] = rec /\ \A d \in Calls \ {c} : call'[d] = call[d]
  BY DEF ShareInv, Shaped
<1>2. /\ DOMAIN refresh' = Refreshes /\ refresh'[r] = new
      /\ \A s \in Refreshes \ {r} : refresh'[s] = refresh[s]
  BY DEF ShareInv, Shaped
<1>3. /\ DOMAIN inFlight' = Tabs /\ inFlight'[rec.tab] = r
      /\ \A t \in Tabs \ {rec.tab} : inFlight'[t] = inFlight[t]
  BY DEF ShareInv, Shaped
<1>4. Shaped'
  BY <1>1, <1>2, <1>3 DEF ShareInv, Shaped
<1>5. WokenInTab'
  BY <1>1 DEF ShareInv, WokenInTab
<1>6. \A t \in Tabs : inFlight[t] # r
  BY NoneApart DEF ShareInv, InFlightOwn
<1>7. InFlightOwn'
  BY <1>2, <1>3, <1>6 DEF ShareInv, InFlightOwn
<1>8. \A s \in Refreshes \ {r} : refresh[s].tab # None => refresh[s].tab # rec.tab
  BY NoneApart DEF ShareInv, WaitersShareRefresh
<1>9. ASSUME NEW s \in Refreshes, refresh'[s].tab # None PROVE inFlight'[refresh'[s].tab] = s
  <2>1. CASE s = r
    BY <1>2, <1>3, <2>1
  <2>2. CASE s # r
    <3>1. refresh[s].tab \in Tabs \ {rec.tab} /\ inFlight[refresh[s].tab] = s
      BY <1>2, <1>8, <1>9, <2>2 DEF ShareInv, Shaped, IsRefresh, WaitersShareRefresh
    <3>2. QED
      BY <1>2, <1>3, <2>2, <3>1
  <2>3. QED
    BY <2>1, <2>2
<1>10. ASSUME NEW d \in Calls, call'[d].st = "waiting"
       PROVE  /\ call'[d].tab \in Tabs
              /\ call'[d].on = inFlight'[call'[d].tab]
              /\ call'[d].on \in Refreshes /\ refresh'[call'[d].on].tab = call'[d].tab
  <2>1. CASE d = c
    BY <1>1, <1>2, <1>3, <2>1
  <2>2. CASE d # c
    <3>1. /\ call[d].tab \in Tabs /\ call[d].on = inFlight[call[d].tab]
          /\ call[d].on \in Refreshes /\ refresh[call[d].on].tab = call[d].tab
      BY <1>1, <1>10, <2>2 DEF ShareInv, WaitersShareRefresh
    <3>2. call[d].tab # rec.tab /\ call[d].on # r
      BY <3>1, <1>6, NoneApart
    <3>3. QED
      BY <1>1, <1>2, <1>3, <2>2, <3>1, <3>2
  <2>3. QED
    BY <2>1, <2>2
<1>11. WaitersShareRefresh'
  BY <1>9, <1>10 DEF WaitersShareRefresh
<1>12. QED
  BY <1>4, <1>5, <1>7, <1>11 DEF ShareInv

\* A refresh goes on in the backend, or one that no tab waits for is over.
LEMMA RefreshGoesOn ==
  ASSUME ShareInv, UNCHANGED <<call, inFlight>>, NEW r \in Refreshes, NEW new,
         "tab" \in DOMAIN new, new.tab = refresh[r].tab, refresh' = [refresh EXCEPT ![r] = new]
  PROVE  ShareInv'
<1>1. /\ DOMAIN refresh' = Refreshes
      /\ \A s \in Refreshes : "tab" \in DOMAIN refresh'[s] /\ refresh'[s].tab = refresh[s].tab
  BY DEF ShareInv, Shaped, IsRefresh
<1>2. Shaped'
  BY <1>1 DEF ShareInv, Shaped, IsRefresh
<1>3. WokenInTab' /\ InFlightOwn'
  BY <1>1 DEF ShareInv, WokenInTab, InFlightOwn
<1>4. WaitersShareRefresh'
  BY <1>1 DEF ShareInv, WaitersShareRefresh
<1>5. QED
  BY <1>2, <1>3, <1>4 DEF ShareInv

\* A refresh is answered: all that waited for it are woken.
LEMMA RefreshOver ==
  ASSUME ShareInv, NEW r \in Refreshes, NEW t \in Tabs, refresh[r].tab = t, NEW result,
         Wake(r, result), inFlight' = [inFlight EXCEPT ![t] = None],
         refresh' = [refresh EXCEPT ![r] = Finished]
  PROVE  ShareInv'
<1>1. /\ DOMAIN refresh' = Refreshes /\ refresh'[r] = Finished
      /\ \A s \in Refreshes \ {r} : refresh'[s] = refresh[s]
  BY DEF ShareInv, Shaped
<1>2. /\ DOMAIN inFlight' = Tabs /\ inFlight'[t] = None
      /\ \A u \in Tabs \ {t} : inFlight'[u] = inFlight[u]
  BY DEF ShareInv, Shaped
<1>3. DOMAIN call' = Calls
  BY DEF Wake
<1>4. ASSUME NEW c \in Calls, call[c].st = "waiting", call[c].on = r
      PROVE  IsCall(call'[c]) /\ call'[c].st = "woken" /\ call'[c].tab \in Tabs
  <2>1. call'[c] = [call[c] EXCEPT !.st = "woken", !.on = None, !.ans = result]
    BY <1>4 DEF Wake, Waiting
  <2>2. IsCall(call[c]) /\ call[c].tab \in Tabs
    BY <1>4 DEF ShareInv, Shaped, WaitersShareRefresh
  <2>3. QED
    BY <2>1, <2>2 DEF IsCall
<1>5. ASSUME NEW c \in Calls, ~(call[c].st = "waiting" /\ call[c].on = r)
      PROVE  call'[c] = call[c]
  BY <1>5 DEF Wake, Waiting
<1>6. Shaped'
  BY <1>1, <1>2, <1>3, <1>4, <1>5, Constants DEF ShareInv, Shaped
<1>7. WokenInTab'
  BY <1>4, <1>5 DEF ShareInv, WokenInTab
<1>8. inFlight[t] = r
  BY NoneApart DEF ShareInv, WaitersShareRefresh
<1>9. InFlightOwn'
  BY <1>1, <1>2 DEF ShareInv, InFlightOwn
<1>10. ASSUME NEW s \in Refreshes, refresh'[s].tab # None PROVE inFlight'[refresh'[s].tab] = s
  <2>1. s # r /\ refresh'[s] = refresh[s]
    BY <1>1, <1>10, Constants
  <2>2. refresh[s].tab \in Tabs /\ inFlight[refresh[s].tab] = s
    BY <2>1, <1>10 DEF ShareInv, Shaped, IsRefresh, WaitersShareRefresh
  <2>3. refresh[s].tab # t
    BY <1>8, <2>1, <2>2
  <2>4. QED
    BY <1>2, <2>1, <2>2, <2>3
<1>11. ASSUME NEW c \in Calls, call'[c].st = "waiting"
       PROVE  /\ call'[c].tab \in Tabs
              /\ call'[c].on = inFlight'[call'[c].tab]
              /\ call'[c].on \in Refreshes /\ refresh'[call'[c].on].tab = call'[c].tab
  <2>1. call'[c] = call[c] /\ call[c].on # r
    BY <1>4, <1>5, <1>11
  <2>2. /\ call[c].tab \in Tabs /\ call[c].on = inFlight[call[c].tab]
        /\ call[c].on \in Refreshes /\ refresh[call[c].on].tab = call[c].tab
    BY <1>11, <2>1 DEF ShareInv, WaitersShareRefresh
  <2>3. call[c].tab # t
    BY <1>8, <2>1, <2>2
  <2>4. QED
    BY <1>1, <1>2, <2>1, <2>2, <2>3
<1>12. WaitersShareRefresh'
  BY <1>10, <1>11 DEF WaitersShareRefresh
<1>13. QED
  BY <1>6, <1>7, <1>9, <1>12 DEF ShareInv

\* The page is left: its refreshes and its calls belong to no tab any more.
LEMMA PageLeft == ASSUME ShareInv, NEW t \in Tabs, LeavePage(t) PROVE ShareInv'
<1>1. /\ DOMAIN refresh' = Refreshes
      /\ \A r \in Refreshes : IF refresh[r].tab = t THEN refresh'[r].tab = None
                                                    ELSE refresh'[r] = refresh[r]
      /\ \A r \in Refreshes : IsRefresh(refresh'[r])
  BY DEF LeavePage, ShareInv, Shaped, IsRefresh
<1>2. /\ DOMAIN inFlight' = Tabs /\ inFlight'[t] = None
      /\ \A u \in Tabs \ {t} : inFlight'[u] = inFlight[u]
  BY DEF LeavePage, ShareInv, Shaped
<1>3. DOMAIN call' = Calls
  BY DEF LeavePage, Unheard
<1>4. ASSUME NEW c \in Calls, call[c].tab # t PROVE call'[c] = call[c]
  BY <1>4 DEF LeavePage, Unheard
<1>5. ASSUME NEW c \in Calls, call[c].tab = t
      PROVE  IsCall(call'[c]) /\ call'[c].st \notin {"waiting", "woken"}
  <2>1. \/ call'[c] = Idle
        \/ call'[c] = [Idle EXCEPT !.st = "sent", !.req = call[c].req, !.who = call[c].who,
                                   !.tok = call[c].tok]
    BY <1>5 DEF LeavePage, Unheard
  <2>2. QED
    BY <2>1, Constants DEF IsCall
<1>6. Shaped'
  BY <1>1, <1>2, <1>3, <1>4, <1>5 DEF ShareInv, Shaped
<1>7. WokenInTab'
  BY <1>4, <1>5 DEF ShareInv, WokenInTab
<1>8. InFlightOwn'
  BY <1>1, <1>2 DEF ShareInv, InFlightOwn
<1>9. ASSUME NEW r \in Refreshes, refresh'[r].tab # None PROVE inFlight'[refresh'[r].tab] = r
  <2>1. refresh[r].tab # t /\ refresh'[r] = refresh[r]
    BY <1>1, <1>9
  <2>2. refresh[r].tab \in Tabs /\ inFlight[refresh[r].tab] = r
    BY <2>1, <1>9 DEF ShareInv, Shaped, IsRefresh, WaitersShareRefresh
  <2>3. QED
    BY <1>2, <2>1, <2>2
<1>10. ASSUME NEW c \in Calls, call'[c].st = "waiting"
       PROVE  /\ call'[c].tab \in Tabs
              /\ call'[c].on = inFlight'[call'[c].tab]
              /\ call'[c].on \in Refreshes /\ refresh'[call'[c].on].tab = call'[c].tab
  <2>1. call'[c] = call[c] /\ call[c].tab # t
    BY <1>4, <1>5, <1>10
  <2>2. /\ call[c].tab \in Tabs /\ call[c].on = inFlight[call[c].tab]
        /\ call[c].on \in Refreshes /\ refresh[call[c].on].tab = call[c].tab
    BY <1>10, <2>1 DEF ShareInv, WaitersShareRefresh
  <2>3. QED
    BY <1>1, <1>2, <2>1, <2>2
<1>11. WaitersShareRefresh'
  BY <1>9, <1>10 DEF WaitersShareRefresh
<1>12. QED
  BY <1>6, <1>7, <1>8, <1>11 DEF ShareInv

-------------------------------------------------------------------------------
(* The operators the actions share.                                           *)

LEMMA TryRefreshShares ==
  ASSUME ShareInv, NEW c \in Calls, NEW rec, IsCall(rec), rec.tab \in Tabs, NEW held,
         TryRefresh(c, rec, held)
  PROVE  ShareInv'
<1>1. CASE inFlight[rec.tab] # None
  <2> DEFINE new == [rec EXCEPT !.st = "waiting", !.on = inFlight[rec.tab]]
  <2>1. call' = [call EXCEPT ![c] = new] /\ UNCHANGED <<refresh, inFlight>>
    BY <1>1 DEF TryRefresh
  <2>2. IsCall(new) /\ new.tab = rec.tab /\ new.st = "waiting" /\ new.on = inFlight[rec.tab]
    BY DEF IsCall
  <2> HIDE DEF new
  <2>3. QED
    BY <1>1, <2>1, <2>2, Joins
<1>2. CASE inFlight[rec.tab] = None
  <2>1. PICK r \in Refreshes : \E tok :
          /\ refresh[r] = Finished
          /\ refresh' = [refresh EXCEPT ![r] = [st |-> "sent", tab |-> rec.tab, tok |-> tok, new |-> 0]]
          /\ inFlight' = [inFlight EXCEPT ![rec.tab] = r]
          /\ call' = [call EXCEPT ![c] = [rec EXCEPT !.st = "waiting", !.on = r]]
    BY <1>2 DEF TryRefresh
  <2>2. PICK tok :
          refresh' = [refresh EXCEPT ![r] = [st |-> "sent", tab |-> rec.tab, tok |-> tok, new |-> 0]]
    BY <2>1
  <2> DEFINE new == [rec EXCEPT !.st = "waiting", !.on = r]
             started == [st |-> "sent", tab |-> rec.tab, tok |-> tok, new |-> 0]
  <2>3. IsCall(new) /\ new.tab = rec.tab /\ new.st = "waiting" /\ new.on = r
    BY DEF IsCall
  <2>4. IsRefresh(started) /\ started.tab = rec.tab
    BY DEF IsRefresh
  <2>5. /\ call' = [call EXCEPT ![c] = new] /\ refresh' = [refresh EXCEPT ![r] = started]
        /\ inFlight' = [inFlight EXCEPT ![new.tab] = r]
    BY <2>1, <2>2, <2>3
  <2>6. refresh[r].tab = None
    BY <2>1, Constants
  <2> HIDE DEF new, started
  <2>7. QED
    BY <1>2, <2>3, <2>4, <2>5, <2>6, Starts
<1>3. QED
  BY <1>1, <1>2

LEMMA SendShares ==
  ASSUME ShareInv, NEW c \in Calls, NEW rec, IsCall(rec), NEW held, Send(c, rec, held)
  PROVE  ShareInv'
<1>1. PICK x, y : call' = [call EXCEPT ![c] =
        [rec EXCEPT !.st = "sent", !.on = None, !.then = "none", !.tok = x, !.csrf = y]]
  BY DEF Send
<1> DEFINE new == [rec EXCEPT !.st = "sent", !.on = None, !.then = "none", !.tok = x, !.csrf = y]
<1>2. IsCall(new) /\ new.st = "sent" /\ call' = [call EXCEPT ![c] = new]
  BY <1>1 DEF IsCall
<1>3. UNCHANGED <<refresh, inFlight>>
  BY DEF Send
<1> HIDE DEF new
<1>4. QED
  BY <1>2, <1>3, OneCall

LEMMA RequestShares ==
  ASSUME ShareInv, NEW c \in Calls, NEW rec, IsCall(rec), rec.tab \in Tabs, NEW held,
         Request(c, rec, held)
  PROVE  ShareInv'
<1>1. CASE TryRefresh(c, [rec EXCEPT !.then = "send"], held)
  <2>1. /\ IsCall([rec EXCEPT !.then = "send"])
        /\ [rec EXCEPT !.then = "send"].tab = rec.tab
    BY DEF IsCall
  <2>2. QED
    BY <1>1, <2>1, TryRefreshShares
<1>2. CASE Send(c, rec, held)
  BY <1>2, SendShares
<1>3. QED
  BY <1>1, <1>2 DEF Request

LEMMA StartShares ==
  ASSUME ShareInv, NEW c \in Calls, NEW t \in Tabs, NEW flow, NEW req, NEW who, NEW e, NEW held,
         Start(c, t, flow, req, who, e, held)
  PROVE  ShareInv'
<1> DEFINE rec == [Idle EXCEPT !.flow = flow, !.req = req, !.tab = t, !.epoch = e, !.who = who]
<1>1. IsCall(rec) /\ rec.tab = t
  BY Constants DEF IsCall
<1>2. Request(c, rec, held)
  BY DEF Start
<1> HIDE DEF rec
<1>3. QED
  BY <1>1, <1>2, RequestShares

LEMMA CallOver ==
  ASSUME ShareInv, NEW c \in Calls, UNCHANGED <<refresh, inFlight>>, call' = [call EXCEPT ![c] = Idle]
  PROVE  ShareInv'
  BY Constants, OneCall

LEMMA ThrownShares == ASSUME ShareInv, NEW c \in Calls, Thrown(c) PROVE ShareInv'
  BY CallOver DEF Thrown, Show, Finish

-------------------------------------------------------------------------------
(* The actions.                                                               *)

LEMMA BeginShares ==
  ASSUME ShareInv, NEW c \in Calls, NEW t \in Tabs,
         PageRequest(c, t) \/ FetchUser(c, t) \/ Login(c, t) \/ Logout(c, t)
  PROVE  ShareInv'
<1>1. CASE PageRequest(c, t)
  BY <1>1, StartShares DEF PageRequest
<1>2. CASE FetchUser(c, t)
  <2>1. \/ UNCHANGED <<call, refresh, inFlight>>
        \/ Start(c, t, "fetch", "me", None, epoch[t], store[t])
    BY <1>2 DEF FetchUser
  <2>2. CASE UNCHANGED <<call, refresh, inFlight>>
    BY <2>2, NobodyWaits DEF ShareInv, Shaped
  <2>3. QED
    BY <2>1, <2>2, StartShares
<1>3. CASE Login(c, t)
  <2>1. PICK u, e, held : \/ Start(c, t, "login", "logout", u, e, held)
                          \/ Start(c, t, "register", "login", u, e, held)
    BY <1>3 DEF Login
  <2>2. QED
    BY <2>1, StartShares
<1>4. CASE Logout(c, t)
  <2>1. PICK e : Start(c, t, "logout", "logout", None, e, 0)
    BY <1>4 DEF Logout
  <2>2. QED
    BY <2>1, StartShares
<1>5. QED
  BY <1>1, <1>2, <1>3, <1>4

LEMMA ServeShares == ASSUME ShareInv, NEW c \in Calls, Serve(c) PROVE ShareInv'
<1>1. IsCall(call[c])
  BY DEF ShareInv, Shaped
<1>2. UNCHANGED <<refresh, inFlight>>
  BY DEF Serve, tabVars
<1>3. PICK a, x : call' = [call EXCEPT ![c] =
                    [call[c] EXCEPT !.st = "answered", !.ans = a, !.csrf = FALSE, !.tok = x]]
  <2>1. CASE call[c].req = "logout" \/ call[c].req \in {"get", "post", "me"}
    BY <2>1 DEF Serve
  <2>2. CASE call[c].req = "login"
    <3>1. \/ call' = [call EXCEPT ![c] =
                [call[c] EXCEPT !.st = "answered", !.ans = "unauthorized", !.csrf = FALSE, !.tok = 0]]
          \/ \E x : call' = [call EXCEPT ![c].st = "answered", ![c].ans = "ok",
                                        ![c].csrf = FALSE, ![c].tok = x]
      BY <2>2 DEF Serve
    <3>2. ASSUME NEW x, call' = [call EXCEPT ![c].st = "answered", ![c].ans = "ok",
                                             ![c].csrf = FALSE, ![c].tok = x]
          PROVE  call' = [call EXCEPT ![c] =
                   [call[c] EXCEPT !.st = "answered", !.ans = "ok", !.csrf = FALSE, !.tok = x]]
      BY <3>2 DEF ShareInv, Shaped
    <3>3. QED
      BY <3>1, <3>2
  <2>3. QED
    BY <2>1, <2>2 DEF Serve
<1> DEFINE new == [call[c] EXCEPT !.st = "answered", !.ans = a, !.csrf = FALSE, !.tok = x]
<1>4. IsCall(new) /\ new.st = "answered" /\ call' = [call EXCEPT ![c] = new]
  BY <1>1, <1>3 DEF IsCall
<1> HIDE DEF new
<1>5. QED
  BY <1>2, <1>4, OneCall

LEMMA TryAgainShares == ASSUME ShareInv, NEW c \in Calls, TryAgain(c) PROVE ShareInv'
<1> DEFINE rec == [call[c] EXCEPT !.then = call[c].ans, !.ans = "none", !.tok = 0]
<1>1. IsCall(call[c]) /\ call[c].tab \in Tabs
  BY DEF TryAgain, ShareInv, Shaped, IsCall
<1>2. IsCall(rec) /\ rec.tab = call[c].tab
  BY <1>1 DEF IsCall
<1>3. PICK held : TryRefresh(c, rec, held)
  BY DEF TryAgain
<1> HIDE DEF rec
<1>4. QED
  BY <1>1, <1>2, <1>3, TryRefreshShares

LEMMA AuthLostShares ==
  ASSUME ShareInv, NEW c \in Calls, call[c].tab \in Tabs, AuthLost(c)
  PROVE  ShareInv'
<1>1. CASE user[call[c].tab] # None
  BY <1>1, PageLeft DEF AuthLost
<1>2. CASE user[call[c].tab] = None
  BY <1>2, CallOver DEF AuthLost
<1>3. QED
  BY <1>1, <1>2

LEMMA GiveUpShares == ASSUME ShareInv, NEW c \in Calls, GiveUp(c) PROVE ShareInv'
<1>1. call[c].tab \in Tabs
  BY DEF GiveUp, ShareInv, Shaped, IsCall
<1>2. Finish(c) \/ AuthLost(c) \/ Thrown(c)
  BY DEF GiveUp, Refused
<1>3. QED
  BY <1>1, <1>2, AuthLostShares, ThrownShares, CallOver DEF Finish

LEMMA GoOnShares == ASSUME ShareInv, NEW c \in Calls, GoOn(c) PROVE ShareInv'
<1> DEFINE rec == [call[c] EXCEPT !.ans = "none"]
           again == [rec EXCEPT !.retry = TRUE]
<1>1. IsCall(call[c]) /\ call[c].tab \in Tabs
  BY DEF GoOn, ShareInv, Shaped, WokenInTab
<1>2. IsCall(rec) /\ IsCall(again) /\ again.tab = call[c].tab
  BY <1>1 DEF IsCall
<1>3. PICK held : Send(c, rec, held) \/ Request(c, again, held)
  BY DEF GoOn
<1> HIDE DEF rec, again
<1>4. QED
  BY <1>1, <1>2, <1>3, SendShares, RequestShares

LEMMA AnsweredShares == ASSUME ShareInv, NEW c \in Calls, Answered(c) PROVE ShareInv'
<1>1. IsCall(call[c]) /\ call[c].tab \in Tabs
  BY DEF Answered, ShareInv, Shaped, IsCall
<1>2. CASE PageAnswered(c)
  BY <1>2, CallOver DEF PageAnswered, Finish
<1>3. CASE UserFetched(c)
  <2> DEFINE rec == [call[c] EXCEPT !.then = "sync", !.who = owner[call[c].tok], !.ans = "none",
                                    !.tok = 0]
  <2>1. IsCall(rec) /\ rec.tab = call[c].tab
    BY <1>1 DEF IsCall
  <2>2. Finish(c) \/ TryRefresh(c, rec, 0) \/ \E u : Show(c, u)
    BY <1>3 DEF UserFetched
  <2> HIDE DEF rec
  <2>3. QED
    BY <1>1, <2>1, <2>2, TryRefreshShares, CallOver DEF Finish, Show
<1>4. CASE SessionCleared(c)
  <2>1. /\ IsCall([call[c] EXCEPT !.req = "login", !.ans = "none"])
        /\ \E held : Send(c, [call[c] EXCEPT !.req = "login", !.ans = "none"], held)
    BY <1>1, <1>4 DEF SessionCleared, IsCall
  <2>2. QED
    BY <2>1, SendShares
<1>5. CASE LoggedIn(c)
  <2> DEFINE rec == [call[c] EXCEPT !.req = "me", !.ans = "none", !.st = "sent"]
  <2>1. IsCall(rec) /\ rec.st = "sent"
    BY <1>1 DEF IsCall
  <2>2. \/ Finish(c)
        \/ call' = [call EXCEPT ![c] = rec] /\ UNCHANGED <<refresh, inFlight>>
    BY <1>5 DEF LoggedIn
  <2> HIDE DEF rec
  <2>3. QED
    BY <2>1, <2>2, OneCall, CallOver DEF Finish
<1>6. CASE Confirmed(c) \/ LoggedOut(c)
  BY <1>6, CallOver DEF Confirmed, LoggedOut, Show
<1>7. QED
  BY <1>2, <1>3, <1>4, <1>5, <1>6 DEF Answered

LEMMA CallFailsShares == ASSUME ShareInv, NEW c \in Calls, CallFails(c) PROVE ShareInv'
<1> DEFINE new == [call[c] EXCEPT !.st = "answered", !.ans = "failed", !.tok = 0]
<1>1. IsCall(new) /\ new.st = "answered"
  BY DEF ShareInv, Shaped, IsCall
<1>2. call' = [call EXCEPT ![c] = new] /\ UNCHANGED <<refresh, inFlight>>
  BY DEF CallFails, tabVars
<1> HIDE DEF new
<1>3. QED
  BY <1>1, <1>2, OneCall

LEMMA RefreshShares ==
  ASSUME ShareInv, NEW r \in Refreshes,
         RotateRead(r) \/ RotateCommit(r) \/ RefreshAnswered(r) \/ RefreshFails(r)
  PROVE  ShareInv'
<1>1. IsRefresh(refresh[r])
  BY DEF ShareInv, Shaped
<1>2. CASE RotateRead(r) \/ RotateCommit(r)
  <2>1. UNCHANGED <<call, inFlight>>
    BY <1>2 DEF RotateRead, RotateCommit, tabVars
  <2>2. \E x, y : \/ refresh' = [refresh EXCEPT ![r] = [refresh[r] EXCEPT !.st = x]]
                  \/ refresh' = [refresh EXCEPT ![r] = [refresh[r] EXCEPT !.st = x, !.new = y]]
    <3>1. CASE RotateRead(r)
      BY <3>1 DEF RotateRead, ShareInv, Shaped
    <3>2. CASE RotateCommit(r)
      <4>1. PICK y : refresh' = [refresh EXCEPT ![r].st = "issued", ![r].new = y]
        BY <3>2 DEF RotateCommit
      <4>2. refresh' = [refresh EXCEPT ![r] = [refresh[r] EXCEPT !.st = "issued", !.new = y]]
        BY <4>1 DEF ShareInv, Shaped
      <4>3. QED
        BY <4>2
    <3>3. QED
      BY <1>2, <3>1, <3>2
  <2>3. PICK new : /\ "tab" \in DOMAIN new /\ new.tab = refresh[r].tab
                   /\ refresh' = [refresh EXCEPT ![r] = new]
    BY <1>1, <2>2 DEF IsRefresh
  <2>4. QED
    BY <2>1, <2>3, RefreshGoesOn
<1>3. CASE RefreshAnswered(r) \/ RefreshFails(r)
  <2>1. refresh[r].tab \in Tabs
    BY <1>1, <1>3 DEF RefreshAnswered, RefreshFails, IsRefresh
  <2>2. PICK result : Wake(r, result)
    BY <1>3 DEF RefreshAnswered, RefreshFails
  <2>3. /\ inFlight' = [inFlight EXCEPT ![refresh[r].tab] = None]
        /\ refresh' = [refresh EXCEPT ![r] = Finished]
    BY <1>3 DEF RefreshAnswered, RefreshFails
  <2>4. QED
    BY <2>1, <2>2, <2>3, RefreshOver
<1>4. QED
  BY <1>2, <1>3

LEMMA ShareStep == ShareInv /\ [Next]_vars => ShareInv'
<1> SUFFICES ASSUME ShareInv, [Next]_vars PROVE ShareInv'
  OBVIOUS
<1>1. ASSUME NEW c \in Calls, FailureHandled(c) PROVE ShareInv'
  BY <1>1, ThrownShares DEF FailureHandled
<1>2. CASE Unwanted
  <2>1. CASE \E c \in Calls : call' = [call EXCEPT ![c] = Idle] /\ UNCHANGED refresh
    BY <1>2, <2>1, CallOver DEF Unwanted, tabVars
  <2>2. CASE \E r \in Refreshes : /\ refresh[r].tab = None /\ UNCHANGED call
                                  /\ refresh' = [refresh EXCEPT ![r] = Finished]
    <3>1. UNCHANGED inFlight /\ "tab" \in DOMAIN Finished /\ Finished.tab = None
      BY <1>2, Constants DEF Unwanted, tabVars, IsRefresh
    <3>2. QED
      BY <2>2, <3>1, RefreshGoesOn
  <2>3. QED
    BY <1>2, <2>1, <2>2 DEF Unwanted
<1>3. ASSUME NEW t \in Tabs, Reload(t) PROVE ShareInv'
  BY <1>3, PageLeft DEF Reload
<1>4. CASE Expire \/ Revoke \/ UNCHANGED vars
  <2>1. UNCHANGED <<call, refresh, inFlight>>
    BY <1>4 DEF Expire, Revoke, vars, tabVars
  <2>2. QED
    BY <2>1, NobodyWaits DEF ShareInv, Shaped
<1>5. QED
  BY <1>1, <1>2, <1>3, <1>4, BeginShares, ServeShares, TryAgainShares, GiveUpShares, GoOnShares,
     AnsweredShares, CallFailsShares, RefreshShares
  DEF Next, Work

LEMMA ShareInit == Init => ShareInv
<1> SUFFICES ASSUME Init PROVE ShareInv
  OBVIOUS
<1>1. Shaped
  BY Constants DEF Init, Shaped
<1>2. WokenInTab /\ InFlightOwn
  BY Constants DEF Init, WokenInTab, InFlightOwn
<1>3. WaitersShareRefresh
  BY Constants DEF Init, WaitersShareRefresh
<1>4. QED
  BY <1>1, <1>2, <1>3 DEF ShareInv

\* However many requests of a tab are answered 401 or 403 at once, and whatever reloads,
\* failures, logins and logouts come between, they share one refresh, and none is left
\* waiting for a refresh that is over or another tab's.
THEOREM RefreshShared == Spec => []WaitersShareRefresh
<1>1. ShareInv => WaitersShareRefresh
  BY DEF ShareInv
<1>2. QED
  BY <1>1, ShareInit, ShareStep, PTL DEF Spec

-------------------------------------------------------------------------------
(* Types.                                                                      *)

\* What the fields of a call say about each other.
CallShape(rec) ==
  /\ rec.flow # "none" => rec.tab \in Tabs
  /\ rec.flow = "none" => rec.st \in {"free", "sent", "answered"} /\ rec.ans # "failed"
                          /\ rec.req \in {"none", "login", "logout"} /\ rec.tab = None
  /\ rec.flow = "page" => rec.req \in {"get", "post"}
  /\ rec.flow = "fetch" => rec.req = "me"
  /\ rec.flow = "login" => rec.req \in {"logout", "login", "me"}
  /\ rec.flow = "register" => rec.req \in {"login", "me"}
  /\ rec.flow = "logout" => rec.req = "logout"
  /\ rec.flow \in {"login", "register"} \/ rec.req = "login" => rec.who \in Users
  /\ rec.then = "sync" => rec.flow = "fetch" /\ rec.who \in Users
  /\ rec.st \in {"waiting", "woken"} => rec.req # "login"
  /\ rec.st = "answered" /\ rec.ans = "ok" /\ rec.req \in {"me", "login"} => rec.tok # 0

\* A refresh has a token while it is under way, and another when it is answered.
RefreshShape(rec) ==
  /\ rec.st \in {"read", "issued"} => rec.tok # 0
  /\ rec.st = "issued" => rec.new # 0

\* A well-formed call; a well-formed refresh.
Typed(rec) == rec \in CallType /\ CallShape(rec)
RefreshTyped(rec) == rec \in RefreshType /\ RefreshShape(rec)

\* Calls and refreshes have only tokens the backend has issued.
CallsTyped ==
  /\ call \in [Calls -> CallType]
  /\ \A c \in Calls : Typed(call[c]) /\ call[c].tok \in Sessions

RefreshesTyped ==
  /\ refresh \in [Refreshes -> RefreshType]
  /\ \A r \in Refreshes :
       RefreshTyped(refresh[r]) /\ refresh[r].tok \in Sessions /\ refresh[r].new \in Sessions

\* The coroutines of the tabs.
ClientTyped ==
  /\ CallsTyped /\ RefreshesTyped
  /\ inFlight \in [Tabs -> Refreshes \cup {None}]
  /\ mishaps \subseteq {"excused", "mixed", "dropped"}

\* What the browser keeps: the cookie, and the storage and the state of the tabs.
TabsTyped ==
  /\ cookies \in BOOLEAN /\ jar \in Sessions /\ (~cookies => jar = 0)
  /\ store \in [Tabs -> Sessions] /\ user \in [Tabs -> Users \cup {None}]
  /\ loading \in [Tabs -> BOOLEAN] /\ epoch \in [Tabs -> Nat]
  /\ account \in [tab : Tabs, user : Users]

\* The sessions issued, those that have not been used up, and up to which one access tokens have expired.
BackendTyped ==
  /\ owner \in Seq(Users) /\ live \subseteq 1..Len(owner) /\ expired \in Sessions

\* The inductive invariant for types.
TypeInv == ClientTyped /\ TabsTyped /\ BackendTyped /\ events \in 0..MaxEvents

-------------------------------------------------------------------------------
(* Whose session.                                                              *)

\* Somebody logs in or registers.
InLogin(c) == call[c].flow \in {"login", "register"}

\* No call is of a later epoch than its tab.
EpochsBehind == \A c \in Calls : call[c].flow # "none" => call[c].epoch <= epoch[call[c].tab]

\* While somebody logs in, the tab shows nobody and what fetchUser asked before is stale.
LoginAlone ==
  \A c \in Calls : InLogin(c) =>
    /\ user[call[c].tab] = None /\ ~loading[call[c].tab]
    /\ \A d \in Calls : call[d].tab = call[c].tab =>
         /\ call[d].flow = "fetch" => call[d].epoch < epoch[call[c].tab]
         /\ InLogin(d) => d = c

\* An answer of /auth/login or /auth/register is a session of who asked.
IssuedToAsker ==
  \A c \in Calls : call[c].st = "answered" /\ call[c].ans = "ok" /\ call[c].req = "login"
                     => owner[call[c].tok] = call[c].who

\* The login under way in the tab of the last one is the last one.
LastLogin ==
  \A c \in Calls : InLogin(c) /\ call[c].req = "me" /\ call[c].tab = account.tab
                     => call[c].who = account.user

\* Every token and every user that the tab of the last login could come to show.
TokensOfAccount ==
  /\ jar # 0 => owner[jar] = account.user
  /\ store[account.tab] # 0 => owner[store[account.tab]] = account.user
  /\ \A c \in Calls : call[c].tab = account.tab /\ Current(c) =>
       /\ call[c].req = "me" /\ call[c].tok # 0 => owner[call[c].tok] = account.user
       /\ call[c].flow = "fetch" /\ call[c].who # None => call[c].who = account.user

\* The inductive invariant for the user shown; the mishap named mixed excuses all of it that is about tokens.
ShownInv ==
  /\ EpochsBehind /\ LoginAlone /\ IssuedToAsker /\ LastLogin
  /\ "mixed" \notin mishaps => TokensOfAccount
  /\ ShownUserRight

-------------------------------------------------------------------------------
(* Types: what the actions are made of.                                        *)

LEMMA IdleTyped == Typed(Idle) /\ Idle.tok = 0 /\ Idle.flow = "none" /\ Idle.st = "free" /\ Idle.who = None
  BY DEF Typed, CallType, CallShape, Idle, Flows, Requests

LEMMA FinishedTyped == RefreshTyped(Finished) /\ Finished.tok = 0 /\ Finished.new = 0
  BY DEF RefreshTyped, RefreshType, RefreshShape, Finished

LEMMA ZeroSession == ASSUME BackendTyped PROVE 0 \in Sessions /\ Sessions \subseteq Nat
  BY DEF BackendTyped, Sessions

\* One call changes.
LEMMA OneCallTyped ==
  ASSUME CallsTyped, Sessions \subseteq Sessions', NEW c \in Calls,
         NEW rec, Typed(rec), rec.tok \in Sessions', call' = [call EXCEPT ![c] = rec]
  PROVE  CallsTyped'
<1>1. call' \in [Calls -> CallType]
  BY DEF CallsTyped, Typed
<1>2. QED
  BY <1>1 DEF CallsTyped

LEMMA OneRefreshTyped ==
  ASSUME RefreshesTyped, Sessions \subseteq Sessions', NEW r \in Refreshes,
         NEW rec, RefreshTyped(rec), rec.tok \in Sessions', rec.new \in Sessions',
         refresh' = [refresh EXCEPT ![r] = rec]
  PROVE  RefreshesTyped'
<1>1. refresh' \in [Refreshes -> RefreshType]
  BY DEF RefreshesTyped, RefreshTyped
<1>2. QED
  BY <1>1 DEF RefreshesTyped

LEMMA SendRecord ==
  ASSUME NEW rec, Typed(rec), rec.flow # "none", NEW tok \in Nat, NEW csrf \in BOOLEAN
  PROVE  Typed([rec EXCEPT !.st = "sent", !.on = None, !.then = "none", !.tok = tok, !.csrf = csrf])
<1> DEFINE new == [rec EXCEPT !.st = "sent", !.on = None, !.then = "none", !.tok = tok, !.csrf = csrf]
<1>1. new \in CallType
  BY DEF Typed, CallType
<1>2. CallShape(new)
  <2>1. /\ new.flow = rec.flow /\ new.req = rec.req /\ new.tab = rec.tab /\ new.who = rec.who
        /\ new.st = "sent" /\ new.then = "none"
    BY DEF Typed, CallType
  <2> HIDE DEF new
  <2>2. QED
    BY <2>1 DEF Typed, CallShape
<1>3. QED
  BY <1>1, <1>2 DEF Typed

\* TryRefresh: it waits.
LEMMA WaitRecord ==
  ASSUME NEW rec, Typed(rec), rec.flow # "none", rec.req # "login", NEW r \in Refreshes
  PROVE  Typed([rec EXCEPT !.st = "waiting", !.on = r])
<1> DEFINE new == [rec EXCEPT !.st = "waiting", !.on = r]
<1>1. new \in CallType
  <2>1. rec \in CallType
    BY DEF Typed
  <2>2. QED
    BY <2>1 DEF CallType, Flows, Requests
<1>2. CallShape(new)
  <2>1. /\ new.st = "waiting" /\ new.flow = rec.flow /\ new.req = rec.req /\ new.tab = rec.tab
        /\ new.who = rec.who /\ new.then = rec.then /\ new.ans = rec.ans /\ new.tok = rec.tok
    BY DEF Typed, CallType
  <2> HIDE DEF new
  <2>2. QED
    BY <2>1 DEF Typed, CallShape
<1>3. QED
  BY <1>1, <1>2 DEF Typed

\* Request: ... for the headers of its session.
LEMMA ThenSend ==
  ASSUME NEW rec, Typed(rec)
  PROVE  Typed([rec EXCEPT !.then = "send"])
<1> DEFINE new == [rec EXCEPT !.then = "send"]
<1>1. new \in CallType
  <2>1. rec \in CallType
    BY DEF Typed
  <2>2. QED
    BY <2>1 DEF CallType, Flows, Requests
<1>2. CallShape(new)
  <2>1. /\ new.then = "send" /\ new.flow = rec.flow /\ new.req = rec.req /\ new.st = rec.st
        /\ new.tab = rec.tab /\ new.who = rec.who /\ new.ans = rec.ans /\ new.tok = rec.tok
    BY DEF Typed, CallType
  <2> HIDE DEF new
  <2>2. QED
    BY <2>1 DEF Typed, CallShape
<1>3. QED
  BY <1>1, <1>2 DEF Typed

\* Serve.
LEMMA ServedRecord ==
  ASSUME NEW rec, Typed(rec), rec.st = "sent",
         NEW a \in {"ok", "unauthorized", "forbidden"}, NEW tok \in Nat,
         a = "ok" /\ rec.req \in {"me", "login"} => tok # 0
  PROVE  Typed([rec EXCEPT !.st = "answered", !.ans = a, !.csrf = FALSE, !.tok = tok])
<1> DEFINE new == [rec EXCEPT !.st = "answered", !.ans = a, !.csrf = FALSE, !.tok = tok]
<1>1. new \in CallType
  <2>1. rec \in CallType
    BY DEF Typed
  <2>2. QED
    BY <2>1 DEF CallType, Flows, Requests
<1>2. CallShape(new)
  <2>1. /\ new.st = "answered" /\ new.ans = a /\ new.tok = tok /\ new.flow = rec.flow
        /\ new.req = rec.req /\ new.tab = rec.tab /\ new.who = rec.who /\ new.then = rec.then
    BY DEF Typed, CallType
  <2> HIDE DEF new
  <2>2. QED
    BY <2>1 DEF Typed, CallShape
<1>3. QED
  BY <1>1, <1>2 DEF Typed

\* Wake.
LEMMA WokenRecord ==
  ASSUME NEW rec, Typed(rec), rec.st = "waiting", NEW a \in {"ok", "refused"}
  PROVE  Typed([rec EXCEPT !.st = "woken", !.on = None, !.ans = a])
<1> DEFINE new == [rec EXCEPT !.st = "woken", !.on = None, !.ans = a]
<1>1. new \in CallType
  <2>1. rec \in CallType
    BY DEF Typed
  <2>2. QED
    BY <2>1 DEF CallType, Flows, Requests
<1>2. CallShape(new)
  <2>1. /\ new.st = "woken" /\ new.ans = a /\ new.flow = rec.flow /\ new.req = rec.req
        /\ new.tab = rec.tab /\ new.who = rec.who /\ new.then = rec.then /\ new.tok = rec.tok
    BY DEF Typed, CallType
  <2> HIDE DEF new
  <2>2. QED
    BY <2>1 DEF Typed, CallShape
<1>3. QED
  BY <1>1, <1>2 DEF Typed

\* TryAgain.
LEMMA AgainRecord ==
  ASSUME NEW rec, Typed(rec), rec.st = "answered", rec.ans \in {"unauthorized", "forbidden"}, NEW tok \in Nat
  PROVE  Typed([rec EXCEPT !.then = rec.ans, !.ans = "none", !.tok = tok])
<1> DEFINE new == [rec EXCEPT !.then = rec.ans, !.ans = "none", !.tok = tok]
<1>1. new \in CallType
  <2> DEFINE r1 == [rec EXCEPT !.then = rec.ans]
             r2 == [r1 EXCEPT !.ans = "none"]
             r3 == [r2 EXCEPT !.tok = tok]
  <2>1. rec \in CallType
    BY DEF Typed
  <2>2. r1 \in CallType
    BY <2>1 DEF CallType, Requests
  <2>3. r2 \in CallType
    <3> HIDE DEF r1
    <3> QED
      BY <2>2 DEF CallType, Requests
  <2>4. r3 \in CallType
    <3> HIDE DEF r2
    <3> QED
      BY <2>3 DEF CallType, Requests
  <2>5. new = r3
    OBVIOUS
  <2>6. QED
    BY <2>4, <2>5
<1>2. CallShape(new)
  <2>1. /\ new.then = rec.ans /\ new.ans = "none" /\ new.tok = tok /\ new.flow = rec.flow
        /\ new.req = rec.req /\ new.st = rec.st /\ new.tab = rec.tab /\ new.who = rec.who
    BY DEF Typed, CallType
  <2> HIDE DEF new
  <2>2. QED
    BY <2>1 DEF Typed, CallShape
<1>3. QED
  BY <1>1, <1>2 DEF Typed

\* GoOn.
LEMMA AnsRecord ==
  ASSUME NEW rec, Typed(rec)
  PROVE  Typed([rec EXCEPT !.ans = "none"])
<1> DEFINE new == [rec EXCEPT !.ans = "none"]
<1>1. new \in CallType
  <2>1. rec \in CallType
    BY DEF Typed
  <2>2. QED
    BY <2>1 DEF CallType, Flows, Requests
<1>2. CallShape(new)
  <2>1. /\ new.ans = "none" /\ new.flow = rec.flow /\ new.req = rec.req /\ new.st = rec.st
        /\ new.tab = rec.tab /\ new.who = rec.who /\ new.then = rec.then /\ new.tok = rec.tok
    BY DEF Typed, CallType
  <2> HIDE DEF new
  <2>2. QED
    BY <2>1 DEF Typed, CallShape
<1>3. QED
  BY <1>1, <1>2 DEF Typed

\* GoOn: the second attempt.
LEMMA RetryRecord ==
  ASSUME NEW rec, Typed(rec)
  PROVE  Typed([rec EXCEPT !.retry = TRUE])
<1> DEFINE new == [rec EXCEPT !.retry = TRUE]
<1>1. new \in CallType
  <2>1. rec \in CallType
    BY DEF Typed
  <2>2. QED
    BY <2>1 DEF CallType, Flows, Requests
<1>2. CallShape(new)
  <2>1. /\ new.flow = rec.flow /\ new.req = rec.req /\ new.st = rec.st /\ new.tab = rec.tab
        /\ new.who = rec.who /\ new.then = rec.then /\ new.ans = rec.ans /\ new.tok = rec.tok
    BY DEF Typed, CallType
  <2> HIDE DEF new
  <2>2. QED
    BY <2>1 DEF Typed, CallShape
<1>3. QED
  BY <1>1, <1>2 DEF Typed

\* UserFetched.
LEMMA SyncRecord ==
  ASSUME NEW rec, Typed(rec), rec.flow = "fetch", NEW u \in Users, NEW tok \in Nat
  PROVE  Typed([rec EXCEPT !.then = "sync", !.who = u, !.ans = "none", !.tok = tok])
<1> DEFINE new == [rec EXCEPT !.then = "sync", !.who = u, !.ans = "none", !.tok = tok]
<1>1. new \in CallType
  <2>1. rec \in CallType
    BY DEF Typed
  <2>2. QED
    BY <2>1 DEF CallType, Flows, Requests
<1>2. CallShape(new)
  <2>1. /\ new.then = "sync" /\ new.who = u /\ new.ans = "none" /\ new.tok = tok
        /\ new.flow = rec.flow /\ new.req = rec.req /\ new.st = rec.st /\ new.tab = rec.tab
    BY DEF Typed, CallType
  <2> HIDE DEF new
  <2>2. QED
    BY <2>1 DEF Typed, CallShape
<1>3. QED
  BY <1>1, <1>2 DEF Typed

\* SessionCleared.
LEMMA ClearedRecord ==
  ASSUME NEW rec, Typed(rec), rec.flow = "login", rec.st \notin {"waiting", "woken"}
  PROVE  Typed([rec EXCEPT !.req = "login", !.ans = "none"])
<1> DEFINE new == [rec EXCEPT !.req = "login", !.ans = "none"]
<1>1. new \in CallType
  <2>1. rec \in CallType
    BY DEF Typed
  <2>2. QED
    BY <2>1 DEF CallType, Flows, Requests
<1>2. CallShape(new)
  <2>1. /\ new.req = "login" /\ new.ans = "none" /\ new.flow = rec.flow /\ new.st = rec.st
        /\ new.tab = rec.tab /\ new.who = rec.who /\ new.then = rec.then /\ new.tok = rec.tok
    BY DEF Typed, CallType
  <2> HIDE DEF new
  <2>2. QED
    BY <2>1 DEF Typed, CallShape
<1>3. QED
  BY <1>1, <1>2 DEF Typed

\* LoggedIn.
LEMMA ConfirmRecord ==
  ASSUME NEW rec, Typed(rec), rec.flow \in {"login", "register"}
  PROVE  Typed([rec EXCEPT !.req = "me", !.ans = "none", !.st = "sent"])
<1> DEFINE new == [rec EXCEPT !.req = "me", !.ans = "none", !.st = "sent"]
<1>1. new \in CallType
  <2> DEFINE r1 == [rec EXCEPT !.req = "me"]
             r2 == [r1 EXCEPT !.ans = "none"]
             r3 == [r2 EXCEPT !.st = "sent"]
  <2>1. rec \in CallType
    BY DEF Typed
  <2>2. r1 \in CallType
    BY <2>1 DEF CallType, Requests
  <2>3. r2 \in CallType
    <3> HIDE DEF r1
    <3> QED
      BY <2>2 DEF CallType, Requests
  <2>4. r3 \in CallType
    <3> HIDE DEF r2
    <3> QED
      BY <2>3 DEF CallType, Requests
  <2>5. new = r3
    OBVIOUS
  <2>6. QED
    BY <2>4, <2>5
<1>2. CallShape(new)
  <2>1. /\ new.req = "me" /\ new.ans = "none" /\ new.st = "sent" /\ new.flow = rec.flow
        /\ new.tab = rec.tab /\ new.who = rec.who /\ new.then = rec.then /\ new.tok = rec.tok
    BY DEF Typed, CallType
  <2> HIDE DEF new
  <2>2. QED
    BY <2>1 DEF Typed, CallShape
<1>3. QED
  BY <1>1, <1>2 DEF Typed

\* CallFails.
LEMMA FailedRecord ==
  ASSUME NEW rec, Typed(rec), rec.flow # "none", NEW tok \in Nat
  PROVE  Typed([rec EXCEPT !.st = "answered", !.ans = "failed", !.tok = tok])
<1> DEFINE new == [rec EXCEPT !.st = "answered", !.ans = "failed", !.tok = tok]
<1>1. new \in CallType
  <2> DEFINE r1 == [rec EXCEPT !.st = "answered"]
             r2 == [r1 EXCEPT !.ans = "failed"]
             r3 == [r2 EXCEPT !.tok = tok]
  <2>1. rec \in CallType
    BY DEF Typed
  <2>2. r1 \in CallType
    BY <2>1 DEF CallType, Requests
  <2>3. r2 \in CallType
    <3> HIDE DEF r1
    <3> QED
      BY <2>2 DEF CallType, Requests
  <2>4. r3 \in CallType
    <3> HIDE DEF r2
    <3> QED
      BY <2>3 DEF CallType, Requests
  <2>5. new = r3
    OBVIOUS
  <2>6. QED
    BY <2>4, <2>5
<1>2. CallShape(new)
  <2>1. /\ new.st = "answered" /\ new.ans = "failed" /\ new.tok = tok /\ new.flow = rec.flow
        /\ new.req = rec.req /\ new.tab = rec.tab /\ new.who = rec.who /\ new.then = rec.then
    BY DEF Typed, CallType
  <2> HIDE DEF new
  <2>2. QED
    BY <2>1 DEF Typed, CallShape
<1>3. QED
  BY <1>1, <1>2 DEF Typed

\* Start.
LEMMA StartRecord ==
  ASSUME NEW t \in Tabs, NEW e \in Nat, NEW who \in Users \cup {None}, NEW flow, NEW req,
         \/ flow = "page" /\ req \in {"get", "post"}
         \/ flow = "fetch" /\ req = "me"
         \/ flow = "login" /\ req = "logout" /\ who \in Users
         \/ flow = "register" /\ req = "login" /\ who \in Users
         \/ flow = "logout" /\ req = "logout"
  PROVE  LET rec == [Idle EXCEPT !.flow = flow, !.req = req, !.tab = t, !.epoch = e, !.who = who]
         IN  Typed(rec) /\ rec.tok = 0
<1> DEFINE rec == [Idle EXCEPT !.flow = flow, !.req = req, !.tab = t, !.epoch = e, !.who = who]
<1>1. flow \in Flows /\ req \in Requests
  BY DEF Flows, Requests
<1>2. rec \in CallType
  <2> DEFINE r1 == [Idle EXCEPT !.flow = flow]
             r2 == [r1 EXCEPT !.req = req]
             r3 == [r2 EXCEPT !.tab = t]
             r4 == [r3 EXCEPT !.epoch = e]
             r5 == [r4 EXCEPT !.who = who]
  <2>1. Idle \in CallType
    BY IdleTyped DEF Typed
  <2>2. r1 \in CallType
    BY <1>1, <2>1 DEF CallType
  <2>3. r2 \in CallType
    <3> HIDE DEF r1
    <3> QED
      BY <1>1, <2>2 DEF CallType
  <2>4. r3 \in CallType
    <3> HIDE DEF r2
    <3> QED
      BY <2>3 DEF CallType
  <2>5. r4 \in CallType
    <3> HIDE DEF r3
    <3> QED
      BY <2>4 DEF CallType
  <2>6. r5 \in CallType
    <3> HIDE DEF r4
    <3> QED
      BY <2>5 DEF CallType
  <2>7. rec = r5
    OBVIOUS
  <2>8. QED
    BY <2>6, <2>7
<1>3. /\ rec.flow = flow /\ rec.req = req /\ rec.tab = t /\ rec.who = who
      /\ rec.st = "free" /\ rec.then = "none" /\ rec.ans = "none" /\ rec.tok = 0
  BY DEF Idle
<1> HIDE DEF rec
<1>4. CallShape(rec)
  BY <1>3 DEF CallShape
<1>5. QED
  BY <1>2, <1>3, <1>4 DEF Typed, rec

-------------------------------------------------------------------------------
(* Types: the operators the actions share.                                     *)

LEMMA SessionsStand == ASSUME UNCHANGED owner PROVE Sessions' = Sessions
  BY DEF Sessions

LEMMA ClientStands ==
  ASSUME TypeInv, Sessions \subseteq Sessions', UNCHANGED <<call, refresh, inFlight, mishaps>>
  PROVE  ClientTyped'
  BY DEF TypeInv, ClientTyped, CallsTyped, RefreshesTyped

\* One call changes and no refresh.
LEMMA CallChanges ==
  ASSUME TypeInv, Sessions \subseteq Sessions', UNCHANGED <<refresh, inFlight>>,
         mishaps' \subseteq {"excused", "mixed", "dropped"},
         NEW c \in Calls, NEW rec, Typed(rec), rec.tok \in Sessions', call' = [call EXCEPT ![c] = rec]
  PROVE  ClientTyped'
<1>1. CallsTyped'
  BY OneCallTyped DEF TypeInv, ClientTyped
<1>2. RefreshesTyped'
  BY DEF TypeInv, ClientTyped, RefreshesTyped
<1>3. QED
  BY <1>1, <1>2 DEF TypeInv, ClientTyped

LEMMA SendTyped ==
  ASSUME TypeInv, UNCHANGED owner, NEW c \in Calls, NEW rec, Typed(rec), rec.flow # "none",
         NEW held \in Sessions, Send(c, rec, held)
  PROVE  ClientTyped'
<1>1. Sessions' = Sessions /\ Sessions \subseteq Nat /\ 0 \in Sessions /\ jar \in Sessions
  BY SessionsStand, ZeroSession DEF TypeInv, TabsTyped
<1>2. PICK tok \in Sessions, csrf \in BOOLEAN : call' = [call EXCEPT ![c] =
        [rec EXCEPT !.st = "sent", !.on = None, !.then = "none", !.tok = tok, !.csrf = csrf]]
  <2> DEFINE token == CASE rec.req = "logout" -> jar [] rec.req = "login" -> 0
                        [] OTHER -> Presented(held)
             header == rec.req = "post" /\ (held # 0 \/ jar # 0)
  <2>1. token \in Sessions
    <3>1. Presented(held) \in Sessions
      BY <1>1 DEF Presented
    <3>2. QED
      BY <1>1, <3>1
  <2>2. header \in BOOLEAN
    OBVIOUS
  <2>3. call' = [call EXCEPT ![c] =
          [rec EXCEPT !.st = "sent", !.on = None, !.then = "none", !.tok = token, !.csrf = header]]
    BY DEF Send
  <2> HIDE DEF token, header
  <2>4. QED
    BY <2>1, <2>2, <2>3
<1> DEFINE new == [rec EXCEPT !.st = "sent", !.on = None, !.then = "none", !.tok = tok, !.csrf = csrf]
<1>3. Typed(new)
  BY <1>1, SendRecord
<1>4. new.tok = tok
  BY DEF Typed, CallType
<1> HIDE DEF new
<1>5. UNCHANGED <<refresh, inFlight, mishaps>> /\ call' = [call EXCEPT ![c] = new]
  BY <1>2 DEF Send, new
<1>6. mishaps' \subseteq {"excused", "mixed", "dropped"}
  BY <1>5 DEF TypeInv, ClientTyped
<1>7. QED
  BY <1>1, <1>3, <1>4, <1>5, <1>6, CallChanges

LEMMA TryRefreshTyped ==
  ASSUME TypeInv, UNCHANGED owner, NEW c \in Calls, NEW rec, Typed(rec), rec.tok \in Sessions,
         rec.flow # "none", rec.req # "login", NEW held \in Sessions, TryRefresh(c, rec, held)
  PROVE  ClientTyped'
<1>1. Sessions' = Sessions /\ Sessions \subseteq Nat /\ 0 \in Sessions /\ jar \in Sessions
  BY SessionsStand, ZeroSession DEF TypeInv, TabsTyped
<1>2. rec.tab \in Tabs
  BY DEF Typed, CallShape
<1>3. mishaps' \subseteq {"excused", "mixed", "dropped"}
  BY DEF TryRefresh, TypeInv, ClientTyped
<1>4. inFlight \in [Tabs -> Refreshes \cup {None}]
  BY DEF TypeInv, ClientTyped
<1>5. CASE inFlight[rec.tab] # None
  <2> DEFINE new == [rec EXCEPT !.st = "waiting", !.on = inFlight[rec.tab]]
  <2>1. inFlight[rec.tab] \in Refreshes
    BY <1>2, <1>4, <1>5
  <2>2. Typed(new)
    BY <2>1, WaitRecord
  <2>3. new.tok = rec.tok
    BY DEF Typed, CallType
  <2>4. call' = [call EXCEPT ![c] = new] /\ UNCHANGED <<refresh, inFlight>>
    BY <1>5 DEF TryRefresh
  <2> HIDE DEF new
  <2>5. QED
    BY <1>1, <1>3, <2>2, <2>3, <2>4, CallChanges
<1>6. CASE inFlight[rec.tab] = None
  <2>1. PICK r \in Refreshes, tok \in Sessions :
          /\ refresh' = [refresh EXCEPT ![r] = [st |-> "sent", tab |-> rec.tab, tok |-> tok, new |-> 0]]
          /\ inFlight' = [inFlight EXCEPT ![rec.tab] = r]
          /\ call' = [call EXCEPT ![c] = [rec EXCEPT !.st = "waiting", !.on = r]]
    BY <1>1, <1>6 DEF TryRefresh
  <2> DEFINE new == [rec EXCEPT !.st = "waiting", !.on = r]
             started == [st |-> "sent", tab |-> rec.tab, tok |-> tok, new |-> 0]
  <2>2. Typed(new)
    BY WaitRecord
  <2>3. new.tok = rec.tok
    BY DEF Typed, CallType
  <2>4. RefreshTyped(started) /\ started.tok = tok /\ started.new = 0
    BY <1>1, <1>2 DEF RefreshTyped, RefreshType, RefreshShape
  <2>5. /\ call' = [call EXCEPT ![c] = new] /\ refresh' = [refresh EXCEPT ![r] = started]
        /\ inFlight' = [inFlight EXCEPT ![rec.tab] = r]
    BY <2>1
  <2> HIDE DEF new, started
  <2>6. CallsTyped'
    BY <1>1, <2>2, <2>3, <2>5, OneCallTyped DEF TypeInv, ClientTyped
  <2>7. RefreshesTyped'
    BY <1>1, <2>4, <2>5, OneRefreshTyped DEF TypeInv, ClientTyped
  <2>8. inFlight' \in [Tabs -> Refreshes \cup {None}]
    BY <1>4, <2>5
  <2>9. QED
    BY <1>3, <2>6, <2>7, <2>8 DEF ClientTyped
<1>7. QED
  BY <1>5, <1>6

LEMMA RequestTyped ==
  ASSUME TypeInv, UNCHANGED owner, NEW c \in Calls, NEW rec, Typed(rec), rec.tok \in Sessions,
         rec.flow # "none", NEW held \in Sessions, Request(c, rec, held)
  PROVE  ClientTyped'
<1>1. CASE Send(c, rec, held)
  BY <1>1, SendTyped
<1>2. CASE ~Send(c, rec, held)
  <2> DEFINE new == [rec EXCEPT !.then = "send"]
  <2>1. rec.req # "login" /\ TryRefresh(c, new, held)
    BY <1>2 DEF Request, Mutating
  <2>2. Typed(new)
    BY ThenSend
  <2>3. new.tok = rec.tok /\ new.flow = rec.flow /\ new.req = rec.req
    BY DEF Typed, CallType
  <2> HIDE DEF new
  <2>4. QED
    BY <2>1, <2>2, <2>3, TryRefreshTyped
<1>3. QED
  BY <1>1, <1>2

LEMMA StartTyped ==
  ASSUME TypeInv, UNCHANGED owner, NEW c \in Calls, NEW t \in Tabs, NEW e \in Nat,
         NEW who \in Users \cup {None}, NEW held \in Sessions, NEW flow, NEW req,
         \/ flow = "page" /\ req \in {"get", "post"}
         \/ flow = "fetch" /\ req = "me"
         \/ flow = "login" /\ req = "logout" /\ who \in Users
         \/ flow = "register" /\ req = "login" /\ who \in Users
         \/ flow = "logout" /\ req = "logout",
         Start(c, t, flow, req, who, e, held)
  PROVE  ClientTyped' /\ events' \in 0..MaxEvents
<1> DEFINE rec == [Idle EXCEPT !.flow = flow, !.req = req, !.tab = t, !.epoch = e, !.who = who]
<1>1. Typed(rec)
  BY StartRecord
<1>2. rec.tok = 0
  BY StartRecord
<1>3. rec.flow = flow /\ flow # "none"
  BY DEF Idle
<1>4. Request(c, rec, held)
  BY DEF Start
<1> HIDE DEF rec
<1>5. rec.tok \in Sessions
  BY <1>2, ZeroSession DEF TypeInv
<1>6. ClientTyped'
  BY <1>1, <1>3, <1>4, <1>5, RequestTyped
<1>7. events' \in 0..MaxEvents
  BY SessionAssumption DEF Start, TypeInv
<1>8. QED
  BY <1>6, <1>7

LEMMA BackendStands ==
  ASSUME TypeInv, UNCHANGED serverVars
  PROVE  BackendTyped' /\ Sessions' = Sessions /\ UNCHANGED owner
  BY DEF TypeInv, BackendTyped, Sessions, serverVars

LEMMA TabsStand ==
  ASSUME TypeInv, Sessions \subseteq Sessions',
         UNCHANGED <<cookies, jar, store, user, loading, epoch, account>>
  PROVE  TabsTyped'
<1>1. TabsTyped /\ jar' \in Sessions' /\ store' \in [Tabs -> Sessions']
  BY DEF TypeInv, TabsTyped
<1>2. QED
  BY <1>1 DEF TabsTyped

LEMMA EventsStand == ASSUME TypeInv, UNCHANGED events PROVE events' \in 0..MaxEvents
  BY DEF TypeInv

LEMMA FaultCounted == ASSUME TypeInv, Fault PROVE events' \in 0..MaxEvents
  BY SessionAssumption DEF TypeInv, Fault

LEMMA SessionUser ==
  ASSUME BackendTyped, NEW n \in Sessions, n # 0
  PROVE  owner[n] \in Users
<1>1. n \in 1..Len(owner) /\ owner \in Seq(Users)
  BY DEF BackendTyped, Sessions
<1>2. QED
  BY <1>1

LEMMA IssueTyped ==
  ASSUME BackendTyped, NEW u \in Users, Issue(u), live' \subseteq live \cup {Len(owner')}
  PROVE  /\ BackendTyped' /\ Sessions \subseteq Sessions'
         /\ Len(owner') \in Sessions' /\ Len(owner') \in Nat \ {0} /\ Len(owner') = Len(owner) + 1
<1>1. owner' = Append(owner, u) /\ owner \in Seq(Users) /\ expired' = expired
  BY DEF Issue, BackendTyped
<1>2. owner' \in Seq(Users) /\ Len(owner') = Len(owner) + 1 /\ Len(owner) \in Nat
  BY <1>1
<1>3. Sessions' = 0..(Len(owner) + 1)
  BY <1>2 DEF Sessions
<1>4. live' \subseteq 1..Len(owner')
  BY <1>2 DEF BackendTyped
<1>5. expired' \in Sessions'
  BY <1>1, <1>2, <1>3 DEF BackendTyped, Sessions
<1>6. QED
  BY <1>2, <1>3, <1>4, <1>5 DEF BackendTyped, Sessions

\* A call is over.
LEMMA EndTyped ==
  ASSUME TypeInv, UNCHANGED owner, UNCHANGED <<refresh, inFlight>>, NEW c \in Calls,
         mishaps' \subseteq {"excused", "mixed", "dropped"}, call' = [call EXCEPT ![c] = Idle]
  PROVE  ClientTyped'
<1>1. Sessions' = Sessions /\ 0 \in Sessions
  BY SessionsStand, ZeroSession DEF TypeInv
<1>2. QED
  BY <1>1, IdleTyped, CallChanges

LEMMA WakeTyped ==
  ASSUME TypeInv, UNCHANGED owner, NEW r \in Refreshes, NEW a \in {"ok", "refused"}, Wake(r, a)
  PROVE  CallsTyped'
<1>1. Sessions' = Sessions
  BY SessionsStand
<1>2. call' = [c \in Calls |-> call'[c]]
  BY DEF Wake
<1>3. ASSUME NEW c \in Calls PROVE Typed(call'[c]) /\ call'[c].tok \in Sessions
  <2>1. Typed(call[c]) /\ call[c].tok \in Sessions
    BY DEF TypeInv, ClientTyped, CallsTyped
  <2>2. CASE c \in Waiting(r)
    <3> DEFINE new == [call[c] EXCEPT !.st = "woken", !.on = None, !.ans = a]
    <3>1. call'[c] = new
      BY <2>2 DEF Wake
    <3>2. Typed(new)
      BY <2>1, <2>2, WokenRecord DEF Waiting
    <3>3. new.tok = call[c].tok
      BY <2>1 DEF Typed, CallType
    <3> HIDE DEF new
    <3>4. QED
      BY <2>1, <3>1, <3>2, <3>3
  <2>3. CASE c \notin Waiting(r)
    BY <2>1, <2>3 DEF Wake
  <2>4. QED
    BY <2>2, <2>3
<1>4. call' \in [Calls -> CallType]
  BY <1>2, <1>3 DEF Typed
<1>5. QED
  BY <1>1, <1>3, <1>4 DEF CallsTyped

\* A refresh is over.
LEMMA RefreshEnds ==
  ASSUME TypeInv, UNCHANGED owner, NEW r \in Refreshes, refresh' = [refresh EXCEPT ![r] = Finished]
  PROVE  RefreshesTyped'
<1>1. Sessions' = Sessions /\ 0 \in Sessions
  BY SessionsStand, ZeroSession DEF TypeInv
<1>2. QED
  BY <1>1, FinishedTyped, OneRefreshTyped DEF TypeInv, ClientTyped

\* LeavePage: what is left of a login or a logout.
LEMMA UnheardRecord ==
  ASSUME NEW rec, Typed(rec), rec.st = "sent", rec.req \in {"login", "logout"}
  PROVE  LET new == [Idle EXCEPT !.st = "sent", !.req = rec.req, !.who = rec.who, !.tok = rec.tok]
         IN  Typed(new) /\ new.tok = rec.tok
<1> DEFINE new == [Idle EXCEPT !.st = "sent", !.req = rec.req, !.who = rec.who, !.tok = rec.tok]
<1>1. rec.req \in Requests /\ rec.who \in Users \cup {None} /\ rec.tok \in Nat
  BY DEF Typed, CallType, Requests
<1>2. new \in CallType
  <2> DEFINE r1 == [Idle EXCEPT !.st = "sent"]
             r2 == [r1 EXCEPT !.req = rec.req]
             r3 == [r2 EXCEPT !.who = rec.who]
             r4 == [r3 EXCEPT !.tok = rec.tok]
  <2>1. Idle \in CallType
    BY IdleTyped DEF Typed
  <2>2. r1 \in CallType
    BY <2>1 DEF CallType
  <2>3. r2 \in CallType
    <3> HIDE DEF r1
    <3> QED
      BY <1>1, <2>2 DEF CallType
  <2>4. r3 \in CallType
    <3> HIDE DEF r2
    <3> QED
      BY <1>1, <2>3 DEF CallType
  <2>5. r4 \in CallType
    <3> HIDE DEF r3
    <3> QED
      BY <1>1, <2>4 DEF CallType
  <2>6. new = r4
    OBVIOUS
  <2>7. QED
    BY <2>5, <2>6
<1>3. /\ new.flow = "none" /\ new.st = "sent" /\ new.req = rec.req /\ new.who = rec.who
      /\ new.ans = "none" /\ new.then = "none" /\ new.tab = None /\ new.tok = rec.tok
  BY DEF Idle
<1> HIDE DEF new
<1>4. CallShape(new)
  BY <1>3 DEF Typed, CallShape
<1>5. QED
  BY <1>2, <1>3, <1>4 DEF Typed, new

LEMMA LeaveTyped ==
  ASSUME TypeInv, UNCHANGED owner, NEW t \in Tabs, LeavePage(t),
         mishaps' \subseteq {"excused", "mixed", "dropped"}
  PROVE  /\ ClientTyped' /\ user' \in [Tabs -> Users \cup {None}]
         /\ loading' \in [Tabs -> BOOLEAN] /\ epoch' \in [Tabs -> Nat]
<1>1. Sessions' = Sessions /\ 0 \in Sessions
  BY SessionsStand, ZeroSession DEF TypeInv
<1>2. CallsTyped'
  <2>1. call' = [c \in Calls |-> call'[c]]
    BY DEF LeavePage, Unheard
  <2>2. ASSUME NEW c \in Calls PROVE Typed(call'[c]) /\ call'[c].tok \in Sessions
    <3>1. Typed(call[c]) /\ call[c].tok \in Sessions
      BY DEF TypeInv, ClientTyped, CallsTyped
    <3> DEFINE left == [Idle EXCEPT !.st = "sent", !.req = call[c].req, !.who = call[c].who,
                                    !.tok = call[c].tok]
    <3>2. \/ call'[c] = call[c] \/ call'[c] = Idle
          \/ call[c].st = "sent" /\ call[c].req \in {"login", "logout"} /\ call'[c] = left
      BY DEF LeavePage, Unheard
    <3>3. call[c].st = "sent" /\ call[c].req \in {"login", "logout"}
            => Typed(left) /\ left.tok = call[c].tok
      BY <3>1, UnheardRecord
    <3> HIDE DEF left
    <3>4. QED
      BY <1>1, <3>1, <3>2, <3>3, IdleTyped
  <2>3. call' \in [Calls -> CallType]
    BY <2>1, <2>2 DEF Typed
  <2>4. QED
    BY <1>1, <2>2, <2>3 DEF CallsTyped
<1>3. RefreshesTyped'
  <2>1. refresh' = [r \in Refreshes |-> refresh'[r]]
    BY DEF LeavePage
  <2>2. ASSUME NEW r \in Refreshes
        PROVE  RefreshTyped(refresh'[r]) /\ refresh'[r].tok \in Sessions /\ refresh'[r].new \in Sessions
    <3>1. RefreshTyped(refresh[r]) /\ refresh[r].tok \in Sessions /\ refresh[r].new \in Sessions
      BY DEF TypeInv, ClientTyped, RefreshesTyped
    <3>2. refresh'[r] = refresh[r] \/ refresh'[r] = [refresh[r] EXCEPT !.tab = None]
      BY DEF LeavePage
    <3> DEFINE new == [refresh[r] EXCEPT !.tab = None]
    <3>3. new \in RefreshType
      BY <3>1 DEF RefreshTyped, RefreshType
    <3>4. new.st = refresh[r].st /\ new.tok = refresh[r].tok /\ new.new = refresh[r].new
      BY <3>1 DEF RefreshTyped, RefreshType
    <3> HIDE DEF new
    <3>5. QED
      BY <3>1, <3>2, <3>3, <3>4 DEF RefreshTyped, RefreshShape, new
  <2>3. refresh' \in [Refreshes -> RefreshType]
    BY <2>1, <2>2 DEF RefreshTyped
  <2>4. QED
    BY <1>1, <2>2, <2>3 DEF RefreshesTyped
<1>4. inFlight' \in [Tabs -> Refreshes \cup {None}]
  BY DEF LeavePage, TypeInv, ClientTyped
<1>5. user' \in [Tabs -> Users \cup {None}] /\ loading' \in [Tabs -> BOOLEAN] /\ epoch' \in [Tabs -> Nat]
  BY DEF LeavePage, TypeInv, TabsTyped
<1>6. QED
  BY <1>2, <1>3, <1>4, <1>5 DEF ClientTyped

\* A call ends with what its catch clause does.
LEMMA ThrownTyped ==
  ASSUME TypeInv, UNCHANGED owner, NEW c \in Calls, Thrown(c)
  PROVE  /\ ClientTyped' /\ user' \in [Tabs -> Users \cup {None}]
         /\ loading' \in [Tabs -> BOOLEAN] /\ epoch' \in [Tabs -> Nat]
<1>1. call' = [call EXCEPT ![c] = Idle] /\ UNCHANGED <<refresh, inFlight>>
  BY DEF Thrown, Show, Finish
<1>2. mishaps' \subseteq {"excused", "mixed", "dropped"}
  BY DEF Thrown, Finish, TypeInv, ClientTyped
<1>3. call[c].flow \in {"login", "register"} => call[c].who \in Users
  BY DEF TypeInv, ClientTyped, CallsTyped, Typed, CallShape
<1>4. /\ user \in [Tabs -> Users \cup {None}] /\ loading \in [Tabs -> BOOLEAN]
      /\ epoch \in [Tabs -> Nat]
  BY DEF TypeInv, TabsTyped
<1>5. user' \in [Tabs -> Users \cup {None}] /\ loading' \in [Tabs -> BOOLEAN] /\ epoch' \in [Tabs -> Nat]
  BY <1>3, <1>4 DEF Thrown, Show, Finish
<1>6. QED
  BY <1>1, <1>2, <1>5, EndTyped

-------------------------------------------------------------------------------
(* Types: the actions.                                                         *)

LEMMA BeginTyped ==
  ASSUME TypeInv, NEW c \in Calls, NEW t \in Tabs,
         PageRequest(c, t) \/ FetchUser(c, t) \/ Login(c, t) \/ Logout(c, t)
  PROVE  TypeInv'
<1>1. BackendTyped' /\ Sessions' = Sessions /\ UNCHANGED owner
  <2>1. UNCHANGED serverVars
    BY DEF PageRequest, FetchUser, Login, Logout
  <2>2. QED
    BY <2>1, BackendStands
<1>2. TabsTyped /\ store[t] \in Sessions /\ epoch[t] \in Nat /\ 0 \in Sessions
  BY ZeroSession DEF TypeInv, TabsTyped
<1>3. CASE PageRequest(c, t)
  <2>1. PICK req \in {"get", "post"} : Start(c, t, "page", req, None, 0, store[t])
    BY <1>3 DEF PageRequest
  <2>2. ClientTyped' /\ events' \in 0..MaxEvents
    BY <1>1, <1>2, <2>1, StartTyped
  <2>3. UNCHANGED <<cookies, jar, store, user, loading, epoch, account>>
    BY <1>3 DEF PageRequest
  <2>4. QED
    BY <1>1, <2>2, <2>3, TabsStand DEF TypeInv
<1>4. CASE FetchUser(c, t)
  <2>1. UNCHANGED <<cookies, jar, store, epoch, account>>
    BY <1>4 DEF FetchUser
  <2>2. CASE UNCHANGED <<call, refresh, inFlight, mishaps, events>>
    <3>1. user' \in [Tabs -> Users \cup {None}] /\ loading' \in [Tabs -> BOOLEAN]
      BY <1>2, <1>4 DEF FetchUser, TabsTyped
    <3>2. ClientTyped' /\ events' \in 0..MaxEvents
      BY <1>1, <2>2, ClientStands, EventsStand
    <3>3. QED
      BY <1>1, <1>2, <2>1, <3>1, <3>2 DEF TypeInv, TabsTyped
  <2>3. CASE Start(c, t, "fetch", "me", None, epoch[t], store[t]) /\ UNCHANGED <<user, loading>>
    <3>1. ClientTyped' /\ events' \in 0..MaxEvents
      BY <1>1, <1>2, <2>3, StartTyped
    <3>2. QED
      BY <1>1, <2>1, <2>3, <3>1, TabsStand DEF TypeInv
  <2>4. QED
    BY <1>4, <2>2, <2>3 DEF FetchUser
<1>5. CASE Login(c, t)
  <2>1. epoch' = [epoch EXCEPT ![t] = @ + 1] /\ UNCHANGED <<cookies, jar, user, loading, account>>
    BY <1>5 DEF Login
  <2>2. epoch' \in [Tabs -> Nat] /\ epoch'[t] \in Nat
    BY <1>2, <2>1 DEF TabsTyped
  <2>3. PICK u \in Users :
          \/ /\ store' = [store EXCEPT ![t] = 0]
             /\ Start(c, t, "login", "logout", u, epoch'[t], 0)
          \/ /\ UNCHANGED store
             /\ Start(c, t, "register", "login", u, epoch'[t], store[t])
    BY <1>5 DEF Login
  <2>4. store' \in [Tabs -> Sessions]
    BY <1>2, <2>3 DEF TabsTyped
  <2>5. ClientTyped' /\ events' \in 0..MaxEvents
    BY <1>1, <1>2, <2>2, <2>3, StartTyped
  <2>6. TabsTyped'
    BY <1>1, <1>2, <2>1, <2>2, <2>4 DEF TabsTyped
  <2>7. QED
    BY <1>1, <2>5, <2>6 DEF TypeInv
<1>6. CASE Logout(c, t)
  <2>1. /\ epoch' = [epoch EXCEPT ![t] = @ + 1] /\ store' = [store EXCEPT ![t] = 0]
        /\ UNCHANGED <<cookies, jar, user, loading, account>>
    BY <1>6 DEF Logout
  <2>2. epoch' \in [Tabs -> Nat] /\ epoch'[t] \in Nat
    BY <1>2, <2>1 DEF TabsTyped
  <2>3. Start(c, t, "logout", "logout", None, epoch'[t], 0)
    BY <1>6 DEF Logout
  <2>4. store' \in [Tabs -> Sessions]
    BY <1>2, <2>1 DEF TabsTyped
  <2>5. ClientTyped' /\ events' \in 0..MaxEvents
    BY <1>1, <1>2, <2>2, <2>3, StartTyped
  <2>6. TabsTyped'
    BY <1>1, <1>2, <2>1, <2>2, <2>4 DEF TabsTyped
  <2>7. QED
    BY <1>1, <2>5, <2>6 DEF TypeInv
<1>7. QED
  BY <1>3, <1>4, <1>5, <1>6

LEMMA ServeTyped == ASSUME TypeInv, NEW c \in Calls, Serve(c) PROVE TypeInv'
<1> DEFINE Served(a, tok) ==
      [call[c] EXCEPT !.st = "answered", !.ans = a, !.csrf = FALSE, !.tok = tok]
<1>1. Typed(call[c]) /\ call[c].tok \in Sessions /\ call[c].st = "sent"
  BY DEF Serve, TypeInv, ClientTyped, CallsTyped
<1>2. UNCHANGED <<cookies, jar, store, user, loading, epoch, inFlight, refresh, events, account, mishaps>>
  BY DEF Serve, tabVars, history
<1>3. mishaps' \subseteq {"excused", "mixed", "dropped"} /\ events' \in 0..MaxEvents
  BY <1>2 DEF TypeInv, ClientTyped
<1>4. Sessions \subseteq Nat /\ 0 \in Sessions /\ expired \in Nat
  BY ZeroSession DEF TypeInv, BackendTyped
<1>5. /\ BackendTyped' /\ Sessions \subseteq Sessions'
      /\ \E a \in {"ok", "unauthorized", "forbidden"}, tok \in Sessions' :
           /\ a = "ok" /\ call[c].req \in {"me", "login"} => tok # 0
           /\ call' = [call EXCEPT ![c] = Served(a, tok)]
  <2>1. CASE call[c].req = "login" /\ Issue(call[c].who)
    <3>1. call[c].who \in Users
      BY <1>1, <2>1 DEF Typed, CallShape
    <3>2. live' \subseteq live \cup {Len(owner')}
      BY <2>1 DEF Serve, serverVars
    <3>3. /\ BackendTyped' /\ Sessions \subseteq Sessions'
          /\ Len(owner') \in Sessions' /\ Len(owner') \in Nat \ {0} /\ Len(owner') = Len(owner) + 1
      BY <2>1, <3>1, <3>2, IssueTyped DEF TypeInv
    <3>4. \/ /\ call' = [call EXCEPT ![c].st = "answered", ![c].ans = "ok",
                                     ![c].csrf = FALSE, ![c].tok = Len(owner')]
          \/ call' = [call EXCEPT ![c] = Served("unauthorized", 0)]
      BY <2>1 DEF Serve
    <3>5. CASE call' = [call EXCEPT ![c].st = "answered", ![c].ans = "ok",
                                    ![c].csrf = FALSE, ![c].tok = Len(owner')]
      <4>1. call' = [call EXCEPT ![c] = Served("ok", Len(owner'))]
        BY <3>5 DEF TypeInv, ClientTyped, CallsTyped
      <4>2. QED
        BY <3>3, <4>1
    <3>6. CASE call' = [call EXCEPT ![c] = Served("unauthorized", 0)]
      BY <1>4, <3>3, <3>6
    <3>7. QED
      BY <3>4, <3>5, <3>6
  <2>2. CASE call[c].req = "login" /\ ~Issue(call[c].who)
    <3>1. call' = [call EXCEPT ![c] = Served("unauthorized", 0)] /\ UNCHANGED serverVars
      BY <2>2 DEF Serve
    <3>2. QED
      BY <1>4, <3>1, BackendStands
  <2>3. CASE call[c].req = "logout"
    <3>1. call' = [call EXCEPT ![c] = Served("ok", 0)] /\ live' \subseteq live /\ UNCHANGED <<owner, expired>>
      BY <2>3 DEF Serve
    <3>2. BackendTyped' /\ Sessions' = Sessions
      BY <3>1 DEF TypeInv, BackendTyped, Sessions
    <3>3. QED
      BY <1>4, <2>3, <3>1, <3>2
  <2>4. CASE call[c].req \notin {"login", "logout"}
    <3>1. UNCHANGED serverVars /\ call[c].req \in {"get", "post", "me"}
      BY <2>4 DEF Serve
    <3>2. BackendTyped' /\ Sessions' = Sessions
      BY <3>1, BackendStands
    <3>3. PICK a \in {"ok", "unauthorized", "forbidden"} :
            /\ call' = [call EXCEPT ![c] =
                 [call[c] EXCEPT !.st = "answered", !.ans = a, !.csrf = FALSE,
                                 !.tok = IF call[c].req = "me" /\ a = "ok" THEN @ ELSE 0]]
            /\ a = "ok" => call[c].tok > expired
      BY <2>4 DEF Serve
    <3> DEFINE tok == IF call[c].req = "me" /\ a = "ok" THEN call[c].tok ELSE 0
    <3>4. call' = [call EXCEPT ![c] = Served(a, tok)]
      BY <1>1, <3>3 DEF Typed, CallType
    <3>5. tok \in Sessions /\ (a = "ok" /\ call[c].req \in {"me", "login"} => tok # 0)
      BY <1>1, <1>4, <2>4, <3>3
    <3> HIDE DEF tok
    <3>6. QED
      BY <3>2, <3>4, <3>5
  <2>5. QED
    BY <2>1, <2>2, <2>3, <2>4
<1>6. PICK a \in {"ok", "unauthorized", "forbidden"}, tok \in Sessions' :
        /\ a = "ok" /\ call[c].req \in {"me", "login"} => tok # 0
        /\ call' = [call EXCEPT ![c] = Served(a, tok)]
  BY <1>5
<1>7. tok \in Nat
  <2>1. Len(owner') \in Nat
    BY <1>5 DEF BackendTyped
  <2>2. QED
    BY <2>1 DEF Sessions
<1>8. Typed(Served(a, tok)) /\ Served(a, tok).tok = tok
  <2>1. Typed(Served(a, tok))
    BY <1>1, <1>6, <1>7, ServedRecord
  <2>2. Served(a, tok).tok = tok
    BY <1>1 DEF Typed, CallType
  <2>3. QED
    BY <2>1, <2>2
<1> HIDE DEF Served
<1>9. ClientTyped'
  BY <1>2, <1>3, <1>5, <1>6, <1>8, CallChanges
<1>10. QED
  BY <1>2, <1>3, <1>5, <1>9, TabsStand DEF TypeInv

LEMMA RotateTyped ==
  ASSUME TypeInv, NEW r \in Refreshes, RotateRead(r) \/ RotateCommit(r)
  PROVE  TypeInv'
<1>1. RefreshTyped(refresh[r]) /\ refresh[r].tok \in Sessions /\ refresh[r].new \in Sessions
  BY DEF TypeInv, ClientTyped, RefreshesTyped
<1>2. UNCHANGED <<cookies, jar, store, user, loading, epoch, inFlight, call, events, account, mishaps>>
  BY DEF RotateRead, RotateCommit, tabVars, history
<1>3. BackendTyped /\ Sessions \subseteq Nat
  BY ZeroSession DEF TypeInv
<1>4. \E st \in {"free", "sent", "read", "issued", "refused"}, new \in Nat :
        /\ BackendTyped' /\ Sessions \subseteq Sessions' /\ new \in Sessions'
        /\ st \in {"read", "issued"} => refresh[r].tok # 0
        /\ st = "issued" => new # 0
        /\ refresh' = [refresh EXCEPT ![r] = [refresh[r] EXCEPT !.st = st, !.new = new]]
  <2>1. CASE RotateRead(r)
    <3> DEFINE st == IF refresh[r].tok \in live THEN "read" ELSE "refused"
    <3>1. BackendTyped' /\ Sessions' = Sessions
      BY <2>1, BackendStands DEF RotateRead
    <3>2. refresh' = [refresh EXCEPT ![r] = [refresh[r] EXCEPT !.st = st, !.new = refresh[r].new]]
      <4>1. refresh' = [refresh EXCEPT ![r].st = st]
        BY <2>1 DEF RotateRead
      <4> HIDE DEF st
      <4>2. [refresh[r] EXCEPT !.st = st] = [refresh[r] EXCEPT !.st = st, !.new = refresh[r].new]
        BY <1>1 DEF RefreshTyped, RefreshType
      <4>3. QED
        BY <4>1, <4>2 DEF TypeInv, ClientTyped, RefreshesTyped
    <3>3. st \in {"free", "sent", "read", "issued", "refused"} /\ st # "issued"
          /\ (st = "read" => refresh[r].tok # 0)
      BY <1>3 DEF BackendTyped
    <3> HIDE DEF st
    <3>4. QED
      BY <1>1, <1>3, <3>1, <3>2, <3>3
  <2>2. CASE RotateCommit(r)
    <3>1. /\ Issue(owner[refresh[r].tok]) /\ live' \subseteq live \cup {Len(owner')}
          /\ refresh[r].st = "read"
          /\ refresh' = [refresh EXCEPT ![r].st = "issued", ![r].new = Len(owner')]
      BY <2>2 DEF RotateCommit
    <3>2. owner[refresh[r].tok] \in Users
      BY <1>1, <1>3, <3>1, SessionUser DEF RefreshTyped, RefreshShape
    <3>3. /\ BackendTyped' /\ Sessions \subseteq Sessions'
          /\ Len(owner') \in Sessions' /\ Len(owner') \in Nat \ {0} /\ Len(owner') = Len(owner) + 1
      BY <1>3, <3>1, <3>2, IssueTyped
    <3>4. refresh' = [refresh EXCEPT ![r] = [refresh[r] EXCEPT !.st = "issued", !.new = Len(owner')]]
      BY <3>1 DEF TypeInv, ClientTyped, RefreshesTyped
    <3>5. refresh[r].tok # 0
      BY <1>1, <3>1 DEF RefreshTyped, RefreshShape
    <3>6. QED
      BY <3>3, <3>4, <3>5
  <2>3. QED
    BY <2>1, <2>2
<1>5. PICK st \in {"free", "sent", "read", "issued", "refused"}, new \in Nat :
        /\ BackendTyped' /\ Sessions \subseteq Sessions' /\ new \in Sessions'
        /\ st \in {"read", "issued"} => refresh[r].tok # 0
        /\ st = "issued" => new # 0
        /\ refresh' = [refresh EXCEPT ![r] = [refresh[r] EXCEPT !.st = st, !.new = new]]
  BY <1>4
<1> DEFINE rec == [refresh[r] EXCEPT !.st = st, !.new = new]
<1>6. rec \in RefreshType /\ rec.st = st /\ rec.new = new /\ rec.tok = refresh[r].tok
  BY <1>1 DEF RefreshTyped, RefreshType
<1>7. refresh' = [refresh EXCEPT ![r] = rec]
  BY <1>5
<1> HIDE DEF rec
<1>8. RefreshTyped(rec)
  BY <1>5, <1>6 DEF RefreshTyped, RefreshShape
<1>9. RefreshesTyped'
  BY <1>1, <1>5, <1>6, <1>7, <1>8, OneRefreshTyped DEF TypeInv, ClientTyped
<1>10. CallsTyped'
  BY <1>2, <1>5 DEF TypeInv, ClientTyped, CallsTyped
<1>11. ClientTyped' /\ events' \in 0..MaxEvents
  BY <1>2, <1>9, <1>10 DEF TypeInv, ClientTyped
<1>12. QED
  BY <1>2, <1>5, <1>11, TabsStand DEF TypeInv

LEMMA RefreshOverTyped ==
  ASSUME TypeInv, NEW r \in Refreshes, RefreshAnswered(r) \/ RefreshFails(r)
  PROVE  TypeInv'
<1>1. RefreshTyped(refresh[r]) /\ refresh[r].tok \in Sessions /\ refresh[r].new \in Sessions
  BY DEF TypeInv, ClientTyped, RefreshesTyped
<1>2. BackendTyped' /\ Sessions' = Sessions /\ UNCHANGED owner
  <2>1. UNCHANGED serverVars
    BY DEF RefreshAnswered, RefreshFails
  <2>2. QED
    BY <2>1, BackendStands
<1>3. PICK a \in {"ok", "refused"} : Wake(r, a)
  BY DEF RefreshAnswered, RefreshFails
<1>4. CallsTyped'
  BY <1>2, <1>3, WakeTyped
<1>5. /\ refresh' = [refresh EXCEPT ![r] = Finished]
      /\ inFlight' = [inFlight EXCEPT ![refresh[r].tab] = None]
      /\ mishaps' \subseteq mishaps \cup {"excused", "mixed"}
  BY DEF RefreshAnswered, RefreshFails
<1>6. RefreshesTyped'
  BY <1>2, <1>5, RefreshEnds
<1>7. ClientTyped'
  BY <1>4, <1>5, <1>6 DEF TypeInv, ClientTyped
<1>8. events' \in 0..MaxEvents
  BY EventsStand, FaultCounted DEF RefreshAnswered, RefreshFails
<1>9. TabsTyped'
  <2>1. TabsTyped /\ UNCHANGED <<cookies, user, loading, epoch, account>>
    BY DEF RefreshAnswered, RefreshFails, TypeInv
  <2>2. jar' = jar \/ jar' = refresh[r].new
    BY DEF RefreshAnswered, RefreshFails
  <2>3. ASSUME cookies = FALSE PROVE jar' = jar
    BY <2>3 DEF RefreshAnswered, RefreshFails
  <2>4. store' = store \/ store' = [store EXCEPT ![refresh[r].tab] = refresh[r].new]
    BY DEF RefreshAnswered, RefreshFails
  <2>5. jar' \in Sessions /\ store' \in [Tabs -> Sessions]
    BY <1>1, <2>1, <2>2, <2>4 DEF TabsTyped
  <2>6. QED
    BY <1>2, <2>1, <2>3, <2>5 DEF TabsTyped
<1>10. QED
  BY <1>2, <1>7, <1>8, <1>9 DEF TypeInv

LEMMA TryAgainTyped == ASSUME TypeInv, NEW c \in Calls, TryAgain(c) PROVE TypeInv'
<1> DEFINE rec == [call[c] EXCEPT !.then = call[c].ans, !.ans = "none", !.tok = 0]
<1>1. /\ Typed(call[c]) /\ call[c].st = "answered" /\ call[c].ans \in {"unauthorized", "forbidden"}
      /\ call[c].req # "login" /\ call[c].tab # None /\ TryRefresh(c, rec, store[call[c].tab])
  BY DEF TryAgain, TypeInv, ClientTyped, CallsTyped
<1>2. BackendTyped' /\ Sessions' = Sessions /\ UNCHANGED owner /\ 0 \in Sessions /\ 0 \in Nat
  BY BackendStands, ZeroSession DEF TryAgain, TypeInv
<1>3. Typed(rec)
  BY <1>1, <1>2, AgainRecord
<1>4. rec.tok = 0 /\ rec.flow = call[c].flow /\ rec.req = call[c].req
  BY <1>1 DEF Typed, CallType
<1> HIDE DEF rec
<1>5. call[c].flow # "none"
  BY <1>1 DEF Typed, CallShape
<1>6. call[c].tab \in Tabs
  BY <1>1, <1>5 DEF Typed, CallShape
<1>7. store[call[c].tab] \in Sessions
  BY <1>6 DEF TypeInv, TabsTyped
<1>8. ClientTyped'
  BY <1>1, <1>2, <1>3, <1>4, <1>5, <1>7, TryRefreshTyped
<1>9. UNCHANGED <<cookies, jar, store, user, loading, epoch, account>> /\ events' \in 0..MaxEvents
  BY EventsStand DEF TryAgain
<1>10. QED
  BY <1>2, <1>8, <1>9, TabsStand DEF TypeInv

\* The end of a call for which the tab shows or forgets somebody.
LEMMA RefusedTyped ==
  ASSUME TypeInv, UNCHANGED owner, NEW c \in Calls, call[c].tab \in Tabs, Refused(c)
  PROVE  /\ ClientTyped' /\ user' \in [Tabs -> Users \cup {None}]
         /\ loading' \in [Tabs -> BOOLEAN] /\ epoch' \in [Tabs -> Nat]
         /\ store' \in [Tabs -> Sessions]
<1>1. TabsTyped /\ 0 \in Sessions
  BY ZeroSession DEF TypeInv
<1>2. CASE Thrown(c) /\ UNCHANGED store
  BY <1>1, <1>2, ThrownTyped DEF TabsTyped
<1>3. CASE AuthLost(c)
  <2>1. store' \in [Tabs -> Sessions] /\ mishaps' \subseteq {"excused", "mixed", "dropped"}
    BY <1>1, <1>3 DEF AuthLost, TabsTyped, TypeInv, ClientTyped
  <2>2. CASE user[call[c].tab] # None
    BY <1>3, <2>1, <2>2, LeaveTyped DEF AuthLost
  <2>3. CASE user[call[c].tab] = None
    <3>1. call' = [call EXCEPT ![c] = Idle] /\ UNCHANGED <<refresh, inFlight>>
      BY <1>3, <2>3 DEF AuthLost
    <3>2. ClientTyped'
      BY <2>1, <3>1, EndTyped
    <3>3. /\ user' = user /\ loading' = [loading EXCEPT ![call[c].tab] = FALSE]
          /\ epoch' = [epoch EXCEPT ![call[c].tab] = @ + 1]
      BY <1>3, <2>3 DEF AuthLost
    <3>4. user' \in [Tabs -> Users \cup {None}] /\ loading' \in [Tabs -> BOOLEAN]
      BY <1>1, <3>3 DEF TabsTyped
    <3>5. epoch' \in [Tabs -> Nat]
      BY <1>1, <3>3 DEF TabsTyped
    <3>6. QED
      BY <2>1, <3>2, <3>4, <3>5
  <2>4. QED
    BY <2>2, <2>3
<1>4. QED
  BY <1>2, <1>3 DEF Refused

LEMMA GiveUpTyped == ASSUME TypeInv, NEW c \in Calls, GiveUp(c) PROVE TypeInv'
<1>1. BackendTyped' /\ Sessions' = Sessions /\ UNCHANGED owner
  BY BackendStands DEF GiveUp
<1>2. UNCHANGED <<cookies, jar, account>> /\ events' \in 0..MaxEvents /\ TabsTyped
  BY EventsStand DEF GiveUp, TypeInv
<1>3. call[c].tab \in Tabs
  BY DEF GiveUp, TypeInv, ClientTyped, CallsTyped, Typed, CallType
<1>4. CASE Finish(c) /\ UNCHANGED <<store, user, loading, epoch>>
  <2>1. ClientTyped'
    BY <1>1, <1>4, EndTyped DEF Finish, TypeInv, ClientTyped
  <2>2. QED
    BY <1>1, <1>2, <1>4, <2>1, TabsStand DEF TypeInv
<1>5. CASE Refused(c)
  <2>1. /\ ClientTyped' /\ user' \in [Tabs -> Users \cup {None}]
        /\ loading' \in [Tabs -> BOOLEAN] /\ epoch' \in [Tabs -> Nat]
        /\ store' \in [Tabs -> Sessions]
    BY <1>1, <1>3, <1>5, RefusedTyped
  <2>2. TabsTyped'
    BY <1>1, <1>2, <2>1 DEF TabsTyped
  <2>3. QED
    BY <1>1, <1>2, <2>1, <2>2 DEF TypeInv
<1>6. QED
  BY <1>4, <1>5 DEF GiveUp

LEMMA FailureHandledTyped == ASSUME TypeInv, NEW c \in Calls, FailureHandled(c) PROVE TypeInv'
<1>1. BackendTyped' /\ Sessions' = Sessions /\ UNCHANGED owner
  BY BackendStands DEF FailureHandled
<1>2. UNCHANGED <<cookies, jar, store, account>> /\ events' \in 0..MaxEvents /\ TabsTyped
  BY EventsStand DEF FailureHandled, TypeInv
<1>3. /\ ClientTyped' /\ user' \in [Tabs -> Users \cup {None}]
      /\ loading' \in [Tabs -> BOOLEAN] /\ epoch' \in [Tabs -> Nat]
  BY <1>1, ThrownTyped DEF FailureHandled
<1>4. TabsTyped'
  BY <1>1, <1>2, <1>3 DEF TabsTyped
<1>5. QED
  BY <1>1, <1>2, <1>3, <1>4 DEF TypeInv

LEMMA GoOnTyped == ASSUME TypeInv, WokenInTab, NEW c \in Calls, GoOn(c) PROVE TypeInv'
<1> DEFINE rec == [call[c] EXCEPT !.ans = "none"]
           again == [rec EXCEPT !.retry = TRUE]
<1>1. Typed(call[c]) /\ call[c].st = "woken" /\ call[c].tok \in Sessions
  BY DEF GoOn, TypeInv, ClientTyped, CallsTyped
<1>2. Typed(rec) /\ Typed(again)
  BY <1>1, AnsRecord, RetryRecord
<1>3. /\ rec.tok \in Sessions /\ rec.flow = call[c].flow /\ rec.tab = call[c].tab
      /\ again.tok \in Sessions /\ again.flow = call[c].flow
  BY <1>1 DEF Typed, CallType
<1>4. Send(c, rec, store[rec.tab]) \/ Request(c, again, store[rec.tab])
  BY DEF GoOn
<1> HIDE DEF rec, again
<1>5. call[c].tab \in Tabs
  BY <1>1 DEF WokenInTab
<1>6. call[c].flow # "none"
  BY <1>1 DEF Typed, CallShape
<1>7. store[rec.tab] \in Sessions
  BY <1>3, <1>5 DEF TypeInv, TabsTyped
<1>8. UNCHANGED <<cookies, jar, store, user, loading, epoch, account>> /\ UNCHANGED serverVars
      /\ events' \in 0..MaxEvents
  BY EventsStand DEF GoOn, tabVars
<1>9. BackendTyped' /\ Sessions' = Sessions /\ UNCHANGED owner
  BY <1>8, BackendStands
<1>10. ClientTyped'
  BY <1>2, <1>3, <1>4, <1>6, <1>7, <1>9, SendTyped, RequestTyped
<1>11. QED
  BY <1>8, <1>9, <1>10, TabsStand DEF TypeInv

LEMMA CallFailsTyped == ASSUME TypeInv, NEW c \in Calls, CallFails(c) PROVE TypeInv'
<1> DEFINE rec == [call[c] EXCEPT !.st = "answered", !.ans = "failed", !.tok = 0]
<1>1. Typed(call[c]) /\ call[c].tab # None /\ call[c].st \in {"sent", "answered"}
  BY DEF CallFails, TypeInv, ClientTyped, CallsTyped
<1>2. BackendTyped' /\ Sessions' = Sessions /\ UNCHANGED owner /\ 0 \in Sessions /\ 0 \in Nat
  BY BackendStands, ZeroSession DEF CallFails, TypeInv
<1>3. call[c].flow # "none"
  BY <1>1 DEF Typed, CallShape
<1>4. Typed(rec)
  BY <1>1, <1>2, <1>3, FailedRecord
<1>5. rec.tok = 0
  BY <1>1 DEF Typed, CallType
<1>6. call' = [call EXCEPT ![c] = rec]
  BY DEF CallFails
<1> HIDE DEF rec
<1>7. /\ UNCHANGED <<cookies, jar, store, user, loading, epoch, inFlight, refresh, account, mishaps>>
      /\ events' \in 0..MaxEvents
  BY FaultCounted DEF CallFails, tabVars, history
<1>8. mishaps' \subseteq {"excused", "mixed", "dropped"}
  BY <1>7 DEF TypeInv, ClientTyped
<1>9. ClientTyped'
  BY <1>2, <1>4, <1>5, <1>6, <1>7, <1>8, CallChanges
<1>10. QED
  BY <1>2, <1>7, <1>9, TabsStand DEF TypeInv

LEMMA AnsweredTyped == ASSUME TypeInv, NEW c \in Calls, Answered(c) PROVE TypeInv'
<1> DEFINE t == call[c].tab
<1>1. Typed(call[c]) /\ call[c].tok \in Sessions /\ call[c].tab # None
  BY DEF Answered, TypeInv, ClientTyped, CallsTyped
<1>2. UNCHANGED cookies /\ BackendTyped' /\ Sessions' = Sessions /\ UNCHANGED owner
      /\ 0 \in Sessions /\ 0 \in Nat /\ events' \in 0..MaxEvents
  BY BackendStands, ZeroSession, EventsStand DEF Answered, TypeInv
<1>3. t \in Tabs /\ call[c].flow # "none"
  BY <1>1 DEF Typed, CallType, CallShape
<1>4. TabsTyped /\ BackendTyped /\ store[t] \in Sessions
  BY <1>3 DEF TypeInv, TabsTyped
<1>5. \/ call[c].st = "answered" /\ call[c].ans = "ok"
      \/ call[c].st = "woken" /\ call[c].then = "sync" /\ call[c].flow = "fetch" /\ call[c].who \in Users
      \/ call[c].st = "answered" /\ call[c].ans = "failed" /\ call[c].req = "logout"
  BY <1>1 DEF Answered, Typed, CallShape
<1>6. call[c].st = "answered" /\ call[c].ans = "ok" /\ call[c].req \in {"me", "login"}
        => owner[call[c].tok] \in Users
  BY <1>1, <1>4, SessionUser DEF Typed, CallShape
<1>7. call[c].flow \in {"login", "register"} => call[c].who \in Users
  BY <1>1 DEF Typed, CallShape
<1>8. call[c].flow = "fetch" => call[c].req = "me"
  BY <1>1 DEF Typed, CallShape
<1>9. mishaps \subseteq {"excused", "mixed", "dropped"}
  BY DEF TypeInv, ClientTyped
<1> HIDE DEF t
<1>10. CASE PageAnswered(c)
  <2>1. ClientTyped'
    BY <1>2, <1>9, <1>10, EndTyped DEF PageAnswered, Finish
  <2>2. UNCHANGED <<cookies, jar, store, user, loading, epoch, account>>
    BY <1>2, <1>10 DEF PageAnswered
  <2>3. QED
    BY <1>2, <2>1, <2>2, TabsStand DEF TypeInv
<1>11. CASE UserFetched(c)
  <2>1. UNCHANGED <<jar, store, epoch, account>> /\ call[c].flow = "fetch"
    BY <1>11 DEF UserFetched
  <2>2. CASE Finish(c) /\ UNCHANGED <<user, loading>>
    <3>1. ClientTyped'
      BY <1>2, <1>9, <2>2, EndTyped DEF Finish
    <3>2. QED
      BY <1>2, <2>1, <2>2, <3>1, TabsStand DEF TypeInv
  <2>3. ASSUME NEW u \in Users, Show(c, u), UNCHANGED mishaps PROVE TypeInv'
    <3>1. ClientTyped'
      BY <1>2, <1>9, <2>3, EndTyped DEF Show
    <3>2. user' \in [Tabs -> Users \cup {None}] /\ loading' \in [Tabs -> BOOLEAN]
      BY <1>4, <2>3 DEF Show, TabsTyped
    <3>3. TabsTyped'
      BY <1>2, <1>4, <2>1, <3>2 DEF TabsTyped
    <3>4. QED
      BY <1>2, <3>1, <3>3 DEF TypeInv
  <2> DEFINE rec == [call[c] EXCEPT !.then = "sync", !.who = owner[call[c].tok], !.ans = "none",
                                    !.tok = 0]
  <2>4. CASE call[c].st = "answered" /\ TryRefresh(c, rec, 0) /\ UNCHANGED <<user, loading>>
    <3>1. owner[call[c].tok] \in Users
      BY <1>5, <1>6, <1>8, <2>1, <2>4
    <3>2. Typed(rec)
      BY <1>1, <1>2, <2>1, <3>1, SyncRecord
    <3>3. rec.tok = 0 /\ rec.flow = call[c].flow /\ rec.req = call[c].req
      BY <1>1 DEF Typed, CallType
    <3> HIDE DEF rec
    <3>4. ClientTyped'
      BY <1>2, <1>8, <2>1, <2>4, <3>2, <3>3, TryRefreshTyped
    <3>5. QED
      BY <1>2, <2>1, <2>4, <3>4, TabsStand DEF TypeInv
  <2>5. \/ Finish(c) /\ UNCHANGED <<user, loading>>
        \/ call[c].st = "answered" /\ TryRefresh(c, rec, 0) /\ UNCHANGED <<user, loading>>
        \/ Show(c, IF call[c].st = "woken" THEN call[c].who ELSE owner[call[c].tok]) /\ UNCHANGED mishaps
    BY <1>11 DEF UserFetched
  <2>6. (IF call[c].st = "woken" THEN call[c].who ELSE owner[call[c].tok]) \in Users
    BY <1>5, <1>6, <1>8, <2>1
  <2> HIDE DEF rec
  <2>7. QED
    BY <2>2, <2>3, <2>4, <2>5, <2>6
<1>12. CASE SessionCleared(c)
  <2> DEFINE rec == [call[c] EXCEPT !.req = "login", !.ans = "none"]
  <2>1. /\ call[c].flow = "login" /\ Send(c, rec, store[t])
        /\ jar' = 0 \/ jar' = jar
        /\ UNCHANGED <<store, user, loading, epoch, account>>
    BY <1>12 DEF SessionCleared, t
  <2>2. Typed(rec)
    BY <1>1, <1>5, <2>1, ClearedRecord
  <2>3. rec.flow = "login"
    BY <1>1, <2>1 DEF Typed, CallType
  <2> HIDE DEF rec
  <2>4. ClientTyped'
    BY <1>2, <1>4, <2>1, <2>2, <2>3, SendTyped
  <2>5. TabsTyped'
    BY <1>2, <1>4, <2>1 DEF TabsTyped
  <2>6. QED
    BY <1>2, <2>4, <2>5 DEF TypeInv
<1>13. CASE LoggedIn(c)
  <2> DEFINE rec == [call[c] EXCEPT !.req = "me", !.ans = "none", !.st = "sent"]
  <2>1. /\ call[c].flow \in {"login", "register"}
        /\ jar' = (IF cookies THEN call[c].tok ELSE jar)
        /\ store' = [store EXCEPT ![t] = call[c].tok]
        /\ account' = [tab |-> t, user |-> call[c].who]
        /\ UNCHANGED <<user, loading, epoch>>
    BY <1>13 DEF LoggedIn, t
  <2>2. \/ call' = [call EXCEPT ![c] = rec] /\ UNCHANGED <<refresh, inFlight, mishaps>>
        \/ Finish(c)
    BY <1>13 DEF LoggedIn
  <2>3. Typed(rec)
    BY <1>1, <2>1, ConfirmRecord
  <2>4. rec.tok = call[c].tok
    BY <1>1 DEF Typed, CallType
  <2> HIDE DEF rec
  <2>5. ASSUME call' = [call EXCEPT ![c] = rec], UNCHANGED <<refresh, inFlight, mishaps>>
        PROVE  ClientTyped'
    BY <1>1, <1>2, <1>9, <2>3, <2>4, <2>5, CallChanges
  <2>6. ASSUME Finish(c) PROVE ClientTyped'
    BY <1>2, <1>9, <2>6, EndTyped DEF Finish
  <2>7. ClientTyped'
    BY <2>2, <2>5, <2>6
  <2>8. store' \in [Tabs -> Sessions] /\ jar' \in Sessions /\ (~cookies => jar' = 0)
    BY <1>1, <1>4, <2>1 DEF TabsTyped
  <2>9. account' \in [tab : Tabs, user : Users]
    BY <1>3, <1>7, <2>1
  <2>10. TabsTyped'
    BY <1>2, <1>4, <2>1, <2>8, <2>9 DEF TabsTyped
  <2>11. QED
    BY <1>2, <2>7, <2>10 DEF TypeInv
<1>14. CASE Confirmed(c)
  <2>1. /\ UNCHANGED <<jar, store, epoch, account, mishaps>>
        /\ call[c].flow \in {"login", "register"} /\ call[c].req = "me"
        /\ Show(c, IF Current(c) THEN owner[call[c].tok] ELSE call[c].who)
    BY <1>14 DEF Confirmed, history
  <2>2. (IF Current(c) THEN owner[call[c].tok] ELSE call[c].who) \in Users
    BY <1>5, <1>6, <1>7, <2>1
  <2>3. ClientTyped'
    BY <1>2, <1>9, <2>1, EndTyped DEF Show
  <2>4. user' \in [Tabs -> Users \cup {None}] /\ loading' \in [Tabs -> BOOLEAN]
    BY <1>4, <2>1, <2>2 DEF Show, TabsTyped
  <2>5. TabsTyped'
    BY <1>2, <1>4, <2>1, <2>4 DEF TabsTyped
  <2>6. QED
    BY <1>2, <2>3, <2>5 DEF TypeInv
<1>15. CASE LoggedOut(c)
  <2>1. /\ UNCHANGED <<store, epoch, account, mishaps>> /\ Show(c, None)
        /\ jar' = 0 \/ jar' = jar
    BY <1>15 DEF LoggedOut, history
  <2>2. ClientTyped'
    BY <1>2, <1>9, <2>1, EndTyped DEF Show
  <2>3. user' \in [Tabs -> Users \cup {None}] /\ loading' \in [Tabs -> BOOLEAN]
    BY <1>4, <2>1 DEF Show, TabsTyped
  <2>4. TabsTyped'
    BY <1>2, <1>4, <2>1, <2>3 DEF TabsTyped
  <2>5. QED
    BY <1>2, <2>2, <2>4 DEF TypeInv
<1>16. QED
  BY <1>10, <1>11, <1>12, <1>13, <1>14, <1>15 DEF Answered

LEMMA UnwantedTyped == ASSUME TypeInv, Unwanted PROVE TypeInv'
<1>1. BackendTyped' /\ Sessions' = Sessions /\ UNCHANGED owner
  BY BackendStands DEF Unwanted
<1>2. /\ UNCHANGED <<cookies, jar, store, user, loading, epoch, inFlight, account>>
      /\ events' \in 0..MaxEvents
  BY EventsStand DEF Unwanted, tabVars
<1>3. mishaps' \subseteq {"excused", "mixed", "dropped"}
  BY DEF Unwanted, TypeInv, ClientTyped
<1>4. \/ \E c \in Calls : call' = [call EXCEPT ![c] = Idle] /\ UNCHANGED refresh
      \/ \E r \in Refreshes : refresh' = [refresh EXCEPT ![r] = Finished] /\ UNCHANGED call
  BY DEF Unwanted
<1>5. ASSUME NEW c \in Calls, call' = [call EXCEPT ![c] = Idle], UNCHANGED refresh
      PROVE  ClientTyped'
  BY <1>1, <1>2, <1>3, <1>5, EndTyped
<1>6. ASSUME NEW r \in Refreshes, refresh' = [refresh EXCEPT ![r] = Finished], UNCHANGED call
      PROVE  ClientTyped'
  <2>1. RefreshesTyped'
    BY <1>1, <1>6, RefreshEnds
  <2>2. QED
    BY <1>1, <1>2, <1>3, <1>6, <2>1 DEF TypeInv, ClientTyped, CallsTyped
<1>7. ClientTyped'
  BY <1>4, <1>5, <1>6
<1>8. QED
  BY <1>1, <1>2, <1>7, TabsStand DEF TypeInv

LEMMA ReloadTyped == ASSUME TypeInv, NEW t \in Tabs, Reload(t) PROVE TypeInv'
<1>1. BackendTyped' /\ Sessions' = Sessions /\ UNCHANGED owner
  BY BackendStands DEF Reload
<1>2. UNCHANGED <<cookies, jar, store, account, mishaps>> /\ events' \in 0..MaxEvents
  BY FaultCounted DEF Reload, history
<1>3. mishaps' \subseteq {"excused", "mixed", "dropped"}
  BY <1>2 DEF TypeInv, ClientTyped
<1>4. /\ ClientTyped' /\ user' \in [Tabs -> Users \cup {None}]
      /\ loading' \in [Tabs -> BOOLEAN] /\ epoch' \in [Tabs -> Nat]
  BY <1>1, <1>3, LeaveTyped DEF Reload
<1>5. TabsTyped'
  BY <1>1, <1>2, <1>4 DEF TypeInv, TabsTyped
<1>6. QED
  BY <1>1, <1>2, <1>4, <1>5 DEF TypeInv

LEMMA ClockTyped == ASSUME TypeInv, Expire \/ Revoke \/ UNCHANGED vars PROVE TypeInv'
<1>1. /\ UNCHANGED <<cookies, jar, store, user, loading, epoch, inFlight, call, refresh, owner, account>>
      /\ mishaps' \subseteq mishaps \cup {"excused"}
  BY DEF Expire, Revoke, vars, tabVars, history, serverVars
<1>2. Sessions' = Sessions
  BY <1>1, SessionsStand
<1>3. events' \in 0..MaxEvents
  BY EventsStand, FaultCounted DEF Expire, Revoke, vars
<1>4. ClientTyped'
  BY <1>1, <1>2 DEF TypeInv, ClientTyped, CallsTyped, RefreshesTyped
<1>5. BackendTyped'
  <2>1. owner \in Seq(Users) /\ Len(owner) \in Nat /\ live \subseteq 1..Len(owner)
        /\ expired \in 0..Len(owner)
    BY DEF TypeInv, BackendTyped, Sessions
  <2>2. live' = live \/ live' = {}
    BY DEF Expire, Revoke, vars, serverVars
  <2>3. expired' = expired \/ (expired < Len(owner) /\ expired' = expired + 1)
    <3>1. CASE Expire
      BY <3>1 DEF Expire
    <3>2. CASE Revoke
      BY <3>2 DEF Revoke
    <3>3. CASE UNCHANGED vars
      BY <3>3 DEF vars, serverVars
    <3>4. QED
      BY <3>1, <3>2, <3>3
  <2>4. expired' \in Sessions
    BY <2>1, <2>3 DEF Sessions
  <2>5. QED
    BY <1>1, <1>2, <2>1, <2>2, <2>4 DEF BackendTyped
<1>6. QED
  BY <1>1, <1>2, <1>3, <1>4, <1>5, TabsStand DEF TypeInv

LEMMA TypeStep == TypeInv /\ ShareInv /\ [Next]_vars => TypeInv'
<1> SUFFICES ASSUME TypeInv, ShareInv, [Next]_vars PROVE TypeInv'
  OBVIOUS
<1>1. WokenInTab
  BY DEF ShareInv
<1>2. QED
  BY <1>1, BeginTyped, ServeTyped, RotateTyped, RefreshOverTyped, TryAgainTyped, GiveUpTyped,
     FailureHandledTyped, GoOnTyped, CallFailsTyped, AnsweredTyped, UnwantedTyped, ReloadTyped,
     ClockTyped
  DEF Next, Work

LEMMA TypeInit == Init => TypeInv
<1> SUFFICES ASSUME Init PROVE TypeInv
  OBVIOUS
<1>1. owner = <<FirstUser>> /\ live = {1} /\ expired = 0 /\ Len(owner) = 1
  BY DEF Init
<1>2. Sessions = 0..1 /\ BackendTyped
  BY <1>1, SessionAssumption DEF BackendTyped, Sessions
<1>3. ClientTyped
  <2>1. CallsTyped
    BY <1>2, IdleTyped DEF Init, CallsTyped, Typed
  <2>2. RefreshesTyped
    BY <1>2, FinishedTyped DEF Init, RefreshesTyped, RefreshTyped
  <2>3. QED
    BY <2>1, <2>2 DEF Init, ClientTyped
<1>4. TabsTyped
  BY <1>2, SessionAssumption DEF Init, TabsTyped
<1>5. events \in 0..MaxEvents
  BY SessionAssumption DEF Init
<1>6. QED
  BY <1>2, <1>3, <1>4, <1>5 DEF TypeInv

\* Every variable has its type, and no tab, call or refresh knows a session that the
\* backend has not issued, for any number of tabs, calls, refreshes, users and faults.
THEOREM SessionTypes == Spec => []TypeOK
<1>1. TypeInv => TypeOK
  <2> SUFFICES ASSUME TypeInv PROVE TypeOK
    OBVIOUS
  <2>1. call \in [Calls -> CallType] /\ \A c \in Calls : call[c].tok \in Sessions
    BY DEF TypeInv, ClientTyped, CallsTyped, Typed
  <2>2. /\ refresh \in [Refreshes -> RefreshType]
        /\ \A r \in Refreshes : refresh[r].tok \in Sessions /\ refresh[r].new \in Sessions
    BY DEF TypeInv, ClientTyped, RefreshesTyped, RefreshTyped
  <2>3. QED
    BY <2>1, <2>2 DEF TypeInv, TypeOK, ClientTyped, TabsTyped, BackendTyped
<1>2. QED
  BY <1>1, ShareInit, ShareStep, TypeInit, TypeStep, PTL DEF Spec

-------------------------------------------------------------------------------
(* Whose session: what the steps are made of.                                  *)

LEMMA CallFacts ==
  ASSUME TypeInv, NEW c \in Calls
  PROVE  /\ CallShape(call[c]) /\ call[c].tok \in Sessions /\ call[c].epoch \in Nat
         /\ call[c].tab \in Tabs \cup {None}
         /\ call[c].flow = "none" <=> call[c].tab = None
         /\ call[c].tab = None \/ call[c].tab \in Tabs
  BY NoneApart DEF TypeInv, ClientTyped, CallsTyped, Typed, CallShape, CallType

\* What the backend has issued keeps its owner.
OwnersStand == \A n \in Sessions : n # 0 => owner'[n] = owner[n]

\* A call ends, or goes on for the user and in the epoch it had.
Follows(c) ==
  \/ call'[c] = call[c]
  \/ call'[c].flow = "none" /\ call'[c].tab = None /\ call'[c].st # "answered"
  \/ /\ call'[c].flow = call[c].flow /\ call'[c].tab = call[c].tab
     /\ call'[c].epoch = call[c].epoch
     /\ \/ call'[c].req = call[c].req
        \/ call'[c].req = "login" /\ call'[c].st = "sent"
     /\ \/ call'[c].who = call[c].who
        \/ /\ call[c].flow = "fetch" /\ Current(c) /\ call[c].tok # 0
           /\ call'[c].who = owner[call[c].tok]
     /\ call'[c].req = "login" /\ call'[c].st = "answered" /\ call'[c].ans = "ok"
          => owner'[call'[c].tok] = call'[c].who
     /\ call'[c].req = "me" => call'[c].tok \in {0, jar, store[call[c].tab], call[c].tok}

\* The tab shows what it did, or nobody, or somebody it may show while nobody logs in.
ShowsRight(t) ==
  \/ user'[t] = user[t] /\ loading'[t] = loading[t]
  \/ user'[t] = None /\ loading'[t] = FALSE
  \/ /\ \A c \in Calls : call'[c].tab = t => ~InLogin(c)'
     /\ "mixed" \notin mishaps' /\ t = account.tab => user'[t] \in {None, account.user}

\* The tokens of the browser and of the tab of the last login are still of its user.
TokensFollow ==
  "mixed" \notin mishaps' =>
    /\ "mixed" \notin mishaps
    /\ jar' \in {0, jar} \/ owner'[jar'] = account.user
    /\ \/ store'[account.tab] \in {0, store[account.tab]}
       \/ owner'[store'[account.tab]] = account.user

\* The epoch of a tab goes on, or the page is left.
EpochGoesOn(t) ==
  epoch'[t] >= epoch[t] \/ \A c \in Calls : call'[c].tab # t

LEMMA ShownFollows ==
  ASSUME TypeInv, TypeInv', ShownInv, UNCHANGED account, OwnersStand, TokensFollow,
         \A c \in Calls : Follows(c),
         \A t \in Tabs : EpochGoesOn(t) /\ ShowsRight(t)
  PROVE  ShownInv'
<1>1. /\ \A t \in Tabs : epoch[t] \in Nat /\ epoch'[t] \in Nat
      /\ account.tab \in Tabs /\ jar \in Sessions /\ store[account.tab] \in Sessions
  BY DEF TypeInv, TabsTyped
<1>2. EpochsBehind'
  <2> SUFFICES ASSUME NEW c \in Calls, call'[c].flow # "none"
               PROVE  call'[c].epoch <= epoch'[call'[c].tab]
    BY DEF EpochsBehind
  <2>1. /\ call'[c].flow = call[c].flow /\ call'[c].tab = call[c].tab
        /\ call'[c].epoch = call[c].epoch
    BY DEF Follows
  <2>2. call[c].epoch <= epoch[call[c].tab]
    BY <2>1 DEF ShownInv, EpochsBehind
  <2>3. call[c].tab \in Tabs /\ call[c].epoch \in Nat
    BY <2>1, CallFacts DEF CallShape
  <2>4. epoch'[call[c].tab] >= epoch[call[c].tab]
    BY <2>1, <2>3 DEF EpochGoesOn
  <2>5. QED
    BY <1>1, <2>1, <2>2, <2>3, <2>4
<1>3. LoginAlone'
  <2> SUFFICES ASSUME NEW c \in Calls, InLogin(c)'
               PROVE  /\ user'[call'[c].tab] = None /\ ~loading'[call'[c].tab]
                      /\ \A d \in Calls : call'[d].tab = call'[c].tab =>
                           /\ call'[d].flow = "fetch" => call'[d].epoch < epoch'[call'[c].tab]
                           /\ InLogin(d)' => d = c
    BY DEF LoginAlone
  <2> DEFINE t == call[c].tab
  <2>1. call'[c].flow = call[c].flow /\ call'[c].tab = t /\ InLogin(c)
    BY DEF Follows, InLogin
  <2>2. t \in Tabs
    BY <2>1, CallFacts DEF CallShape, InLogin
  <2> HIDE DEF t
  <2>3. /\ user[t] = None /\ ~loading[t]
        /\ \A d \in Calls : call[d].tab = t =>
             /\ call[d].flow = "fetch" => call[d].epoch < epoch[t]
             /\ InLogin(d) => d = c
    BY <2>1 DEF ShownInv, LoginAlone, t
  <2>4. user'[t] = None /\ ~loading'[t]
    BY <2>1, <2>2, <2>3 DEF ShowsRight
  <2>5. epoch'[t] >= epoch[t]
    BY <2>1, <2>2 DEF EpochGoesOn
  <2>6. ASSUME NEW d \in Calls, call'[d].tab = t
        PROVE  /\ call'[d].flow = "fetch" => call'[d].epoch < epoch'[t]
               /\ InLogin(d)' => d = c
    <3>1. /\ call'[d].flow = call[d].flow /\ call[d].tab = t
          /\ call'[d].epoch = call[d].epoch
      BY <2>2, <2>6, NoneApart DEF Follows
    <3>2. call[d].epoch \in Nat
      BY CallFacts
    <3>3. QED
      BY <1>1, <2>2, <2>3, <2>5, <3>1, <3>2 DEF InLogin
  <2>7. QED
    BY <2>1, <2>4, <2>6
<1>4. IssuedToAsker'
  <2> SUFFICES ASSUME NEW c \in Calls, call'[c].st = "answered", call'[c].ans = "ok",
                      call'[c].req = "login"
               PROVE  owner'[call'[c].tok] = call'[c].who
    BY DEF IssuedToAsker
  <2>1. CASE call'[c] = call[c]
    <3>1. owner[call[c].tok] = call[c].who
      BY <2>1 DEF ShownInv, IssuedToAsker
    <3>2. call[c].tok \in Sessions /\ call[c].tok # 0
      BY <2>1, CallFacts DEF CallShape
    <3>3. QED
      BY <2>1, <3>1, <3>2 DEF OwnersStand
  <2>2. CASE call'[c] # call[c]
    BY <2>2 DEF Follows
  <2>3. QED
    BY <2>1, <2>2
<1>5. LastLogin'
  <2> SUFFICES ASSUME NEW c \in Calls, InLogin(c)', call'[c].req = "me",
                      call'[c].tab = account.tab
               PROVE  call'[c].who = account.user
    BY DEF LastLogin
  <2>1. InLogin(c) /\ call[c].req = "me" /\ call[c].tab = account.tab /\ call'[c].who = call[c].who
    BY DEF Follows, InLogin
  <2>2. QED
    BY <2>1 DEF ShownInv, LastLogin
<1>6. ASSUME "mixed" \notin mishaps' PROVE TokensOfAccount'
  <2>1. TokensOfAccount
    BY <1>6 DEF TokensFollow, ShownInv
  <2>2. jar' # 0 => owner'[jar'] = account.user
    BY <1>1, <1>6, <2>1 DEF TokensFollow, TokensOfAccount, OwnersStand
  <2>3. store'[account.tab] # 0 => owner'[store'[account.tab]] = account.user
    BY <1>1, <1>6, <2>1 DEF TokensFollow, TokensOfAccount, OwnersStand
  <2>4. ASSUME NEW c \in Calls, call'[c].tab = account.tab, Current(c)'
        PROVE  /\ call'[c].req = "me" /\ call'[c].tok # 0 => owner'[call'[c].tok] = account.user
               /\ call'[c].flow = "fetch" /\ call'[c].who # None => call'[c].who = account.user
    <3>1. /\ call'[c].flow = call[c].flow /\ call[c].tab = account.tab
          /\ call'[c].epoch = call[c].epoch
      BY <1>1, <2>4, NoneApart DEF Follows
    <3>2. call[c].epoch <= epoch[account.tab] /\ call[c].epoch \in Nat
      BY <1>1, <3>1, CallFacts, NoneApart DEF ShownInv, EpochsBehind
    <3>3. epoch'[account.tab] >= epoch[account.tab] /\ call[c].epoch = epoch'[account.tab]
      BY <1>1, <2>4, <3>1 DEF EpochGoesOn, Current
    <3>4. Current(c)
      BY <1>1, <3>1, <3>2, <3>3 DEF Current
    <3>5. /\ call[c].req = "me" /\ call[c].tok # 0 => owner[call[c].tok] = account.user
          /\ call[c].flow = "fetch" /\ call[c].who # None => call[c].who = account.user
      BY <2>1, <3>1, <3>4 DEF TokensOfAccount
    <3>6. call[c].tok \in Sessions /\ (call[c].flow = "fetch" => call[c].req = "me")
      BY CallFacts DEF CallShape
    <3>7. ASSUME call'[c].req = "me", call'[c].tok # 0 PROVE owner'[call'[c].tok] = account.user
      <4>1. call[c].req = "me" /\ call'[c].tok \in {jar, store[account.tab], call[c].tok}
        <5>1. CASE call'[c] = call[c]
          BY <3>7, <5>1
        <5>2. CASE call'[c] # call[c]
          <6>1. call[c].tab # None
            BY <1>1, <3>1, NoneApart
          <6>2. /\ call'[c].req = call[c].req \/ call'[c].req = "login"
                /\ call'[c].tok \in {0, jar, store[call[c].tab], call[c].tok}
            BY <2>4, <3>1, <3>7, <5>2, <6>1 DEF Follows
          <6>3. QED
            BY <3>1, <3>7, <6>2
        <5>3. QED
          BY <5>1, <5>2
      <4>2. owner[call'[c].tok] = account.user /\ call'[c].tok \in Sessions
        BY <1>1, <2>1, <3>5, <3>6, <3>7, <4>1 DEF TokensOfAccount
      <4>3. QED
        BY <3>7, <4>2 DEF OwnersStand
    <3>8. ASSUME call'[c].flow = "fetch", call'[c].who # None PROVE call'[c].who = account.user
      BY <3>1, <3>5, <3>6, <3>8 DEF Follows
    <3>9. QED
      BY <3>7, <3>8
  <2>5. QED
    BY <2>2, <2>3, <2>4 DEF TokensOfAccount
<1>7. ShownUserRight'
  <2> SUFFICES ASSUME "mixed" \notin mishaps' PROVE user'[account.tab] \in {None, account.user}
    BY DEF ShownUserRight
  <2>1. user[account.tab] \in {None, account.user}
    BY DEF TokensFollow, ShownInv, ShownUserRight
  <2>2. QED
    BY <1>1, <2>1 DEF ShowsRight
<1>8. QED
  BY <1>2, <1>3, <1>4, <1>5, <1>6, <1>7 DEF ShownInv

\* A call that begins: nobody is logging in when it asks who the user is or logs in.
Begins(new) ==
  /\ new.tab \in Tabs /\ new.st \in {"sent", "waiting"}
  /\ new.flow # "none" /\ new.epoch <= epoch'[new.tab]
  /\ new.req = "me" => new.flow = "fetch" /\ new.tok \in {0, jar, store[new.tab]}
  /\ new.flow = "fetch" => new.who = None
  /\ new.flow \in {"login", "register"} =>
       user[new.tab] = None /\ ~loading[new.tab] /\ epoch'[new.tab] > epoch[new.tab]
  /\ new.flow \in {"fetch", "login", "register"} =>
       \A d \in Calls : call[d].tab = new.tab => ~InLogin(d)

\* The tabs may begin new epochs and clear their tokens.
EpochsRise == \A t \in Tabs : epoch'[t] >= epoch[t] /\ store'[t] \in {0, store[t]}

LEMMA ShownBegins ==
  ASSUME TypeInv, TypeInv', ShownInv, NEW c \in Calls, NEW new, call[c] = Idle,
         call' = [call EXCEPT ![c] = new], Begins(new), EpochsRise,
         UNCHANGED <<jar, user, loading, account, owner>>,
         mishaps \subseteq mishaps'
  PROVE  ShownInv'
<1>1. /\ \A t \in Tabs : epoch[t] \in Nat /\ epoch'[t] \in Nat
      /\ account.tab \in Tabs /\ store[account.tab] \in Sessions
  BY DEF TypeInv, TabsTyped
<1>2. call'[c] = new /\ \A d \in Calls \ {c} : call'[d] = call[d]
  BY DEF TypeInv, ClientTyped, CallsTyped
<1>3. \A d \in Calls : call[d].flow # "none" => call[d].tab \in Tabs /\ call[d].epoch \in Nat
  BY CallFacts DEF CallShape
<1>4. EpochsBehind'
  <2> SUFFICES ASSUME NEW d \in Calls, call'[d].flow # "none"
               PROVE  call'[d].epoch <= epoch'[call'[d].tab]
    BY DEF EpochsBehind
  <2>1. CASE d = c
    BY <1>2, <2>1 DEF Begins
  <2>2. CASE d # c
    <3>1. call'[d] = call[d] /\ call[d].epoch <= epoch[call[d].tab]
      BY <1>2, <2>2 DEF ShownInv, EpochsBehind
    <3>2. QED
      BY <1>1, <1>3, <3>1 DEF EpochsRise
  <2>3. QED
    BY <2>1, <2>2
<1>5. LoginAlone'
  <2> SUFFICES ASSUME NEW d \in Calls, InLogin(d)'
               PROVE  /\ user'[call'[d].tab] = None /\ ~loading'[call'[d].tab]
                      /\ \A e \in Calls : call'[e].tab = call'[d].tab =>
                           /\ call'[e].flow = "fetch" => call'[e].epoch < epoch'[call'[d].tab]
                           /\ InLogin(e)' => e = d
    BY DEF LoginAlone
  <2>1. CASE d = c
    <3>1. /\ user'[new.tab] = None /\ ~loading'[new.tab] /\ epoch'[new.tab] > epoch[new.tab]
          /\ new.tab \in Tabs /\ \A e \in Calls : call[e].tab = new.tab => ~InLogin(e)
      BY <1>2, <2>1 DEF InLogin, Begins
    <3>2. ASSUME NEW e \in Calls, e # c, call'[e].tab = new.tab
          PROVE  (call'[e].flow = "fetch" => call'[e].epoch < epoch'[new.tab]) /\ ~InLogin(e)'
      <4>1. call'[e] = call[e] /\ ~InLogin(e)
        BY <1>2, <3>1, <3>2
      <4>2. call[e].flow = "fetch" => call[e].epoch <= epoch[new.tab] /\ call[e].epoch \in Nat
        BY <1>3, <3>2, <4>1 DEF ShownInv, EpochsBehind
      <4>3. QED
        BY <1>1, <3>1, <4>1, <4>2 DEF InLogin
    <3>3. new.flow # "fetch"
      BY <1>2, <2>1 DEF InLogin
    <3>4. QED
      BY <1>2, <2>1, <3>1, <3>2, <3>3
  <2>2. CASE d # c
    <3>1. call'[d] = call[d] /\ InLogin(d) /\ call[d].tab \in Tabs
      BY <1>2, <1>3, <2>2 DEF InLogin
    <3>2. /\ user[call[d].tab] = None /\ ~loading[call[d].tab]
          /\ \A e \in Calls : call[e].tab = call[d].tab =>
               /\ call[e].flow = "fetch" => call[e].epoch < epoch[call[d].tab]
               /\ InLogin(e) => e = d
      BY <3>1 DEF ShownInv, LoginAlone
    <3>3. new.tab = call[d].tab => new.flow \notin {"fetch", "login", "register"}
      BY <3>1 DEF Begins
    <3>4. ASSUME NEW e \in Calls, call'[e].tab = call[d].tab
          PROVE  (call'[e].flow = "fetch" => call'[e].epoch < epoch'[call[d].tab])
                 /\ (InLogin(e)' => e = d)
      <4>1. CASE e = c
        BY <1>2, <3>3, <3>4, <4>1 DEF InLogin
      <4>2. CASE e # c
        <5>1. call'[e] = call[e]
          BY <1>2, <4>2
        <5>2. QED
          BY <1>1, <1>3, <3>1, <3>2, <3>4, <5>1 DEF InLogin, EpochsRise
      <4>3. QED
        BY <4>1, <4>2
    <3>5. QED
      BY <3>1, <3>2, <3>4
  <2>3. QED
    BY <2>1, <2>2
<1>6. IssuedToAsker'
  BY <1>2 DEF Begins, ShownInv, IssuedToAsker
<1>7. LastLogin'
  BY <1>2 DEF Begins, ShownInv, LastLogin, InLogin
<1>8. ASSUME "mixed" \notin mishaps' PROVE TokensOfAccount'
  <2>1. TokensOfAccount
    BY <1>8 DEF ShownInv
  <2>2. (jar' # 0 => owner'[jar'] = account.user)
        /\ (store'[account.tab] # 0 => owner'[store'[account.tab]] = account.user)
    BY <1>1, <2>1 DEF TokensOfAccount, EpochsRise
  <2>3. ASSUME NEW d \in Calls, call'[d].tab = account.tab, Current(d)'
        PROVE  /\ call'[d].req = "me" /\ call'[d].tok # 0 => owner'[call'[d].tok] = account.user
               /\ call'[d].flow = "fetch" /\ call'[d].who # None => call'[d].who = account.user
    <3>1. CASE d = c
      BY <1>2, <2>1, <2>3, <3>1 DEF TokensOfAccount, Begins
    <3>2. CASE d # c
      <4>1. call'[d] = call[d] /\ call[d].flow # "none"
        BY <1>1, <1>2, <2>3, <3>2, CallFacts, NoneApart
      <4>2. call[d].epoch <= epoch[account.tab] /\ call[d].epoch = epoch'[account.tab]
        BY <2>3, <4>1 DEF Current, ShownInv, EpochsBehind
      <4>3. Current(d)
        BY <1>1, <1>3, <2>3, <4>1, <4>2 DEF Current, EpochsRise
      <4>4. QED
        BY <2>1, <2>3, <4>1, <4>3 DEF TokensOfAccount
    <3>3. QED
      BY <3>1, <3>2
  <2>4. QED
    BY <2>2, <2>3 DEF TokensOfAccount
<1>9. ShownUserRight'
  BY DEF ShownInv, ShownUserRight
<1>10. QED
  BY <1>4, <1>5, <1>6, <1>7, <1>8, <1>9 DEF ShownInv

\* What becomes of a call that sends its request or waits for a refresh.
Passed(rec, new, held) ==
  /\ new.flow = rec.flow /\ new.req = rec.req /\ new.tab = rec.tab
  /\ new.epoch = rec.epoch /\ new.who = rec.who
  /\ new.st \in {"sent", "waiting"} /\ (rec.req = "login" => new.st = "sent")
  /\ new.tok \in {0, jar, held, rec.tok}

LEMMA SendPasses ==
  ASSUME NEW c \in Calls, NEW rec, Typed(rec), NEW held, Send(c, rec, held)
  PROVE  /\ \E new : call' = [call EXCEPT ![c] = new] /\ Passed(rec, new, held)
         /\ UNCHANGED <<refresh, inFlight, mishaps>>
<1> DEFINE token == CASE rec.req = "logout" -> jar [] rec.req = "login" -> 0
                      [] OTHER -> Presented(held)
           header == rec.req = "post" /\ (held # 0 \/ jar # 0)
           new == [rec EXCEPT !.st = "sent", !.on = None, !.then = "none", !.tok = token,
                              !.csrf = header]
<1>1. call' = [call EXCEPT ![c] = new] /\ UNCHANGED <<refresh, inFlight, mishaps>>
  BY DEF Send
<1>2. token \in {0, jar, held}
  BY DEF Presented
<1> HIDE DEF token, header
<1>3. Passed(rec, new, held)
  BY <1>2 DEF Passed, Typed, CallType
<1>4. QED
  BY <1>1, <1>3

LEMMA TryRefreshPasses ==
  ASSUME NEW c \in Calls, NEW rec, Typed(rec), rec.req # "login", NEW held,
         TryRefresh(c, rec, held)
  PROVE  /\ \E new : call' = [call EXCEPT ![c] = new] /\ Passed(rec, new, held)
         /\ mishaps \subseteq mishaps'
<1>1. PICK r : call' = [call EXCEPT ![c] = [rec EXCEPT !.st = "waiting", !.on = r]]
  BY DEF TryRefresh
<1> DEFINE new == [rec EXCEPT !.st = "waiting", !.on = r]
<1>2. Passed(rec, new, held)
  BY DEF Passed, Typed, CallType
<1>3. mishaps \subseteq mishaps'
  BY DEF TryRefresh
<1>4. QED
  BY <1>1, <1>2, <1>3

LEMMA RequestPasses ==
  ASSUME NEW c \in Calls, NEW rec, Typed(rec), NEW held, Request(c, rec, held)
  PROVE  /\ \E new : call' = [call EXCEPT ![c] = new] /\ Passed(rec, new, held)
         /\ mishaps \subseteq mishaps'
<1>1. CASE Send(c, rec, held)
  BY <1>1, SendPasses
<1>2. CASE ~Send(c, rec, held)
  <2> DEFINE later == [rec EXCEPT !.then = "send"]
  <2>1. rec.req # "login" /\ TryRefresh(c, later, held)
    BY <1>2 DEF Request, Mutating
  <2>2. Typed(later)
    BY ThenSend
  <2>3. /\ later.flow = rec.flow /\ later.req = rec.req /\ later.tab = rec.tab
        /\ later.epoch = rec.epoch /\ later.who = rec.who /\ later.tok = rec.tok
    BY DEF Typed, CallType
  <2> HIDE DEF later
  <2>4. PICK new : call' = [call EXCEPT ![c] = new] /\ Passed(later, new, held)
    BY <2>1, <2>2, <2>3, TryRefreshPasses
  <2>5. Passed(rec, new, held)
    BY <2>3, <2>4 DEF Passed
  <2>6. mishaps \subseteq mishaps'
    BY <2>1, <2>2, <2>3, TryRefreshPasses
  <2>7. QED
    BY <2>4, <2>5, <2>6
<1>3. QED
  BY <1>1, <1>2

LEMMA StartPasses ==
  ASSUME NEW c \in Calls, NEW t \in Tabs, NEW e \in Nat, NEW who \in Users \cup {None},
         NEW held, NEW flow, NEW req,
         \/ flow = "page" /\ req \in {"get", "post"}
         \/ flow = "fetch" /\ req = "me"
         \/ flow = "login" /\ req = "logout" /\ who \in Users
         \/ flow = "register" /\ req = "login" /\ who \in Users
         \/ flow = "logout" /\ req = "logout",
         Start(c, t, flow, req, who, e, held)
  PROVE  /\ \E new : /\ call' = [call EXCEPT ![c] = new]
                     /\ new.flow = flow /\ new.req = req /\ new.tab = t /\ new.epoch = e
                     /\ new.who = who /\ new.st \in {"sent", "waiting"}
                     /\ new.tok \in {0, jar, held}
         /\ mishaps \subseteq mishaps'
         /\ call[c] = Idle /\ Quiet(t)
<1> DEFINE rec == [Idle EXCEPT !.flow = flow, !.req = req, !.tab = t, !.epoch = e, !.who = who]
<1>1. Typed(rec)
  BY StartRecord
<1>2. rec.tok = 0
  BY StartRecord
<1>3. rec.flow = flow /\ rec.req = req /\ rec.tab = t /\ rec.epoch = e /\ rec.who = who
  BY DEF Idle
<1>4. Request(c, rec, held) /\ call[c] = Idle /\ Quiet(t)
  BY DEF Start
<1> HIDE DEF rec
<1>5. PICK new : call' = [call EXCEPT ![c] = new] /\ Passed(rec, new, held)
  BY <1>1, <1>4, RequestPasses
<1>6. mishaps \subseteq mishaps'
  BY <1>1, <1>4, RequestPasses
<1>7. QED
  BY <1>2, <1>3, <1>4, <1>5, <1>6 DEF Passed

\* Nothing changes in a tab but its calls.
LEMMA ShownStands ==
  ASSUME TypeInv, TypeInv', ShownInv, UNCHANGED <<jar, store, user, loading, epoch, account>>,
         OwnersStand, mishaps \subseteq mishaps',
         \A c \in Calls : Follows(c)
  PROVE  ShownInv'
<1>1. \A t \in Tabs : EpochGoesOn(t) /\ ShowsRight(t)
  BY DEF EpochGoesOn, ShowsRight, TypeInv, TabsTyped
<1>2. TokensFollow
  BY DEF TokensFollow
<1>3. QED
  BY <1>1, <1>2, ShownFollows

LEMMA OverFollows ==
  ASSUME TypeInv, NEW c \in Calls, call' = [call EXCEPT ![c] = Idle]
  PROVE  \A d \in Calls : Follows(d)
<1>1. call'[c] = Idle /\ \A d \in Calls \ {c} : call'[d] = call[d]
  BY DEF TypeInv, ClientTyped, CallsTyped
<1>2. QED
  BY <1>1 DEF Follows, Idle

LEMMA PassedFollows ==
  ASSUME TypeInv, NEW c \in Calls, NEW rec, NEW new, NEW held \in {0, store[call[c].tab]},
         call' = [call EXCEPT ![c] = new], Passed(rec, new, held),
         rec.flow = call[c].flow, rec.tab = call[c].tab, rec.epoch = call[c].epoch,
         rec.req = call[c].req \/ rec.req = "login", rec.tok \in {0, call[c].tok},
         \/ rec.who = call[c].who
         \/ /\ call[c].flow = "fetch" /\ Current(c) /\ call[c].tok # 0
            /\ rec.who = owner[call[c].tok]
  PROVE  \A d \in Calls : Follows(d)
<1>1. call'[c] = new /\ \A d \in Calls \ {c} : call'[d] = call[d]
  BY DEF TypeInv, ClientTyped, CallsTyped
<1>2. Follows(c)
  BY <1>1 DEF Passed, Follows
<1>3. QED
  BY <1>1, <1>2 DEF Follows

LEMMA ShownShow ==
  ASSUME TypeInv, TypeInv', ShownInv, NEW c \in Calls, call[c].tab \in Tabs, NEW u, Show(c, u),
         UNCHANGED <<store, epoch, account, owner>>, jar' \in {0, jar},
         mishaps \subseteq mishaps',
         \/ u = None
         \/ /\ \A d \in Calls \ {c} : call[d].tab = call[c].tab => ~InLogin(d)
            /\ "mixed" \notin mishaps /\ call[c].tab = account.tab => u = account.user
  PROVE  ShownInv'
<1>1. /\ call' = [call EXCEPT ![c] = Idle]
      /\ user' = [user EXCEPT ![call[c].tab] = u]
      /\ loading' = [loading EXCEPT ![call[c].tab] = FALSE]
  BY DEF Show
<1>2. \A d \in Calls : Follows(d)
  BY <1>1, OverFollows
<1>3. call'[c] = Idle /\ \A d \in Calls \ {c} : call'[d] = call[d]
  BY <1>1 DEF TypeInv, ClientTyped, CallsTyped
<1>4. /\ user'[call[c].tab] = u /\ loading'[call[c].tab] = FALSE
      /\ \A t \in Tabs \ {call[c].tab} : user'[t] = user[t] /\ loading'[t] = loading[t]
  BY <1>1 DEF TypeInv, TabsTyped
<1>5. \A t \in Tabs : EpochGoesOn(t)
  BY DEF EpochGoesOn, TypeInv, TabsTyped
<1>6. ShowsRight(call[c].tab)
  <2>1. CASE u = None
    BY <1>4, <2>1 DEF ShowsRight
  <2>2. CASE /\ \A d \in Calls \ {c} : call[d].tab = call[c].tab => ~InLogin(d)
             /\ "mixed" \notin mishaps /\ call[c].tab = account.tab => u = account.user
    <3>1. \A d \in Calls : call'[d].tab = call[c].tab => ~InLogin(d)'
      BY <1>3, <2>2, NoneApart DEF InLogin, Idle
    <3>2. QED
      BY <1>4, <2>2, <3>1 DEF ShowsRight
  <2>3. QED
    BY <2>1, <2>2
<1>7. \A t \in Tabs : ShowsRight(t)
  BY <1>4, <1>6 DEF ShowsRight
<1>8. TokensFollow /\ OwnersStand
  BY DEF TokensFollow, OwnersStand
<1>9. QED
  BY <1>2, <1>5, <1>7, <1>8, ShownFollows

LEMMA ShownLeaves ==
  ASSUME TypeInv, TypeInv', ShownInv, NEW t \in Tabs, LeavePage(t),
         UNCHANGED <<jar, account, owner>>, mishaps \subseteq mishaps',
         \A u \in Tabs : store'[u] \in {0, store[u]}
  PROVE  ShownInv'
<1>1. \A c \in Calls : Follows(c) /\ call'[c].tab # t
  <2> SUFFICES ASSUME NEW c \in Calls PROVE Follows(c) /\ call'[c].tab # t
    OBVIOUS
  <2>1. \/ call'[c] = call[c] /\ call[c].tab # t
        \/ call'[c] = Idle
        \/ call'[c] = [Idle EXCEPT !.st = "sent", !.req = call[c].req, !.who = call[c].who,
                                   !.tok = call[c].tok]
    BY DEF LeavePage, Unheard
  <2>2. CASE call'[c] = call[c] /\ call[c].tab # t
    BY <2>2 DEF Follows
  <2>3. CASE call'[c] # call[c] \/ call[c].tab = t
    <3>1. call'[c].flow = "none" /\ call'[c].tab = None /\ call'[c].st # "answered"
      <4>1. CASE call'[c] = Idle
        BY <4>1 DEF Idle
      <4>2. CASE call'[c] # Idle
        <5>1. call'[c] = [Idle EXCEPT !.st = "sent", !.req = call[c].req, !.who = call[c].who,
                                      !.tok = call[c].tok]
          BY <2>1, <2>3, <4>2
        <5>2. QED
          BY <5>1 DEF Idle
      <4>3. QED
        BY <4>1, <4>2
    <3>2. QED
      BY <3>1, NoneApart DEF Follows
  <2>4. QED
    BY <2>2, <2>3
<1>2. /\ user'[t] = None /\ \A u \in Tabs \ {t} : user'[u] = user[u] /\ loading'[u] = loading[u]
      /\ \A u \in Tabs \ {t} : epoch'[u] = epoch[u]
  BY DEF LeavePage, TypeInv, TabsTyped
<1>3. \A u \in Tabs : EpochGoesOn(u)
  BY <1>1, <1>2 DEF EpochGoesOn, TypeInv, TabsTyped
<1>4. \A u \in Tabs : ShowsRight(u)
  BY <1>1, <1>2 DEF ShowsRight
<1>5. account.tab \in Tabs
  BY DEF TypeInv, TabsTyped
<1>6. TokensFollow /\ OwnersStand
  BY <1>5 DEF TokensFollow, OwnersStand
<1>7. QED
  BY <1>1, <1>3, <1>4, <1>6, ShownFollows

\* A call ends with what its catch clause does.
LEMMA ShownThrown ==
  ASSUME TypeInv, TypeInv', ShownInv, NEW c \in Calls, Thrown(c),
         UNCHANGED <<jar, store, account, owner>>
  PROVE  ShownInv'
<1>1. mishaps \subseteq mishaps'
  BY DEF Thrown, Finish
<1>2. OwnersStand
  BY DEF OwnersStand
<1>3. CASE Finish(c) /\ UNCHANGED <<user, loading, epoch>>
  <2>1. call' = [call EXCEPT ![c] = Idle]
    BY <1>3 DEF Finish
  <2>2. \A d \in Calls : Follows(d)
    BY <2>1, OverFollows
  <2>3. QED
    BY <1>1, <1>2, <1>3, <2>2, ShownStands
<1>4. CASE call[c].flow = "fetch" /\ Show(c, None) /\ UNCHANGED epoch
  <2>1. call[c].tab \in Tabs
    BY <1>4, CallFacts DEF CallShape
  <2>2. QED
    BY <1>1, <1>4, <2>1, ShownShow
<1>5. CASE InLogin(c) /\ call[c].req = "me" /\ Show(c, call[c].who) /\ UNCHANGED epoch
  <2>1. call[c].tab \in Tabs
    BY <1>5, CallFacts DEF CallShape, InLogin
  <2>2. \A d \in Calls \ {c} : call[d].tab = call[c].tab => ~InLogin(d)
    BY <1>5 DEF ShownInv, LoginAlone
  <2>3. call[c].tab = account.tab => call[c].who = account.user
    BY <1>5 DEF ShownInv, LastLogin
  <2>4. QED
    BY <1>1, <1>5, <2>1, <2>2, <2>3, ShownShow
<1>6. QED
  BY <1>3, <1>4, <1>5 DEF Thrown, InLogin

-------------------------------------------------------------------------------
(* Whose session: the actions.                                                 *)

LEMMA ShownBegin ==
  ASSUME TypeInv, TypeInv', ShownInv, NEW c \in Calls, NEW t \in Tabs,
         PageRequest(c, t) \/ FetchUser(c, t) \/ Login(c, t) \/ Logout(c, t)
  PROVE  ShownInv'
<1>1. UNCHANGED <<jar, account, owner>>
  BY DEF PageRequest, FetchUser, Login, Logout, serverVars
<1>2. TabsTyped /\ epoch[t] \in Nat /\ epoch'[t] \in Nat /\ 0 \in Nat
      /\ \A u \in Tabs : epoch[u] >= epoch[u]
  BY DEF TypeInv, TabsTyped
<1>3. CASE PageRequest(c, t)
  <2>1. PICK req \in {"get", "post"} : Start(c, t, "page", req, None, 0, store[t])
    BY <1>3 DEF PageRequest
  <2>2. mishaps \subseteq mishaps' /\ call[c] = Idle
    BY <1>2, <2>1, StartPasses
  <2>3. PICK new : /\ call' = [call EXCEPT ![c] = new]
                   /\ new.flow = "page" /\ new.req = req /\ new.tab = t /\ new.epoch = 0
                   /\ new.st \in {"sent", "waiting"}
    BY <1>2, <2>1, StartPasses
  <2>4. UNCHANGED <<store, user, loading, epoch>>
    BY <1>3 DEF PageRequest
  <2>5. Begins(new) /\ EpochsRise
    BY <1>2, <2>3, <2>4 DEF Begins, EpochsRise
  <2>6. QED
    BY <1>1, <2>2, <2>3, <2>4, <2>5, ShownBegins
<1>4. CASE FetchUser(c, t)
  <2>1. UNCHANGED <<store, epoch>>
    BY <1>4 DEF FetchUser
  <2>2. CASE UNCHANGED <<call, mishaps>> /\ user' = [user EXCEPT ![t] = None]
             /\ loading' = [loading EXCEPT ![t] = FALSE]
    <3>1. \A u \in Tabs : EpochGoesOn(u)
      BY <1>2, <2>1 DEF EpochGoesOn
    <3>2. \A u \in Tabs : ShowsRight(u)
      BY <1>2, <2>2 DEF ShowsRight, TabsTyped
    <3>3. TokensFollow /\ OwnersStand /\ \A d \in Calls : Follows(d)
      BY <1>1, <2>1, <2>2 DEF TokensFollow, OwnersStand, Follows
    <3>4. QED
      BY <1>1, <3>1, <3>2, <3>3, ShownFollows
  <2>3. CASE Start(c, t, "fetch", "me", None, epoch[t], store[t]) /\ UNCHANGED <<user, loading>>
    <3>1. mishaps \subseteq mishaps'
      BY <1>2, <2>3, StartPasses
    <3>2. PICK new : /\ call' = [call EXCEPT ![c] = new]
                     /\ new.flow = "fetch" /\ new.req = "me" /\ new.tab = t /\ new.epoch = epoch[t]
                     /\ new.who = None /\ new.st \in {"sent", "waiting"}
                     /\ new.tok \in {0, jar, store[t]}
      BY <1>2, <2>3, StartPasses
    <3>3. \A d \in Calls : call[d].tab = t => ~InLogin(d)
      BY <1>4 DEF FetchUser, ShownInv, LoginAlone
    <3>4. call[c] = Idle
      BY <2>3 DEF Start
    <3>5. Begins(new) /\ EpochsRise
      BY <1>2, <2>1, <3>2, <3>3 DEF Begins, EpochsRise
    <3>6. QED
      BY <1>1, <2>3, <3>1, <3>2, <3>4, <3>5, ShownBegins
  <2>4. QED
    BY <1>4, <2>2, <2>3 DEF FetchUser
<1>5. CASE Login(c, t)
  <2>1. /\ epoch' = [epoch EXCEPT ![t] = @ + 1] /\ UNCHANGED <<user, loading>>
        /\ user[t] = None /\ ~loading[t] /\ ~LoggingIn(t)
    BY <1>5 DEF Login
  <2>2. epoch'[t] > epoch[t] /\ \A u \in Tabs : epoch'[u] >= epoch[u]
    BY <1>2, <2>1 DEF TabsTyped
  <2>3. PICK who \in Users :
          \/ /\ store' = [store EXCEPT ![t] = 0]
             /\ Start(c, t, "login", "logout", who, epoch'[t], 0)
          \/ /\ UNCHANGED store
             /\ Start(c, t, "register", "login", who, epoch'[t], store[t])
    BY <1>5 DEF Login
  <2>4. \A u \in Tabs : store'[u] \in {0, store[u]}
    BY <1>2, <2>3 DEF TabsTyped
  <2>5. mishaps \subseteq mishaps' /\ call[c] = Idle
    BY <1>2, <2>3, StartPasses
  <2>6. PICK new : /\ call' = [call EXCEPT ![c] = new] /\ new.flow \in {"login", "register"}
                   /\ new.req \in {"login", "logout"} /\ new.tab = t /\ new.epoch = epoch'[t]
                   /\ new.st \in {"sent", "waiting"}
    <3>1. CASE Start(c, t, "login", "logout", who, epoch'[t], 0)
      BY <1>2, <3>1, StartPasses
    <3>2. CASE Start(c, t, "register", "login", who, epoch'[t], store[t])
      BY <1>2, <3>2, StartPasses
    <3>3. QED
      BY <2>3, <3>1, <3>2
  <2>7. \A d \in Calls : call[d].tab = t => ~InLogin(d)
    BY <2>1 DEF LoggingIn, InLogin
  <2>8. Begins(new) /\ EpochsRise
    BY <1>2, <2>1, <2>2, <2>4, <2>6, <2>7 DEF Begins, EpochsRise
  <2>9. QED
    BY <1>1, <2>1, <2>5, <2>6, <2>8, ShownBegins
<1>6. CASE Logout(c, t)
  <2>1. /\ epoch' = [epoch EXCEPT ![t] = @ + 1] /\ UNCHANGED <<user, loading>>
        /\ store' = [store EXCEPT ![t] = 0]
        /\ Start(c, t, "logout", "logout", None, epoch'[t], 0)
    BY <1>6 DEF Logout
  <2>2. \A u \in Tabs : epoch'[u] >= epoch[u]
    BY <1>2, <2>1 DEF TabsTyped
  <2>3. \A u \in Tabs : store'[u] \in {0, store[u]}
    BY <1>2, <2>1 DEF TabsTyped
  <2>4. mishaps \subseteq mishaps' /\ call[c] = Idle
    BY <1>2, <2>1, StartPasses
  <2>5. PICK new : /\ call' = [call EXCEPT ![c] = new] /\ new.flow = "logout"
                   /\ new.req = "logout" /\ new.tab = t /\ new.epoch = epoch'[t]
                   /\ new.st \in {"sent", "waiting"}
    BY <1>2, <2>1, StartPasses
  <2>6. Begins(new) /\ EpochsRise
    BY <1>2, <2>2, <2>3, <2>5 DEF Begins, EpochsRise
  <2>7. QED
    BY <1>1, <2>1, <2>4, <2>5, <2>6, ShownBegins
<1>7. QED
  BY <1>3, <1>4, <1>5, <1>6

LEMMA IssueStands == ASSUME TypeInv, NEW u, Issue(u) PROVE OwnersStand
<1>1. owner \in Seq(Users) /\ owner' = Append(owner, u) /\ Sessions = 0..Len(owner)
  BY DEF TypeInv, BackendTyped, Issue, Sessions
<1>2. ASSUME NEW n \in Sessions, n # 0 PROVE owner'[n] = owner[n]
  <2>1. n \in 1..Len(owner)
    BY <1>1, <1>2
  <2>2. QED
    BY <1>1, <2>1
<1>3. QED
  BY <1>2 DEF OwnersStand

LEMMA ShownServe == ASSUME TypeInv, TypeInv', ShownInv, NEW c \in Calls, Serve(c) PROVE ShownInv'
<1>1. /\ UNCHANGED <<jar, store, user, loading, epoch, account, mishaps>>
      /\ call[c].st = "sent" /\ Typed(call[c])
  BY DEF Serve, tabVars, history, TypeInv, ClientTyped, CallsTyped
<1>2. OwnersStand
  <2>1. Issue(call[c].who) \/ UNCHANGED owner
    BY DEF Serve, serverVars
  <2>2. QED
    BY <2>1, IssueStands DEF OwnersStand
<1>3. ASSUME NEW d \in Calls \ {c} PROVE call'[d] = call[d]
  BY DEF Serve, TypeInv, ClientTyped, CallsTyped
<1>4. /\ call'[c].flow = call[c].flow /\ call'[c].tab = call[c].tab
      /\ call'[c].epoch = call[c].epoch /\ call'[c].req = call[c].req
      /\ call'[c].who = call[c].who
  <2>1. \E a, x : call' = [call EXCEPT ![c] =
                  [call[c] EXCEPT !.st = "answered", !.ans = a, !.csrf = FALSE, !.tok = x]]
    <3>1. CASE call' = [call EXCEPT ![c].st = "answered", ![c].ans = "ok",
                                    ![c].csrf = FALSE, ![c].tok = Len(owner')]
      BY <3>1 DEF TypeInv, ClientTyped, CallsTyped
    <3>2. CASE ~(call' = [call EXCEPT ![c].st = "answered", ![c].ans = "ok",
                                      ![c].csrf = FALSE, ![c].tok = Len(owner')])
      BY <3>2 DEF Serve
    <3>3. QED
      BY <3>1, <3>2
  <2>2. QED
    BY <1>1, <2>1 DEF TypeInv, ClientTyped, CallsTyped, Typed, CallType
<1>5. call'[c].req = "me" => call'[c].tok \in {0, call[c].tok}
  <2>1. CASE call[c].req = "me"
    <3>1. PICK a : call' = [call EXCEPT ![c] =
                     [call[c] EXCEPT !.st = "answered", !.ans = a, !.csrf = FALSE,
                                     !.tok = IF call[c].req = "me" /\ a = "ok" THEN @ ELSE 0]]
      BY <2>1 DEF Serve
    <3>2. QED
      BY <1>1, <3>1 DEF TypeInv, ClientTyped, CallsTyped, Typed, CallType
  <2>2. QED
    BY <1>4, <2>1
<1>6. ASSUME call'[c].req = "login", call'[c].ans = "ok" PROVE owner'[call'[c].tok] = call'[c].who
  <2>1. CASE Issue(call[c].who) /\ call' = [call EXCEPT ![c].st = "answered", ![c].ans = "ok",
                                                      ![c].csrf = FALSE, ![c].tok = Len(owner')]
    <3>1. call'[c].tok = Len(owner')
      BY <1>1, <2>1 DEF TypeInv, ClientTyped, CallsTyped, Typed, CallType
    <3>2. owner'[Len(owner')] = call[c].who
      <4>1. call[c].who \in Users
        BY <1>1, <1>4, <1>6 DEF Typed, CallShape
      <4>2. owner \in Seq(Users) /\ owner' = Append(owner, call[c].who)
        BY <2>1 DEF TypeInv, BackendTyped, Issue
      <4>3. QED
        BY <4>1, <4>2
    <3>3. QED
      BY <1>4, <3>1, <3>2
  <2>2. CASE call' = [call EXCEPT ![c] =
               [call[c] EXCEPT !.st = "answered", !.ans = "unauthorized", !.csrf = FALSE,
                               !.tok = 0]]
    <3>1. call'[c].ans = "unauthorized"
      BY <1>1, <2>2 DEF TypeInv, ClientTyped, CallsTyped, Typed, CallType
    <3>2. QED
      BY <1>6, <3>1
  <2>3. QED
    BY <1>4, <1>6, <2>1, <2>2 DEF Serve
<1>7. \A d \in Calls : Follows(d)
  BY <1>3, <1>4, <1>5, <1>6 DEF Follows
<1>8. QED
  BY <1>1, <1>2, <1>7, ShownStands

LEMMA ShownRotate ==
  ASSUME TypeInv, TypeInv', ShownInv, NEW r \in Refreshes, RotateRead(r) \/ RotateCommit(r)
  PROVE  ShownInv'
<1>1. UNCHANGED <<jar, store, user, loading, epoch, account, call, mishaps>>
  BY DEF RotateRead, RotateCommit, tabVars, history
<1>2. OwnersStand
  <2>1. UNCHANGED owner \/ \E u : Issue(u)
    BY DEF RotateRead, RotateCommit, serverVars
  <2>2. QED
    BY <2>1, IssueStands DEF OwnersStand
<1>3. \A c \in Calls : Follows(c)
  BY <1>1 DEF Follows
<1>4. QED
  BY <1>1, <1>2, <1>3, ShownStands

LEMMA WakeFollows ==
  ASSUME TypeInv, NEW r \in Refreshes, NEW a, Wake(r, a)
  PROVE  \A c \in Calls : Follows(c)
<1> SUFFICES ASSUME NEW c \in Calls PROVE Follows(c)
  OBVIOUS
<1>1. call[c] \in CallType
  BY DEF TypeInv, ClientTyped, CallsTyped
<1>2. CASE c \in Waiting(r)
  <2>1. call'[c] = [call[c] EXCEPT !.st = "woken", !.on = None, !.ans = a]
    BY <1>2 DEF Wake
  <2>2. QED
    BY <1>1, <2>1 DEF Follows, CallType
<1>3. CASE c \notin Waiting(r)
  BY <1>3 DEF Wake, Follows
<1>4. QED
  BY <1>2, <1>3

LEMMA ShownRefreshOver ==
  ASSUME TypeInv, TypeInv', ShownInv, NEW r \in Refreshes, RefreshAnswered(r) \/ RefreshFails(r)
  PROVE  ShownInv'
<1>1. \A c \in Calls : Follows(c)
  BY WakeFollows DEF RefreshAnswered, RefreshFails
<1>2. UNCHANGED <<user, loading, epoch, account, owner>> /\ mishaps \subseteq mishaps'
  BY DEF RefreshAnswered, RefreshFails, serverVars
<1>3. \A t \in Tabs : EpochGoesOn(t) /\ ShowsRight(t)
  BY <1>2 DEF EpochGoesOn, ShowsRight, TypeInv, TabsTyped
<1>4. TokensFollow
  <2>1. CASE RefreshAnswered(r)
    <3>1. /\ jar' \in {jar, refresh[r].new}
          /\ store' = store \/ store' = [store EXCEPT ![refresh[r].tab] = refresh[r].new]
      BY <2>1 DEF RefreshAnswered
    <3>2. refresh[r].st # "issued" => UNCHANGED <<jar, store>>
      BY <2>1 DEF RefreshAnswered
    <3>3. "mixed" \notin mishaps' /\ refresh[r].st = "issued" => owner[refresh[r].new] = account.user
      BY <2>1 DEF RefreshAnswered
    <3>4. store'[account.tab] \in {store[account.tab], refresh[r].new}
      BY <3>1 DEF TypeInv, TabsTyped
    <3>5. QED
      BY <1>2, <3>1, <3>2, <3>3, <3>4 DEF TokensFollow
  <2>2. CASE RefreshFails(r)
    BY <1>2, <2>2 DEF RefreshFails, TokensFollow
  <2>3. QED
    BY <2>1, <2>2
<1>5. OwnersStand
  BY <1>2 DEF OwnersStand
<1>6. QED
  BY <1>1, <1>2, <1>3, <1>4, <1>5, ShownFollows

LEMMA ShownTryAgain ==
  ASSUME TypeInv, TypeInv', ShownInv, NEW c \in Calls, TryAgain(c)
  PROVE  ShownInv'
<1> DEFINE rec == [call[c] EXCEPT !.then = call[c].ans, !.ans = "none", !.tok = 0]
<1>1. /\ Typed(call[c]) /\ call[c].st = "answered" /\ call[c].ans \in {"unauthorized", "forbidden"}
      /\ call[c].req # "login" /\ TryRefresh(c, rec, store[call[c].tab]) /\ 0 \in Nat
  BY DEF TryAgain, TypeInv, ClientTyped, CallsTyped
<1>2. Typed(rec)
  BY <1>1, AgainRecord
<1>3. /\ rec.flow = call[c].flow /\ rec.req = call[c].req /\ rec.tab = call[c].tab
      /\ rec.epoch = call[c].epoch /\ rec.who = call[c].who /\ rec.tok = 0
  BY <1>1 DEF Typed, CallType
<1> HIDE DEF rec
<1>4. PICK new : call' = [call EXCEPT ![c] = new] /\ Passed(rec, new, store[call[c].tab])
  BY <1>1, <1>2, <1>3, TryRefreshPasses
<1>5. \A d \in Calls : Follows(d)
  BY <1>3, <1>4, PassedFollows
<1>6. UNCHANGED <<jar, store, user, loading, epoch, account, owner>> /\ mishaps \subseteq mishaps'
  BY <1>1, <1>2, <1>3, TryRefreshPasses DEF TryAgain, serverVars
<1>7. QED
  BY <1>5, <1>6, ShownStands DEF OwnersStand

LEMMA ShownGoOn == ASSUME TypeInv, TypeInv', ShownInv, NEW c \in Calls, GoOn(c) PROVE ShownInv'
<1> DEFINE rec == [call[c] EXCEPT !.ans = "none"]
           again == [rec EXCEPT !.retry = TRUE]
           held == store[call[c].tab]
<1>1. Typed(call[c])
  BY DEF TypeInv, ClientTyped, CallsTyped
<1>2. Typed(rec) /\ Typed(again)
  BY <1>1, AnsRecord, RetryRecord
<1>3. /\ rec.flow = call[c].flow /\ rec.req = call[c].req /\ rec.tab = call[c].tab
      /\ rec.epoch = call[c].epoch /\ rec.who = call[c].who /\ rec.tok = call[c].tok
      /\ again.flow = call[c].flow /\ again.req = call[c].req /\ again.tab = call[c].tab
      /\ again.epoch = call[c].epoch /\ again.who = call[c].who /\ again.tok = call[c].tok
  BY <1>1 DEF Typed, CallType
<1>4. Send(c, rec, held) \/ Request(c, again, held)
  <2>1. Send(c, rec, store[rec.tab]) \/ Request(c, again, store[rec.tab])
    BY DEF GoOn
  <2>2. QED
    BY <1>3, <2>1
<1> HIDE DEF rec, again, held
<1>5. /\ mishaps \subseteq mishaps'
      /\ \E new : call' = [call EXCEPT ![c] = new]
                  /\ (Passed(rec, new, held) \/ Passed(again, new, held))
  BY <1>2, <1>4, SendPasses, RequestPasses
<1>6. PICK new : call' = [call EXCEPT ![c] = new]
                 /\ (Passed(rec, new, held) \/ Passed(again, new, held))
  BY <1>5
<1>7. held \in {0, store[call[c].tab]}
  BY DEF held
<1>8. \A d \in Calls : Follows(d)
  BY <1>3, <1>6, <1>7, PassedFollows
<1>9. UNCHANGED <<jar, store, user, loading, epoch, account, owner>>
  BY DEF GoOn, tabVars, serverVars
<1>10. QED
  BY <1>5, <1>8, <1>9, ShownStands DEF OwnersStand

LEMMA ShownGiveUp ==
  ASSUME TypeInv, TypeInv', ShownInv, NEW c \in Calls, GiveUp(c) \/ FailureHandled(c)
  PROVE  ShownInv'
<1>1. UNCHANGED <<jar, account, owner>>
  BY DEF GiveUp, FailureHandled, serverVars
<1>2. \/ Finish(c) /\ UNCHANGED <<store, user, loading, epoch>>
      \/ Thrown(c) /\ UNCHANGED store
      \/ AuthLost(c) /\ call[c].tab \in Tabs
  BY CallFacts DEF GiveUp, FailureHandled, Refused
<1>3. CASE Finish(c) /\ UNCHANGED <<store, user, loading, epoch>>
  <2>1. \A d \in Calls : Follows(d)
    BY <1>3, OverFollows DEF Finish
  <2>2. mishaps \subseteq mishaps'
    BY <1>3 DEF Finish
  <2>3. QED
    BY <1>1, <1>3, <2>1, <2>2, ShownStands DEF OwnersStand
<1>4. CASE Thrown(c) /\ UNCHANGED store
  BY <1>1, <1>4, ShownThrown
<1>5. CASE AuthLost(c) /\ call[c].tab \in Tabs
  <2>1. mishaps \subseteq mishaps' /\ store' = [store EXCEPT ![call[c].tab] = 0]
    BY <1>5 DEF AuthLost
  <2>2. \A u \in Tabs : store'[u] \in {0, store[u]}
    BY <2>1 DEF TypeInv, TabsTyped
  <2>3. CASE user[call[c].tab] # None
    BY <1>1, <1>5, <2>1, <2>2, <2>3, ShownLeaves DEF AuthLost
  <2>4. CASE user[call[c].tab] = None
    <3>1. /\ epoch' = [epoch EXCEPT ![call[c].tab] = @ + 1]
          /\ loading' = [loading EXCEPT ![call[c].tab] = FALSE]
          /\ call' = [call EXCEPT ![c] = Idle] /\ UNCHANGED user
      BY <1>5, <2>4 DEF AuthLost
    <3>2. \A d \in Calls : Follows(d)
      BY <3>1, OverFollows
    <3>3. \A t \in Tabs : EpochGoesOn(t)
      BY <3>1 DEF EpochGoesOn, TypeInv, TabsTyped
    <3>4. \A t \in Tabs : ShowsRight(t)
      BY <2>4, <3>1 DEF ShowsRight, TypeInv, TabsTyped
    <3>5. TokensFollow /\ OwnersStand
      <4>1. account.tab \in Tabs
        BY DEF TypeInv, TabsTyped
      <4>2. QED
        BY <1>1, <2>1, <2>2, <4>1 DEF TokensFollow, OwnersStand
    <3>6. QED
      BY <1>1, <3>2, <3>3, <3>4, <3>5, ShownFollows
  <2>5. QED
    BY <2>3, <2>4
<1>6. QED
  BY <1>2, <1>3, <1>4, <1>5

\* The answer of a login: its user becomes the one the tab may show.
LEMMA ShownLoggedIn ==
  ASSUME TypeInv, TypeInv', ShownInv, NEW c \in Calls, LoggedIn(c), UNCHANGED owner,
         UNCHANGED cookies, call[c].st = "answered", call[c].ans = "ok"
  PROVE  ShownInv'
<1> DEFINE t == call[c].tab
           rec == [call[c] EXCEPT !.req = "me", !.ans = "none", !.st = "sent"]
<1>1. /\ InLogin(c) /\ call[c].req = "login" /\ Typed(call[c])
      /\ jar' = (IF cookies THEN call[c].tok ELSE jar)
      /\ store' = [store EXCEPT ![t] = call[c].tok]
      /\ account' = [tab |-> t, user |-> call[c].who]
      /\ UNCHANGED <<user, loading, epoch>>
  BY DEF LoggedIn, InLogin, TypeInv, ClientTyped, CallsTyped
<1>2. /\ t \in Tabs /\ call[c].tok \in Sessions /\ call[c].tok # 0
      /\ owner[call[c].tok] = call[c].who
  BY <1>1, CallFacts DEF InLogin, CallShape, ShownInv, IssuedToAsker
<1>3. /\ mishaps' = mishaps
      /\ call' = [call EXCEPT ![c] = rec] \/ call' = [call EXCEPT ![c] = Idle]
  BY DEF LoggedIn, Finish
<1>4. /\ rec.flow = call[c].flow /\ rec.req = "me" /\ rec.tab = t /\ rec.st = "sent"
      /\ rec.epoch = call[c].epoch /\ rec.who = call[c].who /\ rec.tok = call[c].tok
  BY <1>1 DEF Typed, CallType
<1>5. \A d \in Calls \ {c} : call'[d] = call[d]
  BY <1>3 DEF TypeInv, ClientTyped, CallsTyped
<1>6. call'[c] = rec \/ call'[c] = Idle
  BY <1>3 DEF TypeInv, ClientTyped, CallsTyped
<1>7. Idle.flow = "none" /\ Idle.tab = None /\ Idle.st = "free" /\ Idle.req = "none"
  BY DEF Idle
<1> HIDE DEF rec
<1>8. account'.tab = t /\ account'.user = call[c].who
  BY <1>1
<1>9. /\ user[t] = None /\ ~loading[t]
      /\ \A d \in Calls : call[d].tab = t =>
           /\ call[d].flow = "fetch" => call[d].epoch < epoch[t]
           /\ InLogin(d) => d = c
  BY <1>1 DEF ShownInv, LoginAlone
<1> HIDE DEF t
<1>10. \A d \in Calls : call'[d] = call[d] \/ (d = c /\ call'[d] = rec) \/ call'[d] = Idle
  BY <1>5, <1>6
<1>11. EpochsBehind'
  <2>1. call[c].epoch <= epoch[t]
    BY <1>1 DEF ShownInv, EpochsBehind, InLogin, t
  <2>2. QED
    BY <1>1, <1>4, <1>7, <1>10, <2>1 DEF ShownInv, EpochsBehind
<1>12. LoginAlone'
  <2> SUFFICES ASSUME NEW d \in Calls, InLogin(d)'
               PROVE  /\ user'[call'[d].tab] = None /\ ~loading'[call'[d].tab]
                      /\ \A e \in Calls : call'[e].tab = call'[d].tab =>
                           /\ call'[e].flow = "fetch" => call'[e].epoch < epoch'[call'[d].tab]
                           /\ InLogin(e)' => e = d
    BY DEF LoginAlone
  <2>1. /\ InLogin(d) /\ call'[d].tab = call[d].tab /\ call[d].tab # None
    <3>1. InLogin(d) /\ call'[d].tab = call[d].tab
      BY <1>4, <1>7, <1>10 DEF InLogin, t
    <3>2. QED
      BY <3>1, CallFacts DEF InLogin
  <2>2. /\ user[call[d].tab] = None /\ ~loading[call[d].tab]
        /\ \A e \in Calls : call[e].tab = call[d].tab =>
             /\ call[e].flow = "fetch" => call[e].epoch < epoch[call[d].tab]
             /\ InLogin(e) => e = d
    BY <2>1 DEF ShownInv, LoginAlone
  <2>3. \A e \in Calls : call'[e].tab = call[d].tab =>
          /\ call'[e].flow = call[e].flow /\ call[e].tab = call[d].tab
          /\ call'[e].epoch = call[e].epoch
    BY <1>4, <1>7, <1>10, <2>1 DEF t
  <2>4. QED
    BY <1>1, <2>1, <2>2, <2>3 DEF InLogin
<1>13. IssuedToAsker'
  BY <1>4, <1>7, <1>10 DEF ShownInv, IssuedToAsker
<1>14. LastLogin'
  <2> SUFFICES ASSUME NEW d \in Calls, InLogin(d)', call'[d].tab = t
               PROVE  call'[d].who = call[c].who
    BY <1>8 DEF LastLogin
  <2>1. InLogin(d) /\ call[d].tab = t
    BY <1>4, <1>7, <1>10 DEF InLogin, t
  <2>2. d = c /\ call'[d] = rec
    BY <1>6, <1>7, <1>9, <2>1 DEF InLogin
  <2>3. QED
    BY <1>4, <2>2
<1>15. ASSUME "mixed" \notin mishaps' PROVE TokensOfAccount'
  <2>1. jar' # 0 => owner'[jar'] = call[c].who
    <3>1. cookies \in BOOLEAN /\ (~cookies => jar = 0)
      BY DEF TypeInv, TabsTyped
    <3>2. cookies = TRUE => jar' = call[c].tok
      BY <1>1
    <3>3. cookies = FALSE => jar' = 0
      BY <1>1, <3>1
    <3>4. QED
      BY <1>2, <3>1, <3>2, <3>3
  <2>2. store'[t] = call[c].tok
    BY <1>1, <1>2 DEF TypeInv, TabsTyped
  <2>3. ASSUME NEW d \in Calls, call'[d].tab = t, Current(d)'
        PROVE  /\ call'[d].req = "me" /\ call'[d].tok # 0 => owner'[call'[d].tok] = call[c].who
               /\ call'[d].flow = "fetch" /\ call'[d].who # None => call'[d].who = call[c].who
    <3>1. CASE d = c
      <4>1. call'[d] = rec
        BY <1>2, <1>6, <1>7, <2>3, <3>1, NoneApart
      <4>2. QED
        BY <1>1, <1>2, <1>4, <4>1 DEF InLogin
    <3>2. CASE d # c
      <4>1. call'[d] = call[d] /\ call[d].tab = t /\ call[d].epoch = epoch[t]
        BY <1>1, <1>5, <2>3, <3>2 DEF Current
      <4>2. call[d].flow # "fetch" /\ ~InLogin(d)
        <5>1. epoch[t] \in Nat
          BY <1>2 DEF TypeInv, TabsTyped
        <5>2. QED
          BY <1>9, <3>2, <4>1, <5>1
      <4>3. call[d].req # "me"
        <5>1. call[d].flow # "none"
          BY <1>2, <4>1, CallFacts, NoneApart
        <5>2. call[d] \in CallType /\ CallShape(call[d])
          BY DEF TypeInv, ClientTyped, CallsTyped, Typed
        <5>3. call[d].flow \in {"page", "logout"}
          BY <4>2, <5>1, <5>2 DEF CallType, Flows, InLogin
        <5>4. QED
          BY <5>2, <5>3 DEF CallShape
      <4>4. QED
        BY <4>1, <4>2, <4>3
    <3>3. QED
      BY <3>1, <3>2
  <2>4. QED
    BY <1>2, <1>8, <2>1, <2>2, <2>3 DEF TokensOfAccount
<1>16. ShownUserRight'
  BY <1>1, <1>8, <1>9 DEF ShownUserRight
<1>17. QED
  BY <1>11, <1>12, <1>13, <1>14, <1>15, <1>16 DEF ShownInv

LEMMA ShownAnswered ==
  ASSUME TypeInv, TypeInv', ShownInv, NEW c \in Calls, Answered(c)
  PROVE  ShownInv'
<1>1. UNCHANGED <<cookies, owner>> /\ OwnersStand /\ call[c].tab # None
  BY DEF Answered, serverVars, OwnersStand
<1>2. Typed(call[c]) /\ call[c].tab \in Tabs
  BY <1>1, CallFacts DEF TypeInv, ClientTyped, CallsTyped
<1>3. \/ call[c].st = "answered" /\ call[c].ans = "ok"
      \/ call[c].st = "woken" /\ call[c].then = "sync" /\ call[c].flow = "fetch" /\ call[c].who \in Users
      \/ call[c].st = "answered" /\ call[c].ans = "failed" /\ call[c].req = "logout"
  BY <1>2 DEF Answered, Typed, CallShape
<1>4. CASE PageAnswered(c)
  <2>1. /\ call' = [call EXCEPT ![c] = Idle] /\ mishaps' = mishaps
        /\ UNCHANGED <<jar, store, user, loading, epoch, account>>
    BY <1>4 DEF PageAnswered, Finish
  <2>2. QED
    BY <1>1, <2>1, OverFollows, ShownStands
<1>5. CASE UserFetched(c)
  <2> DEFINE rec == [call[c] EXCEPT !.then = "sync", !.who = owner[call[c].tok], !.ans = "none",
                                    !.tok = 0]
  <2>1. /\ UNCHANGED <<jar, store, epoch, account>> /\ call[c].flow = "fetch"
        /\ call[c].req = "me"
    BY <1>2, <1>5 DEF UserFetched, Typed, CallShape
  <2>2. call[c].st = "answered" => call[c].tok \in Sessions /\ call[c].tok # 0
    BY <1>2, <1>3, <2>1, CallFacts DEF CallShape
  <2>3. CASE Finish(c) /\ UNCHANGED <<user, loading>>
    <3>1. call' = [call EXCEPT ![c] = Idle] /\ mishaps' = mishaps
      BY <2>3 DEF Finish
    <3>2. QED
      BY <1>1, <2>1, <2>3, <3>1, OverFollows, ShownStands
  <2>4. CASE Current(c) /\ call[c].st = "answered" /\ TryRefresh(c, rec, 0) /\ UNCHANGED <<user, loading>>
    <3>1. owner[call[c].tok] \in Users /\ 0 \in Nat
      BY <2>2, <2>4, SessionUser DEF TypeInv
    <3>2. Typed(rec)
      BY <1>2, <2>1, <3>1, SyncRecord
    <3>3. /\ rec.flow = call[c].flow /\ rec.req = "me" /\ rec.tab = call[c].tab
          /\ rec.epoch = call[c].epoch /\ rec.who = owner[call[c].tok] /\ rec.tok = 0
      BY <1>2, <2>1 DEF Typed, CallType
    <3> HIDE DEF rec
    <3>4. PICK new : call' = [call EXCEPT ![c] = new] /\ Passed(rec, new, 0)
      BY <2>4, <3>2, <3>3, TryRefreshPasses
    <3>5. mishaps \subseteq mishaps'
      BY <2>4, <3>2, <3>3, TryRefreshPasses
    <3>6. \A d \in Calls : Follows(d)
      BY <2>1, <2>2, <2>4, <3>3, <3>4, PassedFollows
    <3>7. QED
      BY <1>1, <2>1, <2>4, <3>5, <3>6, ShownStands
  <2>5. CASE /\ Current(c) /\ mishaps' = mishaps
             /\ Show(c, IF call[c].st = "woken" THEN call[c].who ELSE owner[call[c].tok])
    <3> DEFINE u == IF call[c].st = "woken" THEN call[c].who ELSE owner[call[c].tok]
    <3>1. \A d \in Calls \ {c} : call[d].tab = call[c].tab => ~InLogin(d)
      <4> SUFFICES ASSUME NEW d \in Calls, call[d].tab = call[c].tab, InLogin(d) PROVE FALSE
        OBVIOUS
      <4>1. call[c].epoch < epoch[call[c].tab]
        BY <2>1 DEF ShownInv, LoginAlone
      <4>2. call[c].epoch = epoch[call[c].tab] /\ call[c].epoch \in Nat
        BY <2>5, CallFacts DEF Current
      <4>3. QED
        BY <4>1, <4>2
    <3>2. "mixed" \notin mishaps /\ call[c].tab = account.tab => u = account.user
      <4> SUFFICES ASSUME "mixed" \notin mishaps, call[c].tab = account.tab PROVE u = account.user
        OBVIOUS
      <4>1. /\ call[c].tok # 0 => owner[call[c].tok] = account.user
            /\ call[c].who # None => call[c].who = account.user
        BY <2>1, <2>5 DEF ShownInv, TokensOfAccount
      <4>2. call[c].st = "woken" => call[c].who # None
        BY <1>3, SessionAssumption
      <4>3. call[c].st # "woken" => call[c].tok # 0
        BY <1>3, <2>2
      <4>4. QED
        BY <4>1, <4>2, <4>3
    <3>3. Show(c, u)
      BY <2>5
    <3> HIDE DEF u
    <3>4. QED
      BY <1>1, <1>2, <2>1, <2>5, <3>1, <3>2, <3>3, ShownShow
  <2>6. QED
    BY <1>5, <2>3, <2>4, <2>5 DEF UserFetched
<1>6. CASE SessionCleared(c)
  <2> DEFINE rec == [call[c] EXCEPT !.req = "login", !.ans = "none"]
  <2>1. /\ call[c].flow = "login" /\ Send(c, rec, store[call[c].tab])
        /\ jar' \in {0, jar} /\ UNCHANGED <<store, user, loading, epoch, account>>
    BY <1>6 DEF SessionCleared
  <2>2. Typed(rec)
    BY <1>2, <1>3, <2>1, ClearedRecord
  <2>3. /\ rec.flow = call[c].flow /\ rec.req = "login" /\ rec.tab = call[c].tab
        /\ rec.epoch = call[c].epoch /\ rec.who = call[c].who /\ rec.tok = call[c].tok
    BY <1>2 DEF Typed, CallType
  <2> HIDE DEF rec
  <2>4. PICK new : call' = [call EXCEPT ![c] = new] /\ Passed(rec, new, store[call[c].tab])
    BY <2>1, <2>2, SendPasses
  <2>5. mishaps' = mishaps
    BY <2>1, <2>2, SendPasses
  <2>6. \A d \in Calls : Follows(d)
    BY <2>3, <2>4, PassedFollows
  <2>7. \A t \in Tabs : EpochGoesOn(t) /\ ShowsRight(t)
    BY <2>1 DEF EpochGoesOn, ShowsRight, TypeInv, TabsTyped
  <2>8. TokensFollow
    BY <2>1, <2>5 DEF TokensFollow
  <2>9. QED
    BY <1>1, <2>1, <2>6, <2>7, <2>8, ShownFollows
<1>7. CASE LoggedIn(c)
  <2>1. call[c].st = "answered" /\ call[c].ans = "ok"
    BY <1>3, <1>7 DEF LoggedIn
  <2>2. QED
    BY <1>1, <1>7, <2>1, ShownLoggedIn
<1>8. CASE Confirmed(c)
  <2> DEFINE u == IF Current(c) THEN owner[call[c].tok] ELSE call[c].who
  <2>1. /\ UNCHANGED <<jar, store, epoch, account, mishaps>>
        /\ InLogin(c) /\ call[c].req = "me" /\ Show(c, u)
    BY <1>8 DEF Confirmed, history, InLogin
  <2>2. \A d \in Calls \ {c} : call[d].tab = call[c].tab => ~InLogin(d)
    BY <2>1 DEF ShownInv, LoginAlone
  <2>3. "mixed" \notin mishaps /\ call[c].tab = account.tab => u = account.user
    <3>1. call[c].tok # 0
      BY <1>2, <1>3, <2>1 DEF Typed, CallShape, InLogin
    <3>2. QED
      BY <2>1, <3>1 DEF ShownInv, TokensOfAccount, LastLogin
  <2> HIDE DEF u
  <2>4. QED
    BY <1>1, <1>2, <2>1, <2>2, <2>3, ShownShow
<1>9. CASE LoggedOut(c)
  <2>1. /\ UNCHANGED <<store, epoch, account, mishaps>> /\ Show(c, None) /\ jar' \in {0, jar}
    BY <1>9 DEF LoggedOut, history
  <2>2. QED
    BY <1>1, <1>2, <2>1, ShownShow
<1>10. QED
  BY <1>4, <1>5, <1>6, <1>7, <1>8, <1>9 DEF Answered

LEMMA ShownFaults ==
  ASSUME TypeInv, TypeInv', ShownInv,
         \/ \E c \in Calls : CallFails(c)
         \/ Unwanted \/ Expire \/ Revoke \/ UNCHANGED vars
  PROVE  ShownInv'
<1>1. UNCHANGED <<jar, store, user, loading, epoch, account, owner>>
  BY DEF CallFails, Unwanted, Expire, Revoke, vars, tabVars, serverVars, history
<1>2. mishaps \subseteq mishaps'
  BY DEF CallFails, Unwanted, Expire, Revoke, vars, history
<1>3. \A d \in Calls : Follows(d)
  <2>1. ASSUME NEW c \in Calls, CallFails(c) PROVE \A d \in Calls : Follows(d)
    <3>1. /\ call[c] \in CallType /\ \A d \in Calls \ {c} : call'[d] = call[d]
          /\ call'[c] = [call[c] EXCEPT !.st = "answered", !.ans = "failed", !.tok = 0]
      BY <2>1 DEF CallFails, TypeInv, ClientTyped, CallsTyped
    <3>2. /\ call'[c].flow = call[c].flow /\ call'[c].tab = call[c].tab
          /\ call'[c].epoch = call[c].epoch /\ call'[c].req = call[c].req
          /\ call'[c].who = call[c].who /\ call'[c].tok = 0 /\ call'[c].ans = "failed"
      BY <3>1 DEF CallType
    <3>3. QED
      BY <3>1, <3>2 DEF Follows
  <2>2. ASSUME NEW c \in Calls, call' = [call EXCEPT ![c] = Idle] PROVE \A d \in Calls : Follows(d)
    BY <2>2, OverFollows
  <2>3. ASSUME UNCHANGED call PROVE \A d \in Calls : Follows(d)
    BY <2>3 DEF Follows
  <2>4. QED
    BY <2>1, <2>2, <2>3 DEF Unwanted, Expire, Revoke, vars
<1>4. QED
  BY <1>1, <1>2, <1>3, ShownStands DEF OwnersStand

LEMMA ShownStep == TypeInv /\ TypeInv' /\ ShownInv /\ [Next]_vars => ShownInv'
<1> SUFFICES ASSUME TypeInv, TypeInv', ShownInv, [Next]_vars PROVE ShownInv'
  OBVIOUS
<1>1. ASSUME NEW t \in Tabs, Reload(t) PROVE ShownInv'
  BY <1>1, ShownLeaves DEF Reload, serverVars, history
<1>2. QED
  BY <1>1, ShownBegin, ShownServe, ShownRotate, ShownRefreshOver, ShownTryAgain, ShownGoOn,
     ShownGiveUp, ShownAnswered, ShownFaults
  DEF Next, Work

LEMMA ShownInit == Init => ShownInv
<1> SUFFICES ASSUME Init PROVE ShownInv
  OBVIOUS
<1>1. \A c \in Calls : /\ call[c].flow = "none" /\ call[c].st = "free" /\ call[c].req = "none"
                       /\ call[c].tab = None
  BY DEF Init, Idle
<1>2. EpochsBehind /\ LoginAlone /\ IssuedToAsker /\ LastLogin
  BY <1>1 DEF EpochsBehind, LoginAlone, InLogin, IssuedToAsker, LastLogin
<1>3. account.tab = FirstTab /\ account.user = FirstUser /\ FirstTab \in Tabs
      /\ jar \in {0, 1} /\ store[FirstTab] = 1 /\ owner[1] = FirstUser /\ user[FirstTab] = FirstUser
  BY SessionAssumption DEF Init
<1>4. TokensOfAccount
  BY <1>1, <1>3, SessionAssumption DEF TokensOfAccount
<1>5. ShownUserRight
  BY <1>3 DEF ShownUserRight
<1>6. QED
  BY <1>2, <1>4, <1>5 DEF ShownInv

\* The tab of the last login shows that user or nobody, however late the answers of
\* fetchUser, of other logins and of refreshes arrive and whatever other tabs do: the
\* epoch makes each of them stale in time.  The one way past it is a refresh of an
\* earlier session answered after the login.
THEOREM UserShown == Spec => []ShownUserRight
<1>1. ShownInv => ShownUserRight
  BY DEF ShownInv
<1>2. QED
  BY <1>1, ShareInit, ShareStep, TypeInit, TypeStep, ShownInit, ShownStep, PTL DEF Spec

-------------------------------------------------------------------------------
(* No session is lost without a cause.                                        *)

\* A refresh under way; one the backend has carried out; a login answered.
Busy(r) == refresh[r].st # "free"
Issued(r) == refresh[r].st = "issued"
Registered(c) == call[c].req = "login" /\ call[c].st = "answered" /\ call[c].ans = "ok"

\* Each refresh under way has a token that can be exchanged, or has exchanged it.
RefreshesGood ==
  \A r \in Refreshes : Busy(r) =>
    \/ refresh[r].st \in {"sent", "read"} /\ refresh[r].tok \in live
    \/ Issued(r) /\ refresh[r].new \in live /\ refresh[r].new > expired

\* No two of them have the same token.
TokensApart ==
  \A r, s \in Refreshes : Busy(r) /\ Busy(s) /\ r # s => refresh[r].tok # refresh[s].tok

\* Nobody has seen n.
Unseen(n) ==
  /\ n # jar /\ \A t \in Tabs : n # store[t]
  /\ \A r \in Refreshes : Busy(r) => n # refresh[r].tok

\* The sessions whose answers are on their way are known to nobody else.
AnswersNew ==
  /\ \A r \in Refreshes : Issued(r) => Unseen(refresh[r].new)
  /\ \A c \in Calls : Registered(c) => call[c].tok \in live /\ Unseen(call[c].tok)
  /\ \A r, s \in Refreshes : Issued(r) /\ Issued(s) /\ r # s => refresh[r].new # refresh[s].new
  /\ \A c, d \in Calls : Registered(c) /\ Registered(d) /\ c # d => call[c].tok # call[d].tok
  /\ \A r \in Refreshes, c \in Calls : Issued(r) /\ Registered(c) => refresh[r].new # call[c].tok

\* A token can be exchanged, or its successor is on the way.
Good(n) == n \in live \/ \E r \in Refreshes : Issued(r) /\ refresh[r].tok = n

\* What the browser sends with its next refresh can be exchanged.
CredentialsGood ==
  /\ cookies => Good(jar)
  /\ ~cookies => \A t \in Tabs : store[t] # 0 => Good(store[t])

\* Without cookies each tab has tokens of its own, ...
StoresApart ==
  ~cookies =>
    /\ \A t, u \in Tabs : store[t] # 0 /\ t # u => store[t] # store[u]
    /\ \A r \in Refreshes, t \in Tabs :
         Busy(r) /\ refresh[r].tab # None /\ store[t] = refresh[r].tok => t = refresh[r].tab

\* ... and has some while it shows a user.
PagesHaveTokens == ~cookies => \A t \in Tabs : user[t] # None => store[t] # 0

\* No call logs in with another account or logs out.  Each has the tokens it presumes,
\* and its second attempt is not refused.
Sound(c) ==
  /\ call[c].req # "logout" /\ call[c].flow \notin {"login", "logout"}
  /\ ~cookies /\ call[c].flow # "none" /\ call[c].req # "login" => store[call[c].tab] # 0
  /\ call[c].st = "woken" => call[c].ans = "ok" /\ store[call[c].tab] > expired
  /\ call[c].retry =>
       /\ call[c].req # "login"
       /\ call[c].st = "sent" => call[c].tok > expired /\ (call[c].req = "post" => call[c].csrf)
       /\ call[c].st = "answered" => call[c].ans \notin {"unauthorized", "forbidden"}

\* The inductive invariant: all this while no mishap of the tokens is excused.
KeptCore ==
  /\ "dropped" \notin mishaps
  /\ RefreshesGood /\ TokensApart /\ AnswersNew /\ CredentialsGood /\ StoresApart
  /\ PagesHaveTokens /\ \A c \in Calls : Sound(c)

KeptInv == "excused" \notin mishaps => KeptCore

-------------------------------------------------------------------------------
(* What the steps are made of.                                                 *)

LEMMA KeptFacts ==
  ASSUME TypeInv
  PROVE  /\ Len(owner) \in Nat /\ live \subseteq 1..Len(owner) /\ expired \in 0..Len(owner)
         /\ jar \in 0..Len(owner) /\ cookies \in BOOLEAN /\ (cookies = FALSE => jar = 0)
         /\ \A t \in Tabs : store[t] \in 0..Len(owner)
         /\ \A c \in Calls : call[c] \in CallType /\ CallShape(call[c]) /\ call[c].tok \in 0..Len(owner)
         /\ \A r \in Refreshes : /\ refresh[r] \in RefreshType /\ RefreshShape(refresh[r])
                                 /\ refresh[r].tok \in 0..Len(owner) /\ refresh[r].new \in 0..Len(owner)
  BY DEF TypeInv, ClientTyped, CallsTyped, RefreshesTyped, TabsTyped, BackendTyped, Typed,
         RefreshTyped, Sessions

\* A refresh goes on, in its page or after the page is left.
RefreshesStand ==
  \A r \in Refreshes :
    /\ \/ refresh'[r].st = refresh[r].st
       \/ refresh[r].st = "sent" /\ refresh'[r].st = "read"
    /\ refresh'[r].tok = refresh[r].tok
    /\ refresh'[r].new = refresh[r].new /\ refresh'[r].tab \in {refresh[r].tab, None}

\* A call stands or goes on without a session of its own.
CallKept(c) == call'[c] = call[c] \/ (Sound(c)' /\ ~Registered(c)')

\* The tokens and what refreshes them stand.
LEMMA KeptStands ==
  ASSUME KeptCore, UNCHANGED <<cookies, jar, store, live, expired>>, RefreshesStand,
         "dropped" \notin mishaps',
         ~cookies => \A t \in Tabs : user'[t] # None => user[t] # None \/ store[t] # 0,
         \A c \in Calls : CallKept(c)
  PROVE  KeptCore'
<1>1. \A r \in Refreshes : (Busy(r)' <=> Busy(r)) /\ (Issued(r)' <=> Issued(r))
  BY DEF RefreshesStand, Busy, Issued
<1>2. \A c \in Calls : Registered(c)' => Registered(c) /\ call'[c] = call[c]
  BY DEF CallKept, Registered
<1>3. \A n : Unseen(n)' <=> Unseen(n)
  BY <1>1 DEF Unseen, RefreshesStand
<1>4. \A n : Good(n)' <=> Good(n)
  BY <1>1 DEF Good, RefreshesStand
<1>5. RefreshesGood'
  BY <1>1 DEF KeptCore, RefreshesGood, RefreshesStand
<1>6. TokensApart'
  BY <1>1 DEF KeptCore, TokensApart, RefreshesStand
<1>7. AnswersNew'
  <2>1. AnswersNew
    BY DEF KeptCore
  <2>2. \A r \in Refreshes : Issued(r)' => Issued(r) /\ refresh'[r].new = refresh[r].new
    BY <1>1 DEF RefreshesStand
  <2>3. \A c \in Calls : Registered(c)' => Registered(c) /\ call'[c].tok = call[c].tok
    BY <1>2
  <2>4. QED
    BY <1>3, <2>1, <2>2, <2>3 DEF AnswersNew
<1>8. CredentialsGood'
  BY <1>4 DEF KeptCore, CredentialsGood
<1>9. StoresApart'
  <2>1. cookies' = cookies
    OBVIOUS
  <2>2. \A r \in Refreshes : Busy(r)' /\ refresh'[r].tab # None
          => Busy(r) /\ refresh'[r].tab = refresh[r].tab /\ refresh'[r].tok = refresh[r].tok
    BY <1>1 DEF RefreshesStand
  <2>3. QED
    BY <2>1, <2>2 DEF KeptCore, StoresApart
<1>10. PagesHaveTokens'
  BY DEF KeptCore, PagesHaveTokens
<1>11. \A c \in Calls : Sound(c)'
  BY DEF KeptCore, CallKept, Sound
<1>12. QED
  BY <1>5, <1>6, <1>7, <1>8, <1>9, <1>10, <1>11 DEF KeptCore

LEMMA KeptSend ==
  ASSUME TypeInv, KeptCore, NEW c \in Calls, NEW rec, Typed(rec), NEW held \in 0..Len(owner),
         Send(c, rec, held), rec.req # "logout", rec.flow \notin {"login", "logout"},
         cookies = FALSE /\ rec.flow # "none" /\ rec.req # "login" => store[rec.tab] # 0,
         rec.retry => rec.req # "login" /\ held > expired,
         UNCHANGED <<cookies, jar, store, user, live, expired>>
  PROVE  KeptCore'
<1> DEFINE token == CASE rec.req = "logout" -> jar [] rec.req = "login" -> 0
                      [] OTHER -> Presented(held)
           header == rec.req = "post" /\ (held # 0 \/ jar # 0)
           new == [rec EXCEPT !.st = "sent", !.on = None, !.then = "none", !.tok = token,
                              !.csrf = header]
<1>1. call' = [call EXCEPT ![c] = new] /\ UNCHANGED <<refresh, inFlight, mishaps>>
  BY DEF Send
<1>2. rec.retry => token > expired /\ (rec.req = "post" => header)
  BY KeptFacts DEF Presented
<1> HIDE DEF token, header
<1>3. /\ new.st = "sent" /\ new.tok = token /\ new.csrf = header /\ new.req = rec.req
      /\ new.flow = rec.flow /\ new.tab = rec.tab /\ new.retry = rec.retry
  BY DEF Typed, CallType
<1> HIDE DEF new
<1>4. call'[c] = new /\ \A d \in Calls \ {c} : call'[d] = call[d]
  BY <1>1 DEF TypeInv, ClientTyped, CallsTyped
<1>5. Sound(c)' /\ ~Registered(c)'
  BY <1>2, <1>3, <1>4 DEF Sound, Registered
<1>6. \A d \in Calls : CallKept(d)
  BY <1>4, <1>5 DEF CallKept
<1>7. RefreshesStand /\ "dropped" \notin mishaps'
  BY <1>1 DEF RefreshesStand, KeptCore
<1>8. QED
  BY <1>6, <1>7, KeptStands

\* A refresh of another token than those under way begins: one that can be exchanged.
LEMMA KeptTryRefresh ==
  ASSUME TypeInv, ShareInv, KeptCore, NEW c \in Calls, NEW rec, Typed(rec), rec.tab \in Tabs,
         TryRefresh(c, rec, store[rec.tab]), "excused" \notin mishaps',
         rec.req \notin {"login", "logout"}, rec.flow \notin {"login", "logout"},
         cookies = FALSE => store[rec.tab] # 0,
         UNCHANGED <<cookies, jar, store, user, live, expired>>
  PROVE  KeptCore'
<1>1. ASSUME NEW r, call' = [call EXCEPT ![c] = [rec EXCEPT !.st = "waiting", !.on = r]]
      PROVE  \A d \in Calls : CallKept(d) /\ (Registered(d)' => Registered(d) /\ call'[d] = call[d])
  <2> DEFINE new == [rec EXCEPT !.st = "waiting", !.on = r]
  <2>1. /\ new.st = "waiting" /\ new.req = rec.req /\ new.flow = rec.flow /\ new.tab = rec.tab
        /\ new.retry = rec.retry
    BY DEF Typed, CallType
  <2>2. call'[c] = new /\ \A d \in Calls \ {c} : call'[d] = call[d]
    BY <1>1 DEF TypeInv, ClientTyped, CallsTyped
  <2> HIDE DEF new
  <2>3. Sound(c)' /\ ~Registered(c)'
    BY <2>1, <2>2 DEF Sound, Registered
  <2>4. QED
    BY <2>2, <2>3 DEF CallKept, Registered
<1>2. CASE inFlight[rec.tab] # None
  <2>1. /\ call' = [call EXCEPT ![c] = [rec EXCEPT !.st = "waiting", !.on = inFlight[rec.tab]]]
        /\ UNCHANGED refresh /\ mishaps' = mishaps
    BY <1>2 DEF TryRefresh
  <2>2. RefreshesStand /\ "dropped" \notin mishaps'
    BY <2>1 DEF RefreshesStand, KeptCore
  <2>3. QED
    BY <1>1, <2>1, <2>2, KeptStands
<1>3. CASE inFlight[rec.tab] = None
  <2> DEFINE t == rec.tab
             tok == IF jar # 0 THEN jar ELSE store[t]
  <2>1. PICK r \in Refreshes :
          /\ refresh[r] = Finished
          /\ refresh' = [refresh EXCEPT ![r] = [st |-> "sent", tab |-> t, tok |-> tok, new |-> 0]]
          /\ call' = [call EXCEPT ![c] = [rec EXCEPT !.st = "waiting", !.on = r]]
          /\ mishaps' = IF \E s \in Refreshes : refresh[s].st # "free" /\ refresh[s].tok = tok
                                                    /\ refresh[s].tab # t
                        THEN mishaps \cup {"excused"} ELSE mishaps
    BY <1>3 DEF TryRefresh
  <2>2. \A s \in Refreshes : refresh[s].tab # t
    BY <1>3, NoneApart DEF ShareInv, WaitersShareRefresh
  <2>3. mishaps' = mishaps /\ \A s \in Refreshes : Busy(s) => refresh[s].tok # tok
    BY <2>1, <2>2 DEF Busy
  <2>4. tok \in live /\ (cookies = FALSE => tok = store[t] /\ store[t] # 0)
        /\ tok \in {jar, store[t]} /\ t \in Tabs
    <3>1. Good(tok)
      <4>1. CASE cookies = TRUE
        <5>1. Good(jar)
          BY <4>1 DEF KeptCore, CredentialsGood
        <5>2. ~Good(0)
          BY KeptFacts DEF Good, Issued, RefreshShape
        <5>3. QED
          BY <5>1, <5>2
      <4>2. CASE cookies = FALSE
        <5>1. jar = 0 /\ Good(store[t])
          BY <4>2, KeptFacts DEF KeptCore, CredentialsGood
        <5>2. QED
          BY <5>1
      <4>3. QED
        BY <4>1, <4>2, KeptFacts
    <3>2. QED
      BY <2>3, <3>1, KeptFacts DEF Good, Busy, Issued
  <2> HIDE DEF t, tok
  <2>5. /\ ~Busy(r) /\ \A s \in Refreshes \ {r} : refresh'[s] = refresh[s]
        /\ refresh'[r].st = "sent" /\ refresh'[r].tab = t /\ refresh'[r].tok = tok
    BY <2>1 DEF TypeInv, ClientTyped, RefreshesTyped, Busy, Finished
  <2>6. \A s \in Refreshes : /\ Busy(s)' <=> Busy(s) \/ s = r
                             /\ Issued(s)' <=> Issued(s)
                             /\ Issued(s) => s # r /\ refresh'[s] = refresh[s]
    BY <2>5 DEF Busy, Issued
  <2>7. \A d \in Calls : CallKept(d) /\ (Registered(d)' => Registered(d) /\ call'[d] = call[d])
    BY <1>1, <2>1
  <2>8. \A n : Unseen(n) => Unseen(n)'
    BY <2>4, <2>5, <2>6 DEF Unseen
  <2>9. \A n : Good(n) => Good(n)'
    BY <2>6 DEF Good
  <2>10. RefreshesGood'
    BY <2>4, <2>5, <2>6 DEF KeptCore, RefreshesGood
  <2>11. TokensApart'
    BY <2>3, <2>5, <2>6 DEF KeptCore, TokensApart
  <2>12. AnswersNew'
    BY <2>6, <2>7, <2>8 DEF KeptCore, AnswersNew
  <2>13. CredentialsGood'
    BY <2>9 DEF KeptCore, CredentialsGood
  <2>14. StoresApart'
    <3>1. cookies' = cookies /\ cookies \in BOOLEAN
      BY KeptFacts
    <3>2. QED
      BY <2>4, <2>5, <2>6, <3>1 DEF KeptCore, StoresApart
  <2>15. PagesHaveTokens' /\ "dropped" \notin mishaps'
    BY <2>3 DEF KeptCore, PagesHaveTokens
  <2>16. \A d \in Calls : Sound(d)'
    BY <2>7 DEF KeptCore, CallKept, Sound
  <2>17. QED
    BY <2>10, <2>11, <2>12, <2>13, <2>14, <2>15, <2>16 DEF KeptCore
<1>4. QED
  BY <1>2, <1>3

-------------------------------------------------------------------------------
(* The actions.                                                                *)

LEMMA KeptRead == ASSUME TypeInv, KeptCore, NEW r \in Refreshes, RotateRead(r) PROVE KeptCore'
<1>1. /\ UNCHANGED <<cookies, jar, store, user, call, live, expired, mishaps>>
      /\ refresh[r].st = "sent"
  BY DEF RotateRead, tabVars, serverVars, history
<1>2. refresh[r].tok \in live
  BY <1>1 DEF KeptCore, RefreshesGood, Busy, Issued
<1>3. refresh' = [refresh EXCEPT ![r].st = "read"]
  BY <1>2 DEF RotateRead
<1>4. RefreshesStand
  BY <1>1, <1>3, KeptFacts DEF RefreshesStand, RefreshType, TypeInv, ClientTyped, RefreshesTyped
<1>5. \A c \in Calls : CallKept(c)
  BY <1>1 DEF CallKept
<1>6. "dropped" \notin mishaps'
  BY <1>1 DEF KeptCore
<1>7. QED
  BY <1>1, <1>4, <1>5, <1>6, KeptStands

\* The token of one refresh is exchanged for a new one.
LEMMA KeptCommit == ASSUME TypeInv, KeptCore, NEW r \in Refreshes, RotateCommit(r) PROVE KeptCore'
<1>1. /\ UNCHANGED <<cookies, jar, store, user, call, expired, mishaps>>
      /\ refresh[r].st = "read"
  BY DEF RotateCommit, Issue, tabVars, history
<1>2. PICK old, n : old = refresh[r].tok /\ n = Len(owner) + 1
  OBVIOUS
<1>3. Len(owner') = n
  BY <1>2 DEF RotateCommit, Issue, TypeInv, BackendTyped
<1>4. /\ live' = (live \ {old}) \cup {n}
      /\ refresh' = [refresh EXCEPT ![r].st = "issued", ![r].new = n]
  BY <1>2, <1>3 DEF RotateCommit
<1>5. /\ refresh'[r].st = "issued" /\ refresh'[r].new = n /\ refresh'[r].tok = old
      /\ refresh'[r].tab = refresh[r].tab
      /\ \A s \in Refreshes \ {r} : refresh'[s] = refresh[s]
  BY <1>2, <1>4, KeptFacts DEF RefreshType, TypeInv, ClientTyped, RefreshesTyped
<1>6. \A s \in Refreshes : /\ Busy(s)' <=> Busy(s)
                           /\ Issued(s)' <=> Issued(s) \/ s = r
                           /\ refresh'[s].tok = refresh[s].tok /\ refresh'[s].tab = refresh[s].tab
  BY <1>2, <1>1, <1>5 DEF Busy, Issued
<1>7. Busy(r) /\ ~Issued(r)
  BY <1>1 DEF Busy, Issued
<1>8. \A m : Unseen(m)' <=> Unseen(m)
  BY <1>1, <1>6 DEF Unseen
<1>9. Unseen(n) /\ n > expired
  BY <1>2, KeptFacts DEF Unseen
<1>10. \A m : Good(m) => Good(m)'
  BY <1>2, <1>4, <1>5, <1>6 DEF Good
<1>11. RefreshesGood'
  <2> SUFFICES ASSUME NEW s \in Refreshes, Busy(s)'
               PROVE  \/ refresh'[s].st \in {"sent", "read"} /\ refresh'[s].tok \in live'
                      \/ Issued(s)' /\ refresh'[s].new \in live' /\ refresh'[s].new > expired'
    BY DEF RefreshesGood
  <2>1. CASE s = r
    BY <1>1, <1>4, <1>5, <1>6, <1>9, <2>1
  <2>2. CASE s # r
    <3>1. refresh'[s] = refresh[s] /\ Busy(s) /\ refresh[s].tok # old
      BY <1>2, <1>5, <1>6, <1>7, <2>2 DEF KeptCore, TokensApart
    <3>2. Issued(s) => refresh[s].new # old
      BY <1>2, <1>7 DEF KeptCore, AnswersNew, Unseen
    <3>3. \/ refresh[s].st \in {"sent", "read"} /\ refresh[s].tok \in live
          \/ Issued(s) /\ refresh[s].new \in live /\ refresh[s].new > expired
      BY <3>1 DEF KeptCore, RefreshesGood
    <3>4. expired' = expired /\ (Issued(s) => Issued(s)')
      BY <1>1, <1>6
    <3>5. live \ {old} \subseteq live'
      BY <1>4
    <3>6. QED
      BY <3>1, <3>2, <3>3, <3>4, <3>5
  <2>3. QED
    BY <2>1, <2>2
<1>12. TokensApart'
  BY <1>6 DEF KeptCore, TokensApart
<1>13. AnswersNew'
  <2>1. \A c \in Calls : /\ Registered(c)' <=> Registered(c)
                         /\ Registered(c) => call'[c].tok \in live' /\ Unseen(call[c].tok)'
                                             /\ call[c].tok # n /\ call'[c] = call[c]
    <3>1. ASSUME NEW c \in Calls, Registered(c)
          PROVE  call[c].tok \in live /\ Unseen(call[c].tok) /\ call[c].tok # old /\ call[c].tok # n
      BY <1>2, <1>7, <3>1, KeptFacts DEF KeptCore, AnswersNew, Unseen
    <3>2. call' = call
      BY <1>1
    <3>3. QED
      BY <1>4, <1>8, <3>1, <3>2 DEF Registered
  <2>2. \A s \in Refreshes \ {r} : refresh'[s].new = refresh[s].new /\ refresh[s].new # n
    BY <1>2, <1>5, KeptFacts
  <2>3. \A s \in Refreshes : Issued(s)' => Unseen(refresh[s].new)'
    <3>1. Unseen(refresh[r].new)'
      BY <1>5, <1>8, <1>9
    <3>2. ASSUME NEW s \in Refreshes \ {r}, Issued(s)' PROVE Unseen(refresh[s].new)'
      <4>1. Unseen(refresh[s].new)
        BY <1>6, <3>2 DEF KeptCore, AnswersNew
      <4>2. QED
        BY <1>8, <2>2, <4>1
    <3>3. QED
      BY <3>1, <3>2
  <2>4. \A s, x \in Refreshes : Issued(s)' /\ Issued(x)' /\ s # x => refresh'[s].new # refresh'[x].new
    BY <1>5, <1>6, <2>2 DEF KeptCore, AnswersNew
  <2>5. \A s \in Refreshes, c \in Calls : Issued(s)' /\ Registered(c)' => refresh'[s].new # call'[c].tok
    BY <1>5, <1>6, <2>1, <2>2 DEF KeptCore, AnswersNew
  <2>6. \A c, d \in Calls : Registered(c)' /\ Registered(d)' /\ c # d => call'[c].tok # call'[d].tok
    BY <2>1 DEF KeptCore, AnswersNew
  <2>7. QED
    BY <2>1, <2>3, <2>4, <2>5, <2>6 DEF AnswersNew
<1>14. CredentialsGood'
  BY <1>1, <1>10 DEF KeptCore, CredentialsGood
<1>15. StoresApart'
  BY <1>1, <1>6 DEF KeptCore, StoresApart
<1>16. PagesHaveTokens' /\ "dropped" \notin mishaps' /\ \A c \in Calls : Sound(c)'
  BY <1>1 DEF KeptCore, PagesHaveTokens, Sound
<1>17. QED
  BY <1>11, <1>12, <1>13, <1>14, <1>15, <1>16 DEF KeptCore

\* A tab takes tokens nobody else has seen.
LEMMA KeptTaken ==
  ASSUME TypeInv, NEW t \in Tabs, NEW n \in live, Unseen(n), StoresApart, PagesHaveTokens,
         UNCHANGED <<cookies, user>>, store' = [store EXCEPT ![t] = n],
         \A r \in Refreshes : Busy(r)' => Busy(r) /\ refresh'[r] = refresh[r]
  PROVE  StoresApart' /\ PagesHaveTokens'
<1>1. store'[t] = n /\ n # 0 /\ \A u \in Tabs \ {t} : store'[u] = store[u]
  <2>1. n # 0
    BY KeptFacts
  <2>2. QED
    BY <2>1 DEF TypeInv, TabsTyped
<1>2. cookies' = cookies /\ user' = user
  OBVIOUS
<1>3. \A u, v \in Tabs : store'[u] # 0 /\ u # v /\ (store[u] # 0 => store[u] # store[v])
                           => store'[u] # store'[v]
  BY <1>1 DEF Unseen
<1>4. ASSUME NEW r \in Refreshes, NEW u \in Tabs, Busy(r)', store'[u] = refresh'[r].tok
      PROVE  Busy(r) /\ refresh'[r] = refresh[r] /\ store[u] = refresh[r].tok
  BY <1>1, <1>4 DEF Unseen
<1>5. StoresApart'
  BY <1>2, <1>3, <1>4 DEF StoresApart
<1>6. PagesHaveTokens'
  BY <1>1, <1>2 DEF PagesHaveTokens
<1>7. QED
  BY <1>5, <1>6

\* The page of the answer takes its tokens, and all that waited go on.
LEMMA KeptAnswered ==
  ASSUME TypeInv, ShareInv, KeptCore, NEW r \in Refreshes, RefreshAnswered(r)
  PROVE  KeptCore'
<1>1. PICK t, n, old : t = refresh[r].tab /\ n = refresh[r].new /\ old = refresh[r].tok
  OBVIOUS
<1>2. refresh[r].st \in {"issued", "refused"} /\ t # None /\ Quiet(t)
  BY <1>1 DEF RefreshAnswered
<1>3. Issued(r) /\ Busy(r) /\ n \in live /\ n > expired /\ Unseen(n)
  BY <1>1, <1>2 DEF KeptCore, RefreshesGood, AnswersNew, Busy, Issued
<1>4. t \in Tabs /\ n # 0
  BY <1>1, <1>2, <1>3, KeptFacts DEF RefreshType
<1>5. /\ jar' = IF cookies THEN n ELSE jar
      /\ store' = [store EXCEPT ![t] = n] /\ Wake(r, "ok")
      /\ refresh' = [refresh EXCEPT ![r] = Finished]
      /\ mishaps' \subseteq mishaps \cup {"mixed"}
      /\ UNCHANGED <<cookies, user, live, expired>>
  BY <1>1, <1>3 DEF RefreshAnswered, Issued, serverVars
<1>6. store'[t] = n /\ \A u \in Tabs \ {t} : store'[u] = store[u]
  BY <1>4, <1>5 DEF TypeInv, TabsTyped
<1>7. \A s \in Refreshes : /\ Busy(s)' <=> Busy(s) /\ s # r
                           /\ Issued(s)' <=> Issued(s) /\ s # r
                           /\ s # r => refresh'[s] = refresh[s]
  BY <1>5 DEF TypeInv, ClientTyped, RefreshesTyped, Busy, Issued, Finished
<1>8. \A c \in Calls : Sound(c)' /\ (Registered(c)' => Registered(c) /\ call'[c] = call[c])
  <2> SUFFICES ASSUME NEW c \in Calls
               PROVE  Sound(c)' /\ (Registered(c)' => Registered(c) /\ call'[c] = call[c])
    OBVIOUS
  <2>1. Sound(c) /\ call[c] \in CallType /\ (call[c].flow # "none" => call[c].tab \in Tabs)
    BY KeptFacts DEF KeptCore, CallShape
  <2>2. cookies' = cookies /\ expired' = expired
    BY <1>5
  <2>3. call[c].flow # "none" /\ store[call[c].tab] # 0 => store'[call[c].tab] # 0
    BY <1>4, <1>6, <2>1
  <2>4. CASE c \in Waiting(r)
    <3>1. /\ call'[c].st = "woken" /\ call'[c].ans = "ok" /\ call'[c].flow = call[c].flow
          /\ call'[c].req = call[c].req /\ call'[c].tab = call[c].tab
          /\ call'[c].retry = call[c].retry
      BY <1>5, <2>1, <2>4 DEF Wake, CallType
    <3>2. call[c].tab = t
      BY <1>1, <2>4 DEF Waiting, ShareInv, WaitersShareRefresh
    <3>3. Registered(c)' => FALSE
      BY <3>1 DEF Registered
    <3>4. Sound(c)'
      BY <1>3, <1>6, <2>1, <2>2, <2>3, <3>1, <3>2 DEF Sound
    <3>5. QED
      BY <3>3, <3>4
  <2>5. CASE c \notin Waiting(r)
    <3>1. call'[c] = call[c]
      BY <1>5, <2>5 DEF Wake
    <3>2. call[c].st = "woken" => call[c].tab \in Tabs \ {t}
      BY <1>2 DEF Quiet, ShareInv, WokenInTab
    <3>3. Sound(c)'
      BY <1>6, <2>1, <2>2, <2>3, <3>1, <3>2 DEF Sound
    <3>4. QED
      BY <3>1, <3>3 DEF Registered
  <2>6. QED
    BY <2>4, <2>5
<1>9. \A m : m # n /\ Unseen(m) => Unseen(m)'
  BY <1>5, <1>6, <1>7 DEF Unseen
<1>10. \A m : Good(m) => Good(m)' \/ m = old
  BY <1>1, <1>5, <1>7 DEF Good
<1>11. RefreshesGood'
  <2>1. live' = live /\ expired' = expired
    BY <1>5
  <2>2. QED
    BY <1>7, <2>1 DEF KeptCore, RefreshesGood
<1>12. TokensApart'
  BY <1>7 DEF KeptCore, TokensApart
<1>13. AnswersNew'
  <2>1. ASSUME NEW s \in Refreshes, Issued(s)'
        PROVE  Issued(s) /\ refresh'[s].new = refresh[s].new /\ Unseen(refresh[s].new)'
    <3>1. Issued(s) /\ refresh'[s] = refresh[s] /\ Unseen(refresh[s].new) /\ refresh[s].new # n
      BY <1>1, <1>3, <1>7, <2>1 DEF KeptCore, AnswersNew
    <3>2. QED
      BY <1>9, <3>1
  <2>2. ASSUME NEW c \in Calls, Registered(c)'
        PROVE  Registered(c) /\ call'[c] = call[c] /\ call'[c].tok \in live' /\ Unseen(call[c].tok)'
    <3>1. Registered(c) /\ call'[c] = call[c]
      BY <1>8, <2>2
    <3>2. call[c].tok \in live /\ Unseen(call[c].tok) /\ call[c].tok # n
      BY <1>1, <1>3, <3>1 DEF KeptCore, AnswersNew
    <3>3. live' = live
      BY <1>5
    <3>4. QED
      BY <1>9, <3>1, <3>2, <3>3
  <2>3. \A s, x \in Refreshes : Issued(s)' /\ Issued(x)' /\ s # x => refresh'[s].new # refresh'[x].new
    BY <2>1 DEF KeptCore, AnswersNew
  <2>4. \A s \in Refreshes, c \in Calls : Issued(s)' /\ Registered(c)' => refresh'[s].new # call'[c].tok
    BY <2>1, <2>2 DEF KeptCore, AnswersNew
  <2>5. \A c, d \in Calls : Registered(c)' /\ Registered(d)' /\ c # d => call'[c].tok # call'[d].tok
    BY <2>2 DEF KeptCore, AnswersNew
  <2>6. QED
    BY <2>1, <2>2, <2>3, <2>4, <2>5 DEF AnswersNew
<1>14. CredentialsGood'
  <2>1. Good(n)'
    BY <1>3, <1>5 DEF Good
  <2>2. CASE cookies = TRUE
    BY <1>5, <2>1, <2>2 DEF CredentialsGood
  <2>3. CASE cookies = FALSE
    <3>1. cookies' = FALSE
      BY <1>5, <2>3
    <3>2. ASSUME NEW u \in Tabs \ {t}, store[u] # 0 PROVE Good(store[u])'
      <4>1. store[u] # old
        BY <1>1, <1>2, <1>3, <2>3 DEF KeptCore, StoresApart
      <4>2. Good(store[u])
        BY <2>3, <3>2 DEF KeptCore, CredentialsGood
      <4>3. QED
        BY <1>6, <1>10, <4>1, <4>2
    <3>3. QED
      BY <1>6, <2>1, <3>1, <3>2 DEF CredentialsGood
  <2>4. QED
    BY <2>2, <2>3, KeptFacts
<1>15. StoresApart' /\ PagesHaveTokens'
  BY <1>3, <1>4, <1>5, <1>7, KeptTaken DEF KeptCore
<1>16. "dropped" \notin mishaps'
  BY <1>5 DEF KeptCore
<1>17. QED
  BY <1>8, <1>11, <1>12, <1>13, <1>14, <1>15, <1>16 DEF KeptCore

\* /auth/register answers with a new session.
LEMMA KeptRegistered ==
  ASSUME TypeInv, KeptCore, NEW c \in Calls, call[c].st = "sent", call[c].req = "login",
         NEW n, n = Len(owner) + 1, live' = live \cup {n},
         call' = [call EXCEPT ![c].st = "answered", ![c].ans = "ok", ![c].csrf = FALSE, ![c].tok = n],
         UNCHANGED <<cookies, jar, store, user, refresh, expired, mishaps>>
  PROVE  KeptCore'
<1>1. /\ \A d \in Calls \ {c} : call'[d] = call[d]
      /\ call'[c].st = "answered" /\ call'[c].ans = "ok" /\ call'[c].tok = n
      /\ call'[c].flow = call[c].flow /\ call'[c].req = call[c].req
      /\ call'[c].tab = call[c].tab /\ call'[c].retry = call[c].retry
  BY KeptFacts DEF TypeInv, ClientTyped, CallsTyped, CallType
<1>2. refresh' = refresh /\ cookies' = cookies /\ jar' = jar /\ store' = store /\ user' = user
      /\ expired' = expired /\ mishaps' = mishaps /\ live \subseteq live'
  OBVIOUS
<1>3. \A m : Unseen(m) => Unseen(m)'
  BY <1>2 DEF Unseen, Busy
<1>4. \A m : Good(m) => Good(m)'
  BY <1>2 DEF Good, Issued
<1>5. Unseen(n)
  BY KeptFacts DEF Unseen
<1>6. \A d \in Calls : Sound(d)'
  <2>1. Sound(c)'
    <3>1. Sound(c) /\ call[c].retry \in BOOLEAN
      BY KeptFacts DEF KeptCore, CallType
    <3>2. QED
      BY <1>1, <1>2, <3>1 DEF Sound
  <2>2. ASSUME NEW d \in Calls \ {c} PROVE Sound(d)'
    <3>1. Sound(d) /\ call'[d] = call[d]
      BY <1>1 DEF KeptCore
    <3>2. QED
      BY <1>2, <3>1 DEF Sound
  <2>3. QED
    BY <2>1, <2>2
<1>7. RefreshesGood'
  BY <1>2 DEF KeptCore, RefreshesGood, Busy, Issued
<1>8. TokensApart'
  BY <1>2 DEF KeptCore, TokensApart, Busy
<1>9. AnswersNew'
  <2>1. \A r \in Refreshes : refresh[r].new # n /\ (Issued(r)' <=> Issued(r))
    BY <1>2, KeptFacts DEF Issued
  <2>2. ASSUME NEW r \in Refreshes, Issued(r)' PROVE Unseen(refresh[r].new)'
    <3>1. Unseen(refresh[r].new)
      BY <2>1, <2>2 DEF KeptCore, AnswersNew
    <3>2. QED
      BY <1>2, <1>3, <3>1
  <2>3. ASSUME NEW d \in Calls, d # c, Registered(d)'
        PROVE  Registered(d) /\ call'[d] = call[d] /\ call[d].tok # n /\ call'[d].tok \in live'
               /\ Unseen(call[d].tok)'
    <3>1. Registered(d) /\ call'[d] = call[d]
      BY <1>1, <2>3 DEF Registered
    <3>2. Unseen(call[d].tok) /\ call[d].tok \in live
      BY <3>1 DEF KeptCore, AnswersNew
    <3>3. call[d].tok # n
      BY KeptFacts
    <3>4. Unseen(call[d].tok)'
      BY <1>3, <3>1, <3>2
    <3>5. QED
      BY <1>2, <3>1, <3>2, <3>3, <3>4
  <2>4. call'[c].tok \in live' /\ Unseen(call[c].tok)'
    BY <1>1, <1>3, <1>5
  <2>5. \A r, s \in Refreshes : Issued(r)' /\ Issued(s)' /\ r # s => refresh'[r].new # refresh'[s].new
    BY <1>2, <2>1 DEF KeptCore, AnswersNew
  <2>6. \A r \in Refreshes, d \in Calls : Issued(r)' /\ Registered(d)' => refresh'[r].new # call'[d].tok
    <3> SUFFICES ASSUME NEW r \in Refreshes, NEW d \in Calls, Issued(r)', Registered(d)'
                 PROVE  refresh[r].new # call'[d].tok
      BY <1>2
    <3>1. CASE d = c
      BY <1>1, <2>1, <3>1
    <3>2. CASE d # c
      <4>1. Registered(d) /\ call'[d] = call[d] /\ Issued(r)
        BY <2>1, <2>3, <3>2
      <4>2. QED
        BY <4>1 DEF KeptCore, AnswersNew
    <3>3. QED
      BY <3>1, <3>2
  <2>7. \A d, e \in Calls : Registered(d)' /\ Registered(e)' /\ d # e => call'[d].tok # call'[e].tok
    <3> SUFFICES ASSUME NEW d \in Calls, NEW e \in Calls, Registered(d)', Registered(e)', d # e
                 PROVE  call'[d].tok # call'[e].tok
      OBVIOUS
    <3>1. CASE d = c \/ e = c
      BY <1>1, <2>3, <3>1
    <3>2. CASE d # c /\ e # c
      <4>1. Registered(d) /\ call'[d] = call[d] /\ Registered(e) /\ call'[e] = call[e]
        BY <2>3, <3>2
      <4>2. QED
        BY <4>1 DEF KeptCore, AnswersNew
    <3>3. QED
      BY <3>1, <3>2
  <2>8. \A d \in Calls : Registered(d)' => call'[d].tok \in live' /\ Unseen(call[d].tok)'
    BY <2>3, <2>4
  <2>9. QED
    BY <2>2, <2>5, <2>6, <2>7, <2>8 DEF AnswersNew
<1>10. CredentialsGood'
  BY <1>2, <1>4 DEF KeptCore, CredentialsGood
<1>11. StoresApart'
  BY <1>2 DEF KeptCore, StoresApart, Busy
<1>12. PagesHaveTokens' /\ "dropped" \notin mishaps'
  BY <1>2 DEF KeptCore, PagesHaveTokens
<1>13. QED
  BY <1>6, <1>7, <1>8, <1>9, <1>10, <1>11, <1>12 DEF KeptCore

LEMMA KeptServe == ASSUME TypeInv, KeptCore, NEW c \in Calls, Serve(c) PROVE KeptCore'
<1>1. /\ call[c].st = "sent" /\ Sound(c) /\ call[c].req # "logout"
      /\ UNCHANGED <<cookies, jar, store, user, refresh, mishaps, expired>>
  BY DEF Serve, KeptCore, Sound, tabVars, serverVars, history, Issue
<1>2. CASE /\ call[c].req = "login" /\ Issue(call[c].who) /\ live' = live \cup {Len(owner')}
           /\ call' = [call EXCEPT ![c].st = "answered", ![c].ans = "ok",
                                   ![c].csrf = FALSE, ![c].tok = Len(owner')]
  <2>1. PICK n : n = Len(owner) + 1
    OBVIOUS
  <2>2. Len(owner') = n
    BY <1>2, <2>1 DEF Issue, TypeInv, BackendTyped
  <2>3. /\ call' = [call EXCEPT ![c].st = "answered", ![c].ans = "ok",
                                ![c].csrf = FALSE, ![c].tok = n]
        /\ live' = live \cup {n}
    BY <1>2, <2>2
  <2>4. QED
    BY <1>1, <1>2, <2>1, <2>3, KeptRegistered
<1>3. ASSUME UNCHANGED live,
             NEW a \in {"ok", "unauthorized", "forbidden"}, NEW x,
             call' = [call EXCEPT ![c] =
                        [call[c] EXCEPT !.st = "answered", !.ans = a, !.csrf = FALSE, !.tok = x]],
             call[c].req = "login" => a = "unauthorized",
             call[c].retry => a = "ok"
      PROVE  KeptCore'
  <2>1. /\ call'[c].st = "answered" /\ call'[c].ans = a /\ call'[c].flow = call[c].flow
        /\ call'[c].req = call[c].req /\ call'[c].tab = call[c].tab
        /\ call'[c].retry = call[c].retry
        /\ \A d \in Calls \ {c} : call'[d] = call[d]
    BY <1>3, KeptFacts DEF TypeInv, ClientTyped, CallsTyped, CallType
  <2>2. Sound(c)' /\ ~Registered(c)'
    BY <1>1, <1>3, <2>1 DEF Sound, Registered
  <2>3. \A d \in Calls : CallKept(d)
    BY <2>1, <2>2 DEF CallKept
  <2>4. RefreshesStand /\ "dropped" \notin mishaps'
    BY <1>1 DEF RefreshesStand, KeptCore
  <2>5. QED
    BY <1>1, <1>3, <2>3, <2>4, KeptStands
<1>4. CASE call[c].req \in {"get", "post", "me"}
  <2> DEFINE a == IF call[c].req = "post" /\ ~call[c].csrf THEN "forbidden"
                  ELSE IF call[c].tok > expired THEN "ok" ELSE "unauthorized"
             x == IF call[c].req = "me" /\ a = "ok" THEN call[c].tok ELSE 0
  <2>1. /\ call' = [call EXCEPT ![c] =
                      [call[c] EXCEPT !.st = "answered", !.ans = a, !.csrf = FALSE, !.tok = x]]
        /\ UNCHANGED live
    BY <1>4, KeptFacts DEF Serve, serverVars, CallType
  <2>2. a \in {"ok", "unauthorized", "forbidden"}
    OBVIOUS
  <2>3. call[c].retry => a = "ok"
    BY <1>1, KeptFacts DEF Sound, CallType
  <2> HIDE DEF a, x
  <2>4. QED
    BY <1>3, <1>4, <2>1, <2>2, <2>3
<1>5. CASE /\ call[c].req = "login" /\ UNCHANGED live
           /\ call' = [call EXCEPT ![c] =
                [call[c] EXCEPT !.st = "answered", !.ans = "unauthorized", !.csrf = FALSE, !.tok = 0]]
  <2>1. call[c].retry = FALSE
    BY <1>1, <1>5, KeptFacts DEF Sound, CallType
  <2>2. QED
    BY <1>3, <1>5, <2>1
<1>6. QED
  BY <1>1, <1>2, <1>4, <1>5 DEF Serve, serverVars

LEMMA KeptTryAgain ==
  ASSUME TypeInv, ShareInv, KeptCore, NEW c \in Calls, TryAgain(c), "excused" \notin mishaps'
  PROVE  KeptCore'
<1> DEFINE rec == [call[c] EXCEPT !.then = call[c].ans, !.ans = "none", !.tok = 0]
<1>1. /\ Typed(call[c]) /\ call[c].st = "answered" /\ call[c].ans \in {"unauthorized", "forbidden"}
      /\ call[c].req # "login" /\ ~call[c].retry /\ call[c].tab # None /\ 0 \in Nat
      /\ TryRefresh(c, rec, store[call[c].tab])
      /\ UNCHANGED <<cookies, jar, store, user, live, expired>>
  BY DEF TryAgain, TypeInv, ClientTyped, CallsTyped, serverVars
<1>2. Typed(rec)
  BY <1>1, AgainRecord
<1>3. rec.flow = call[c].flow /\ rec.req = call[c].req /\ rec.tab = call[c].tab
      /\ rec.retry = call[c].retry
  BY <1>1 DEF Typed, CallType
<1> HIDE DEF rec
<1>4. call[c].tab \in Tabs /\ call[c].flow # "none"
  BY <1>1, CallFacts
<1>5. /\ call[c].req # "logout" /\ call[c].flow \notin {"login", "logout"}
      /\ (cookies = FALSE => store[call[c].tab] # 0)
  BY <1>1, <1>4 DEF KeptCore, Sound
<1>6. QED
  BY <1>1, <1>2, <1>3, <1>4, <1>5, KeptTryRefresh

\* The tokens that a call finds after the refresh are good for its request.
LEMMA KeptGoOn == ASSUME TypeInv, ShareInv, KeptCore, NEW c \in Calls, GoOn(c) PROVE KeptCore'
<1> DEFINE rec == [call[c] EXCEPT !.ans = "none"]
           again == [rec EXCEPT !.retry = TRUE]
<1>1. Typed(call[c]) /\ call[c].st = "woken"
  BY DEF GoOn, TypeInv, ClientTyped, CallsTyped
<1>2. Typed(rec) /\ Typed(again)
  BY <1>1, AnsRecord, RetryRecord
<1>3. /\ rec.flow = call[c].flow /\ rec.req = call[c].req /\ rec.tab = call[c].tab
      /\ again.flow = call[c].flow /\ again.req = call[c].req /\ again.tab = call[c].tab
  BY <1>1 DEF Typed, CallType
<1>4. PICK held : held = store[call[c].tab]
  OBVIOUS
<1>5. Send(c, rec, held) \/ Request(c, again, held)
  <2>1. Send(c, rec, store[rec.tab]) \/ Request(c, again, store[rec.tab])
    BY DEF GoOn
  <2>2. QED
    BY <1>3, <1>4, <2>1
<1> HIDE DEF rec, again
<1>6. held \in 0..Len(owner) /\ held > expired /\ held # 0 /\ call[c].req # "login"
  <2>1. call[c].tab \in Tabs
    BY <1>1 DEF ShareInv, WokenInTab
  <2>2. held > expired
    BY <1>1, <1>4 DEF KeptCore, Sound
  <2>3. call[c].req # "login"
    BY <1>1 DEF Typed, CallShape
  <2>4. QED
    BY <1>4, <2>1, <2>2, <2>3, KeptFacts
<1>7. Send(c, rec, held) \/ Send(c, again, held)
  BY <1>5, <1>6 DEF Request
<1>8. UNCHANGED <<cookies, jar, store, user, live, expired>>
  BY DEF GoOn, tabVars, serverVars
<1>9. /\ call[c].req # "logout" /\ call[c].flow \notin {"login", "logout"}
      /\ store[call[c].tab] # 0
  BY <1>4, <1>6 DEF KeptCore, Sound
<1>10. CASE Send(c, rec, held)
  BY <1>2, <1>3, <1>6, <1>8, <1>9, <1>10, KeptSend
<1>11. CASE Send(c, again, held)
  BY <1>2, <1>3, <1>6, <1>8, <1>9, <1>11, KeptSend
<1>12. QED
  BY <1>7, <1>10, <1>11

\* One call ends, or goes on without a session of its own.
LEMMA KeptCall ==
  ASSUME TypeInv, KeptCore, NEW c \in Calls, NEW new, call' = [call EXCEPT ![c] = new],
         Sound(c)', ~Registered(c)', UNCHANGED <<cookies, jar, store, refresh, live, expired>>,
         "dropped" \notin mishaps',
         ~cookies => \A t \in Tabs : user'[t] # None => user[t] # None \/ store[t] # 0
  PROVE  KeptCore'
<1>1. \A d \in Calls \ {c} : call'[d] = call[d]
  BY DEF TypeInv, ClientTyped, CallsTyped
<1>2. \A d \in Calls : CallKept(d)
  BY <1>1 DEF CallKept
<1>3. RefreshesStand
  BY DEF RefreshesStand
<1>4. QED
  BY <1>2, <1>3, KeptStands

LEMMA KeptOver ==
  ASSUME TypeInv, KeptCore, NEW c \in Calls, call' = [call EXCEPT ![c] = Idle],
         UNCHANGED <<cookies, jar, store, refresh, live, expired>>, "dropped" \notin mishaps',
         ~cookies => \A t \in Tabs : user'[t] # None => user[t] # None \/ store[t] # 0
  PROVE  KeptCore'
<1>1. call'[c] = Idle
  BY DEF TypeInv, ClientTyped, CallsTyped
<1>2. Sound(c)' /\ ~Registered(c)'
  BY <1>1 DEF Sound, Registered, Idle
<1>3. QED
  BY <1>2, KeptCall

LEMMA KeptShow ==
  ASSUME TypeInv, KeptCore, NEW c \in Calls, call[c].tab \in Tabs, NEW u, Show(c, u),
         UNCHANGED <<cookies, jar, store, live, expired>>, "dropped" \notin mishaps',
         cookies = FALSE => u = None \/ store[call[c].tab] # 0
  PROVE  KeptCore'
<1>1. /\ user' = [user EXCEPT ![call[c].tab] = u] /\ call' = [call EXCEPT ![c] = Idle]
      /\ UNCHANGED refresh
  BY DEF Show
<1>2. /\ user'[call[c].tab] = u
      /\ \A t \in Tabs \ {call[c].tab} : user'[t] = user[t]
  BY <1>1 DEF TypeInv, TabsTyped
<1>3. ~cookies => \A t \in Tabs : user'[t] # None => user[t] # None \/ store[t] # 0
  BY <1>2, KeptFacts
<1>4. QED
  BY <1>1, <1>3, KeptOver

\* No page gives its session up: no second attempt is refused, nor any refresh.
LEMMA KeptGiveUp == ASSUME TypeInv, KeptCore, NEW c \in Calls, GiveUp(c) PROVE KeptCore'
<1>1. Sound(c) /\ CallShape(call[c]) /\ call[c] \in CallType
  BY KeptFacts DEF KeptCore
<1>2. call[c].req = "login" /\ call[c].flow \notin {"page", "fetch"}
  <2>1. call[c].req = "login"
    BY <1>1 DEF GiveUp, Sound
  <2>2. QED
    BY <1>1, <2>1 DEF CallShape
<1>3. Finish(c) /\ UNCHANGED <<store, user>>
  BY <1>2 DEF GiveUp, Refused, Thrown
<1>4. call' = [call EXCEPT ![c] = Idle] /\ UNCHANGED <<cookies, jar, store, refresh, live, expired>>
      /\ mishaps' = mishaps /\ user' = user
  BY <1>3 DEF GiveUp, Finish, serverVars
<1>5. QED
  BY <1>4, KeptOver DEF KeptCore

LEMMA KeptFailure == ASSUME TypeInv, KeptCore, NEW c \in Calls, FailureHandled(c) PROVE KeptCore'
<1>1. Sound(c) /\ CallShape(call[c]) /\ call[c] \in CallType
  BY KeptFacts DEF KeptCore
<1>2. UNCHANGED <<cookies, jar, store, live, expired>> /\ Thrown(c) /\ call[c].ans = "failed"
  BY DEF FailureHandled, serverVars
<1>3. mishaps' = mishaps /\ "dropped" \notin mishaps'
  BY <1>2 DEF Thrown, Finish, KeptCore
<1>4. call[c].flow # "none" /\ call[c].tab \in Tabs
  BY <1>1, <1>2, CallFacts DEF CallShape
<1>5. CASE Show(c, None)
  BY <1>2, <1>3, <1>4, <1>5, KeptShow
<1>6. CASE Show(c, call[c].who) /\ call[c].req = "me"
  <2>1. cookies = FALSE => store[call[c].tab] # 0
    BY <1>1, <1>4, <1>6 DEF Sound
  <2>2. QED
    BY <1>2, <1>3, <1>4, <1>6, <2>1, KeptShow
<1>7. CASE Finish(c) /\ user' = user
  BY <1>2, <1>3, <1>7, KeptOver DEF Finish
<1>8. QED
  BY <1>2, <1>5, <1>6, <1>7 DEF Thrown

LEMMA KeptFails == ASSUME TypeInv, KeptCore, NEW c \in Calls, CallFails(c) PROVE KeptCore'
<1> DEFINE new == [call[c] EXCEPT !.st = "answered", !.ans = "failed", !.tok = 0]
<1>1. Sound(c) /\ call[c] \in CallType
  BY KeptFacts DEF KeptCore
<1>2. /\ call' = [call EXCEPT ![c] = new]
      /\ UNCHANGED <<cookies, jar, store, user, refresh, live, expired, mishaps>>
  BY DEF CallFails, tabVars, serverVars, history
<1>3. /\ call'[c].st = "answered" /\ call'[c].ans = "failed" /\ call'[c].flow = call[c].flow
      /\ call'[c].req = call[c].req /\ call'[c].tab = call[c].tab
      /\ call'[c].retry = call[c].retry
  BY <1>1, <1>2 DEF TypeInv, ClientTyped, CallsTyped, CallType
<1> HIDE DEF new
<1>4. Sound(c)' /\ ~Registered(c)'
  BY <1>1, <1>2, <1>3 DEF Sound, Registered
<1>5. "dropped" \notin mishaps'
  BY <1>2 DEF KeptCore
<1>6. QED
  BY <1>2, <1>4, <1>5, KeptCall

\* The tab takes the session it has registered for.
LEMMA KeptLoggedIn ==
  ASSUME TypeInv, ShareInv, KeptCore, NEW c \in Calls, Registered(c), Quiet(call[c].tab),
         call[c].tab # None, LoggedIn(c), UNCHANGED <<cookies, live, expired>>
  PROVE  KeptCore'
<1>1. PICK t, n : t = call[c].tab /\ n = call[c].tok
  OBVIOUS
<1>2. Sound(c) /\ Typed(call[c]) /\ t \in Tabs /\ call[c].flow = "register" /\ call[c].retry = FALSE
  <2>1. Sound(c) /\ Typed(call[c])
    BY DEF KeptCore, TypeInv, ClientTyped, CallsTyped
  <2>2. t \in Tabs
    BY <1>1, CallFacts
  <2>3. call[c].flow = "register"
    BY <2>1 DEF LoggedIn, Sound
  <2>4. call[c].retry = FALSE
    BY <2>1 DEF Sound, Typed, CallType, Registered
  <2>5. QED
    BY <2>1, <2>2, <2>3, <2>4
<1>3. n \in live /\ Unseen(n) /\ n # 0
  BY <1>1, KeptFacts DEF KeptCore, AnswersNew
<1>4. /\ jar' = IF cookies THEN n ELSE jar
      /\ store' = [store EXCEPT ![t] = n]
      /\ UNCHANGED <<user, refresh>> /\ mishaps' = mishaps
      /\ \/ call' = [call EXCEPT ![c] = [call[c] EXCEPT !.req = "me", !.ans = "none", !.st = "sent"]]
         \/ call' = [call EXCEPT ![c] = Idle]
  BY <1>1 DEF LoggedIn, Finish
<1>5. store'[t] = n /\ \A u \in Tabs \ {t} : store'[u] = store[u]
  BY <1>2, <1>4 DEF TypeInv, TabsTyped
<1>6. \A d \in Calls \ {c} : call'[d] = call[d]
  BY <1>4 DEF TypeInv, ClientTyped, CallsTyped
<1>7. Sound(c)' /\ ~Registered(c)'
  <2>1. CASE call' = [call EXCEPT ![c] = Idle]
    <3>1. call'[c] = Idle
      BY <2>1 DEF TypeInv, ClientTyped, CallsTyped
    <3>2. QED
      BY <3>1 DEF Sound, Registered, Idle
  <2>2. CASE call' = [call EXCEPT ![c] =
                       [call[c] EXCEPT !.req = "me", !.ans = "none", !.st = "sent"]]
    <3>1. /\ call'[c].req = "me" /\ call'[c].st = "sent" /\ call'[c].flow = "register"
          /\ call'[c].tab = t /\ call'[c].retry = FALSE
      BY <1>1, <1>2, <2>2 DEF TypeInv, ClientTyped, CallsTyped, CallType
    <3>2. QED
      BY <1>3, <1>5, <3>1 DEF Sound, Registered
  <2>3. QED
    BY <1>4, <2>1, <2>2
<1>8. \A d \in Calls : Sound(d)' /\ (Registered(d)' => d # c /\ Registered(d) /\ call'[d] = call[d])
  <2>1. ASSUME NEW d \in Calls \ {c} PROVE Sound(d)'
    <3>1. Sound(d) /\ (call[d].flow # "none" => call[d].tab \in Tabs)
      BY KeptFacts DEF KeptCore, CallShape
    <3>2. call[d].st = "woken" => call[d].tab \in Tabs \ {t}
      BY <1>1 DEF Quiet, ShareInv, WokenInTab
    <3>3. cookies' = cookies /\ expired' = expired /\ call'[d] = call[d]
      BY <1>6
    <3>4. call[d].flow # "none" /\ store[call[d].tab] # 0 => store'[call[d].tab] # 0
      BY <1>3, <1>5, <3>1
    <3>5. QED
      BY <1>5, <3>1, <3>2, <3>3, <3>4 DEF Sound
  <2>2. QED
    BY <1>6, <1>7, <2>1 DEF Registered
<1>9. refresh' = refresh /\ live' = live /\ expired' = expired
  BY <1>4
<1>10. \A m : m # n /\ Unseen(m) => Unseen(m)'
  BY <1>4, <1>5, <1>9 DEF Unseen, Busy
<1>11. \A m : Good(m) => Good(m)'
  BY <1>9 DEF Good, Issued
<1>12. RefreshesGood' /\ TokensApart'
  BY <1>9 DEF KeptCore, RefreshesGood, TokensApart, Busy, Issued
<1>13. AnswersNew'
  <2>1. ASSUME NEW s \in Refreshes, Issued(s)'
        PROVE  Issued(s) /\ refresh'[s].new = refresh[s].new /\ Unseen(refresh[s].new)'
    <3>1. Issued(s)
      BY <1>9, <2>1 DEF Issued
    <3>2. Unseen(refresh[s].new) /\ refresh[s].new # n
      BY <1>1, <3>1 DEF KeptCore, AnswersNew
    <3>3. QED
      BY <1>9, <1>10, <3>1, <3>2
  <2>2. ASSUME NEW d \in Calls, Registered(d)'
        PROVE  Registered(d) /\ call'[d] = call[d] /\ call'[d].tok \in live' /\ Unseen(call[d].tok)'
    <3>1. Registered(d) /\ call'[d] = call[d] /\ d # c
      BY <1>8, <2>2
    <3>2. call[d].tok \in live /\ Unseen(call[d].tok) /\ call[d].tok # n
      BY <1>1, <3>1 DEF KeptCore, AnswersNew
    <3>3. QED
      BY <1>9, <1>10, <3>1, <3>2
  <2>3. \A s, x \in Refreshes : Issued(s)' /\ Issued(x)' /\ s # x => refresh'[s].new # refresh'[x].new
    BY <2>1 DEF KeptCore, AnswersNew
  <2>4. \A s \in Refreshes, d \in Calls : Issued(s)' /\ Registered(d)' => refresh'[s].new # call'[d].tok
    BY <2>1, <2>2 DEF KeptCore, AnswersNew
  <2>5. \A d, e \in Calls : Registered(d)' /\ Registered(e)' /\ d # e => call'[d].tok # call'[e].tok
    BY <2>2 DEF KeptCore, AnswersNew
  <2>6. QED
    BY <2>1, <2>2, <2>3, <2>4, <2>5 DEF AnswersNew
<1>14. CredentialsGood'
  <2>1. Good(n)'
    BY <1>3, <1>9 DEF Good
  <2>2. CASE cookies = TRUE
    BY <1>4, <2>1, <2>2 DEF CredentialsGood
  <2>3. CASE cookies = FALSE
    <3>1. cookies' = FALSE
      BY <2>3
    <3>2. ASSUME NEW u \in Tabs \ {t}, store[u] # 0 PROVE Good(store[u])'
      <4>1. Good(store[u])
        BY <2>3, <3>2 DEF KeptCore, CredentialsGood
      <4>2. QED
        BY <1>5, <1>11, <4>1
    <3>3. QED
      BY <1>5, <2>1, <3>1, <3>2 DEF CredentialsGood
  <2>4. QED
    BY <2>2, <2>3, KeptFacts
<1>15. StoresApart' /\ PagesHaveTokens'
  <2>1. \A r \in Refreshes : Busy(r)' => Busy(r) /\ refresh'[r] = refresh[r]
    BY <1>9 DEF Busy
  <2>2. QED
    BY <1>2, <1>3, <1>4, <2>1, KeptTaken DEF KeptCore
<1>16. "dropped" \notin mishaps'
  BY <1>4 DEF KeptCore
<1>17. QED
  BY <1>8, <1>12, <1>13, <1>14, <1>15, <1>16 DEF KeptCore

LEMMA KeptFetched ==
  ASSUME TypeInv, ShareInv, KeptCore, NEW c \in Calls, call[c].tab \in Tabs,
         call[c].st = "answered" => call[c].ans = "ok",
         UserFetched(c), "excused" \notin mishaps', UNCHANGED <<cookies, live, expired>>
  PROVE  KeptCore'
<1>1. Typed(call[c]) /\ Sound(c) /\ call[c].flow = "fetch" /\ UNCHANGED <<jar, store>>
  BY DEF UserFetched, KeptCore, TypeInv, ClientTyped, CallsTyped
<1>2. call[c].req = "me" /\ (cookies = FALSE => store[call[c].tab] # 0) /\ call[c].retry \in BOOLEAN
  BY <1>1 DEF Typed, CallShape, Sound, CallType
<1>3. CASE Finish(c) /\ user' = user
  BY <1>1, <1>3, KeptOver DEF Finish, KeptCore
<1>4. ASSUME NEW u, Show(c, u), UNCHANGED mishaps PROVE KeptCore'
  BY <1>1, <1>2, <1>4, KeptShow DEF KeptCore
<1>5. CASE /\ call[c].st = "answered" /\ store[call[c].tab] = 0
           /\ TryRefresh(c, [call[c] EXCEPT !.then = "sync", !.who = owner[call[c].tok],
                                            !.ans = "none", !.tok = 0], 0)
           /\ user' = user
  <2> DEFINE rec == [call[c] EXCEPT !.then = "sync", !.who = owner[call[c].tok],
                                    !.ans = "none", !.tok = 0]
  <2>1. call[c].tok # 0 /\ call[c].tok \in Sessions /\ 0 \in Nat
    BY <1>1, <1>2, <1>5, CallFacts DEF Typed, CallShape
  <2>2. owner[call[c].tok] \in Users
    BY <2>1, SessionUser DEF TypeInv
  <2>3. Typed(rec)
    BY <1>1, <2>1, <2>2, SyncRecord
  <2>4. /\ rec.flow = "fetch" /\ rec.req = "me" /\ rec.tab = call[c].tab
        /\ rec.retry = call[c].retry
    BY <1>1, <1>2 DEF Typed, CallType
  <2>5. TryRefresh(c, rec, store[call[c].tab])
    BY <1>5
  <2> HIDE DEF rec
  <2>6. QED
    BY <1>1, <1>2, <1>5, <2>3, <2>4, <2>5, KeptTryRefresh
<1>6. QED
  BY <1>3, <1>4, <1>5 DEF UserFetched

LEMMA KeptReply ==
  ASSUME TypeInv, ShareInv, KeptCore, NEW c \in Calls, Answered(c), "excused" \notin mishaps'
  PROVE  KeptCore'
<1>1. /\ UNCHANGED <<cookies, live, expired>> /\ call[c].tab \in Tabs
      /\ Typed(call[c]) /\ Sound(c) /\ 0 \in Nat
  BY CallFacts DEF Answered, serverVars, KeptCore, TypeInv, ClientTyped, CallsTyped
<1>2. /\ call[c].flow # "none" /\ call[c].req # "logout" /\ call[c].flow \notin {"login", "logout"}
      /\ (cookies = FALSE /\ call[c].req # "login" => store[call[c].tab] # 0)
  BY <1>1, CallFacts, NoneApart DEF Sound
<1>3. \/ call[c].st = "answered" /\ call[c].ans = "ok" /\ Quiet(call[c].tab)
      \/ call[c].st = "woken" /\ call[c].then = "sync"
  <2>1. \/ call[c].st = "answered" /\ call[c].ans = "ok" /\ Quiet(call[c].tab)
        \/ call[c].st = "woken" /\ call[c].then = "sync"
        \/ call[c].req = "logout"
    BY DEF Answered
  <2>2. QED
    BY <1>2, <2>1
<1>4. CASE PageAnswered(c)
  <2>1. /\ UNCHANGED <<jar, store, refresh>> /\ user' = user /\ mishaps' = mishaps
        /\ call' = [call EXCEPT ![c] = Idle]
    BY <1>4 DEF PageAnswered, Finish
  <2>2. "dropped" \notin mishaps'
    BY <2>1 DEF KeptCore
  <2>3. QED
    BY <1>1, <2>1, <2>2, KeptOver
<1>5. CASE UserFetched(c)
  BY <1>1, <1>3, <1>5, KeptFetched
<1>6. CASE SessionCleared(c) \/ LoggedOut(c)
  BY <1>2, <1>6 DEF SessionCleared, LoggedOut
<1>7. CASE LoggedIn(c)
  <2>1. call[c].req = "login"
    BY <1>7 DEF LoggedIn
  <2>2. Registered(c) /\ Quiet(call[c].tab)
    BY <1>1, <1>3, <2>1 DEF Registered, Typed, CallShape
  <2>3. QED
    BY <1>1, <1>7, <2>2, NoneApart, KeptLoggedIn
<1>8. CASE Confirmed(c)
  <2>1. call[c].req = "me" /\ UNCHANGED <<jar, store, mishaps>>
    BY <1>8 DEF Confirmed, history
  <2>2. PICK u : Show(c, u)
    BY <1>8 DEF Confirmed
  <2>3. QED
    BY <1>1, <1>2, <2>1, <2>2, KeptShow DEF KeptCore
<1>9. QED
  BY <1>4, <1>5, <1>6, <1>7, <1>8 DEF Answered

\* What is left of a page asks for no refresh; what it registered goes unheard.
LEMMA KeptReload ==
  ASSUME TypeInv, KeptCore, NEW t \in Tabs, Reload(t)
  PROVE  KeptCore'
<1>1. UNCHANGED <<cookies, jar, store, live, expired>> /\ LeavePage(t) /\ mishaps' = mishaps
  BY DEF Reload, serverVars, history
<1>2. RefreshesStand
  <2> SUFFICES ASSUME NEW r \in Refreshes
               PROVE  /\ refresh'[r].st = refresh[r].st /\ refresh'[r].tok = refresh[r].tok
                      /\ refresh'[r].new = refresh[r].new
                      /\ refresh'[r].tab \in {refresh[r].tab, None}
    BY DEF RefreshesStand
  <2>1. refresh[r] \in RefreshType
    BY KeptFacts
  <2>2. refresh'[r] = refresh[r] \/ refresh'[r] = [refresh[r] EXCEPT !.tab = None]
    BY <1>1 DEF LeavePage
  <2>3. QED
    BY <2>1, <2>2 DEF RefreshType
<1>3. \A u \in Tabs : user'[u] # None => user[u] # None
  BY <1>1 DEF LeavePage, TypeInv, TabsTyped
<1>4. ASSUME NEW c \in Calls PROVE CallKept(c)
  <2> DEFINE left == [Idle EXCEPT !.st = "sent", !.req = call[c].req, !.who = call[c].who,
                                  !.tok = call[c].tok]
  <2>1. \/ call'[c] = call[c] \/ call'[c] = Idle
        \/ call[c].req \in {"login", "logout"} /\ call'[c] = left
    BY <1>1 DEF LeavePage, Unheard
  <2>2. /\ left.flow = "none" /\ left.st = "sent" /\ left.req = call[c].req /\ left.retry = FALSE
        /\ Idle.flow = "none" /\ Idle.st = "free" /\ Idle.req = "none" /\ Idle.retry = FALSE
    BY DEF Idle
  <2> HIDE DEF left
  <2>3. call[c].req # "logout"
    BY DEF KeptCore, Sound
  <2>4. CASE call'[c] = call[c]
    BY <2>4 DEF CallKept
  <2>5. CASE call'[c] = Idle \/ call'[c] = left
    BY <2>2, <2>3, <2>5 DEF CallKept, Sound, Registered
  <2>6. QED
    BY <2>1, <2>4, <2>5
<1>5. "dropped" \notin mishaps'
  BY <1>1 DEF KeptCore
<1>6. QED
  BY <1>1, <1>2, <1>3, <1>4, <1>5, KeptStands

\* What retries carry outlives them.
LEMMA KeptExpire == ASSUME TypeInv, ShareInv, KeptCore, Expire PROVE KeptCore'
<1>1. /\ UNCHANGED <<cookies, jar, store, user, call, refresh, live, mishaps>>
      /\ expired' = expired + 1 /\ expired + 1 \notin Fresh
  BY DEF Expire, tabVars, history
<1>2. ASSUME NEW n \in Fresh, n \in Nat, n > expired PROVE n > expired'
  BY <1>1, <1>2, KeptFacts
<1>3. refresh' = refresh /\ call' = call /\ store' = store /\ live' = live /\ cookies' = cookies
      /\ jar' = jar /\ user' = user /\ mishaps' = mishaps
  BY <1>1
<1>4. RefreshesGood'
  <2>1. ASSUME NEW r \in Refreshes, refresh[r].new > expired PROVE refresh[r].new > expired'
    <3>1. refresh[r].new \in Fresh
      BY DEF Fresh
    <3>2. refresh[r].new \in Nat
      BY KeptFacts
    <3>3. QED
      BY <1>2, <2>1, <3>1, <3>2
  <2>2. QED
    BY <1>3, <2>1 DEF KeptCore, RefreshesGood, Busy, Issued
<1>5. TokensApart' /\ AnswersNew' /\ StoresApart'
  BY <1>3 DEF KeptCore, TokensApart, AnswersNew, StoresApart, Unseen, Busy, Issued, Registered
<1>6. CredentialsGood' /\ PagesHaveTokens'
  BY <1>3 DEF KeptCore, CredentialsGood, PagesHaveTokens, Good, Issued
<1>7. ASSUME NEW c \in Calls PROVE Sound(c)'
  <2>1. Sound(c)
    BY DEF KeptCore
  <2>2. ASSUME call[c].st = "woken" PROVE store[call[c].tab] > expired'
    <3>1. call[c].tab \in Tabs /\ ~Quiet(call[c].tab)
      BY <2>2 DEF ShareInv, WokenInTab, Quiet
    <3>2. store[call[c].tab] \in Fresh /\ store[call[c].tab] \in Nat
      BY <3>1, KeptFacts DEF Fresh
    <3>3. QED
      BY <1>2, <2>1, <2>2, <3>2 DEF Sound
  <2>3. ASSUME call[c].retry, call[c].st = "sent" PROVE call[c].tok > expired'
    <3>1. call[c].tok \in Fresh /\ call[c].tok \in Nat
      BY <2>3, KeptFacts DEF Fresh
    <3>2. QED
      BY <1>2, <2>1, <2>3, <3>1 DEF Sound
  <2>4. QED
    BY <1>3, <2>1, <2>2, <2>3 DEF Sound
<1>8. QED
  BY <1>3, <1>4, <1>5, <1>6, <1>7 DEF KeptCore

\* A call that begins.
Opens(rec, flow, req, t) ==
  Typed(rec) /\ rec.flow = flow /\ rec.req = req /\ rec.tab = t /\ rec.retry = FALSE

LEMMA StartRequests ==
  ASSUME NEW c \in Calls, NEW t \in Tabs, NEW e \in Nat, NEW who \in Users \cup {None},
         NEW held, NEW flow, NEW req,
         \/ flow = "page" /\ req \in {"get", "post"}
         \/ flow = "fetch" /\ req = "me"
         \/ flow = "login" /\ req = "logout" /\ who \in Users
         \/ flow = "register" /\ req = "login" /\ who \in Users
         \/ flow = "logout" /\ req = "logout",
         Start(c, t, flow, req, who, e, held)
  PROVE  \E rec : Opens(rec, flow, req, t) /\ Request(c, rec, held)
<1> DEFINE rec == [Idle EXCEPT !.flow = flow, !.req = req, !.tab = t, !.epoch = e, !.who = who]
<1>1. Typed(rec)
  BY StartRecord
<1>2. rec.flow = flow /\ rec.req = req /\ rec.tab = t /\ rec.retry = FALSE
  BY DEF Idle
<1>3. Request(c, rec, held)
  BY DEF Start
<1> HIDE DEF rec
<1>4. QED
  BY <1>1, <1>2, <1>3 DEF Opens

LEMMA KeptBegin ==
  ASSUME TypeInv, ShareInv, KeptCore, NEW c \in Calls, NEW t \in Tabs,
         PageRequest(c, t) \/ FetchUser(c, t) \/ Login(c, t) \/ Logout(c, t),
         "excused" \notin mishaps'
  PROVE  KeptCore'
<1>1. UNCHANGED <<cookies, jar, live, expired>> /\ store[t] \in 0..Len(owner) /\ 0 \in 0..Len(owner)
  BY KeptFacts DEF PageRequest, FetchUser, Login, Logout, serverVars
<1>2. ASSUME NEW req \in {"get", "post"}, Start(c, t, "page", req, None, 0, store[t]),
             user[t] # None, UNCHANGED <<store, user>>
      PROVE  KeptCore'
  <2>1. PICK rec : Opens(rec, "page", req, t) /\ Request(c, rec, store[t])
    BY <1>2, StartRequests
  <2>2. /\ Typed(rec) /\ Request(c, rec, store[t])
        /\ rec.flow = "page" /\ rec.req = req /\ rec.tab = t /\ rec.retry = FALSE
    BY <2>1 DEF Opens
  <2>3. cookies = FALSE => store[t] # 0
    BY <1>2 DEF KeptCore, PagesHaveTokens
  <2>4. CASE Send(c, rec, store[t])
    BY <1>1, <1>2, <2>2, <2>3, <2>4, KeptSend
  <2>5. CASE TryRefresh(c, [rec EXCEPT !.then = "send"], store[t])
    <3> DEFINE later == [rec EXCEPT !.then = "send"]
    <3>1. Typed(later)
      BY <2>2, ThenSend
    <3>2. later.flow = "page" /\ later.req = req /\ later.tab = t
      BY <2>2 DEF Typed, CallType
    <3>3. TryRefresh(c, later, store[t])
      BY <2>5
    <3> HIDE DEF later
    <3>4. QED
      BY <1>1, <1>2, <2>3, <3>1, <3>2, <3>3, KeptTryRefresh
  <2>6. QED
    BY <2>2, <2>4, <2>5 DEF Request
<1>3. ASSUME NEW e \in Nat, Start(c, t, "fetch", "me", None, e, store[t]),
             cookies \/ store[t] # 0, UNCHANGED <<store, user>>
      PROVE  KeptCore'
  <2>1. PICK rec : Opens(rec, "fetch", "me", t) /\ Request(c, rec, store[t])
    BY <1>3, StartRequests
  <2>2. /\ Typed(rec) /\ Request(c, rec, store[t])
        /\ rec.flow = "fetch" /\ rec.req = "me" /\ rec.tab = t /\ rec.retry = FALSE
    BY <2>1 DEF Opens
  <2>3. Send(c, rec, store[t]) /\ (cookies = FALSE => store[t] # 0)
    BY <1>3, <2>2 DEF Request, Mutating
  <2>4. QED
    BY <1>1, <1>3, <2>2, <2>3, KeptSend
<1>4. ASSUME NEW e \in Nat, NEW u \in Users, Start(c, t, "register", "login", u, e, store[t]),
             UNCHANGED <<store, user>>
      PROVE  KeptCore'
  <2>1. PICK rec : Opens(rec, "register", "login", t) /\ Request(c, rec, store[t])
    BY <1>4, StartRequests
  <2>2. /\ Typed(rec) /\ Request(c, rec, store[t])
        /\ rec.flow = "register" /\ rec.req = "login" /\ rec.tab = t /\ rec.retry = FALSE
    BY <2>1 DEF Opens
  <2>3. Send(c, rec, store[t])
    BY <2>2 DEF Request, Mutating
  <2>4. QED
    BY <1>1, <1>4, <2>2, <2>3, KeptSend
\* A login and a logout begin with a refresh that is going to be refused.
<1>5. ASSUME NEW e \in Nat, NEW who \in Users \cup {None}, NEW flow,
             (flow = "login" /\ who \in Users) \/ flow = "logout",
             Start(c, t, flow, "logout", who, e, 0)
      PROVE  KeptCore'
  <2>1. PICK rec : Opens(rec, flow, "logout", t) /\ Request(c, rec, 0)
    BY <1>5, StartRequests
  <2>2. Typed(rec) /\ Request(c, rec, 0) /\ rec.req = "logout"
    BY <2>1 DEF Opens
  <2>3. TryRefresh(c, [rec EXCEPT !.then = "send"], 0)
    BY <2>2 DEF Request, Mutating
  <2>4. [rec EXCEPT !.then = "send"].req = "logout"
    BY <2>2 DEF Typed, CallType
  <2>5. "excused" \in mishaps'
    BY <2>3, <2>4 DEF TryRefresh
  <2>6. QED
    BY <2>5
<1>6. epoch[t] \in Nat /\ (epoch' = [epoch EXCEPT ![t] = @ + 1] => epoch'[t] \in Nat)
  BY DEF TypeInv, TabsTyped
<1>7. CASE PageRequest(c, t)
  BY <1>2, <1>7 DEF PageRequest
<1>8. CASE FetchUser(c, t)
  <2>1. CASE UNCHANGED <<call, refresh, inFlight, mishaps, events>>
    <3>1. user' = user \/ user' = [user EXCEPT ![t] = None]
      BY <1>8 DEF FetchUser
    <3>2. \A u \in Tabs : user'[u] # None => user[u] # None
      BY <3>1 DEF TypeInv, TabsTyped
    <3>3. RefreshesStand /\ "dropped" \notin mishaps' /\ UNCHANGED store
      BY <1>8, <2>1 DEF FetchUser, RefreshesStand, KeptCore
    <3>4. \A d \in Calls : CallKept(d)
      BY <2>1 DEF CallKept
    <3>5. QED
      BY <1>1, <3>2, <3>3, <3>4, KeptStands
  <2>2. QED
    BY <1>3, <1>6, <1>8, <2>1 DEF FetchUser
<1>9. CASE Login(c, t)
  <2>1. PICK u \in Users :
          \/ Start(c, t, "login", "logout", u, epoch'[t], 0)
          \/ UNCHANGED store /\ Start(c, t, "register", "login", u, epoch'[t], store[t])
    BY <1>9 DEF Login
  <2>2. epoch'[t] \in Nat /\ UNCHANGED user
    BY <1>6, <1>9 DEF Login
  <2>3. QED
    BY <1>4, <1>5, <2>1, <2>2
<1>10. CASE Logout(c, t)
  <2>1. Start(c, t, "logout", "logout", None, epoch'[t], 0) /\ epoch'[t] \in Nat
    BY <1>6, <1>10 DEF Logout
  <2>2. QED
    BY <1>5, <2>1
<1>11. QED
  BY <1>7, <1>8, <1>9, <1>10

LEMMA KeptUnwanted ==
  ASSUME TypeInv, KeptCore, Unwanted, "excused" \notin mishaps'
  PROVE  KeptCore'
<1>1. PICK c \in Calls : call' = [call EXCEPT ![c] = Idle]
  BY DEF Unwanted
<1>2. /\ UNCHANGED <<cookies, jar, store, refresh, live, expired>> /\ user' = user
      /\ mishaps' = mishaps
  BY DEF Unwanted, tabVars, serverVars
<1>3. "dropped" \notin mishaps'
  BY <1>2 DEF KeptCore
<1>4. QED
  BY <1>1, <1>2, <1>3, KeptOver

\* Once a mishap has happened it has happened.
LEMMA MishapsStand == [Next]_vars => mishaps \subseteq mishaps'
<1> SUFFICES ASSUME [Next]_vars PROVE mishaps \subseteq mishaps'
  OBVIOUS
<1>1. ASSUME NEW c, NEW rec, NEW held, Request(c, rec, held) \/ TryRefresh(c, rec, held)
      PROVE  mishaps \subseteq mishaps'
  BY <1>1 DEF Request, Send, TryRefresh
<1>2. ASSUME NEW c \in Calls, NEW t \in Tabs,
             PageRequest(c, t) \/ FetchUser(c, t) \/ Login(c, t) \/ Logout(c, t)
      PROVE  mishaps \subseteq mishaps'
  BY <1>1, <1>2 DEF PageRequest, FetchUser, Login, Logout, Start
<1>3. ASSUME NEW c \in Calls, GiveUp(c) \/ FailureHandled(c) PROVE mishaps \subseteq mishaps'
  BY <1>3 DEF GiveUp, FailureHandled, Refused, AuthLost, Thrown, Finish
<1>4. ASSUME NEW c \in Calls, TryAgain(c) \/ GoOn(c) PROVE mishaps \subseteq mishaps'
  BY <1>1, <1>4 DEF TryAgain, GoOn, Send
<1>5. ASSUME NEW c \in Calls, Answered(c) PROVE mishaps \subseteq mishaps'
  BY <1>1, <1>5 DEF Answered, PageAnswered, UserFetched, SessionCleared, LoggedIn, Confirmed,
                    LoggedOut, Finish, Send, history
<1>6. ASSUME NEW c \in Calls, Serve(c) \/ CallFails(c) PROVE mishaps \subseteq mishaps'
  BY <1>6 DEF Serve, CallFails, history
<1>7. ASSUME NEW r \in Refreshes,
             RotateRead(r) \/ RotateCommit(r) \/ RefreshAnswered(r) \/ RefreshFails(r)
      PROVE  mishaps \subseteq mishaps'
  BY <1>7 DEF RotateRead, RotateCommit, RefreshAnswered, RefreshFails, history
<1>8. ASSUME Unwanted \/ (\E t \in Tabs : Reload(t)) \/ Expire \/ Revoke \/ UNCHANGED vars
      PROVE  mishaps \subseteq mishaps'
  BY <1>8 DEF Unwanted, Reload, Expire, Revoke, history, vars
<1>9. QED
  BY <1>2, <1>3, <1>4, <1>5, <1>6, <1>7, <1>8 DEF Next, Work

LEMMA KeptStep == TypeInv /\ ShareInv /\ KeptInv /\ [Next]_vars => KeptInv'
<1> SUFFICES ASSUME TypeInv, ShareInv, KeptInv, [Next]_vars, "excused" \notin mishaps'
             PROVE  KeptCore'
  BY DEF KeptInv
<1>1. KeptCore
  BY MishapsStand DEF KeptInv
<1>2. ASSUME NEW r \in Refreshes, RefreshFails(r) PROVE FALSE
  BY <1>2 DEF RefreshFails
<1>3. ~Revoke
  BY DEF Revoke
<1>4. CASE UNCHANGED vars
  BY <1>1, <1>4 DEF vars, tabVars, serverVars, history, KeptCore, RefreshesGood, TokensApart,
                    AnswersNew, CredentialsGood, StoresApart, PagesHaveTokens, Sound, Unseen,
                    Good, Busy, Issued, Registered
<1>5. QED
  BY <1>1, <1>2, <1>3, <1>4, KeptBegin, KeptServe, KeptRead, KeptCommit, KeptAnswered,
     KeptTryAgain, KeptGiveUp, KeptGoOn, KeptReply, KeptFailure, KeptUnwanted, KeptFails,
     KeptReload, KeptExpire
  DEF Next, Work

LEMMA KeptInit == Init => KeptInv
<1> SUFFICES ASSUME Init PROVE KeptCore
  BY DEF KeptInv
<1>1. /\ mishaps = {} /\ live = {1} /\ cookies \in BOOLEAN /\ jar = (IF cookies THEN 1 ELSE 0)
      /\ FirstTab \in Tabs /\ \A t \in Tabs : store[t] = IF t = FirstTab THEN 1 ELSE 0
      /\ \A t \in Tabs : user[t] = IF t = FirstTab THEN FirstUser ELSE None
  BY SessionAssumption DEF Init
<1>2. \A r \in Refreshes : ~Busy(r) /\ ~Issued(r)
  BY DEF Init, Busy, Issued, Finished
<1>3. \A c \in Calls : Sound(c) /\ ~Registered(c)
  BY DEF Init, Idle, Sound, Registered
<1>4. RefreshesGood /\ TokensApart /\ AnswersNew
  BY <1>2, <1>3 DEF RefreshesGood, TokensApart, AnswersNew
<1>5. CredentialsGood
  BY <1>1 DEF CredentialsGood, Good
<1>6. StoresApart /\ PagesHaveTokens
  BY <1>1, <1>2 DEF StoresApart, PagesHaveTokens
<1>7. QED
  BY <1>1, <1>3, <1>4, <1>5, <1>6 DEF KeptCore

LEMMA KeptAlways == Spec => []KeptInv
  BY ShareInit, ShareStep, TypeInit, TypeStep, KeptInit, KeptStep, PTL DEF Spec

\* A tab gives its session up only after a logout, a revocation, a lost answer of
\* /auth/refresh or two tabs that presented one refresh token at once: however many calls
\* are answered 401 together, they share one refresh, its answer serves them all, and no
\* second attempt is refused.
THEOREM SessionsKept == Spec => []SessionKept
<1>1. KeptInv => SessionKept
  BY DEF KeptInv, KeptCore, SessionKept
<1>2. QED
  BY <1>1, KeptAlways, PTL

\* What the browser's cookie holds can be exchanged, or the answer with its successor is on
\* the way, with the same exceptions.
THEOREM CookiesGood == Spec => []CookieGood
<1>1. KeptInv => CookieGood
  BY DEF KeptInv, KeptCore, CredentialsGood, Good, Issued, CookieGood
<1>2. QED
  BY <1>1, KeptAlways, PTL

===============================================================================
