--------------------------- MODULE BrowserSession ---------------------------
(* The signed-in session of one browser tab: AuthContext (the user, the       *)
(* access token, the shared refresh, logout and login that wait for one       *)
(* another), the interceptors of the API client (a 401 refreshes the token    *)
(* and sends the request again, others queue behind it), and as much of the   *)
(* server as decides what they are answered.                                  *)
(*                                                                            *)
(* An issue number stands for the access token and the refresh cookie that    *)
(* one answer of the server carries; 0 is none.  React's delay is kept:       *)
(* "seen" is the token of the last committed render, the one the interceptor  *)
(* and the visibility listener hold, and it follows "token" in a step of its  *)
(* own, after every continuation of the promise that set the token.           *)
EXTENDS Naturals, FiniteSets

CONSTANTS Requests,    \* calls of the API client
          MaxIssues,   \* bound: answers of the server that carry tokens
          MaxLogouts   \* bound: calls of logout

ASSUME SessionAssumption == MaxIssues \in Nat \ {0} /\ MaxLogouts \in Nat

VARIABLES tab,         \* what AuthContext and its last render hold
          refreshCall, \* the request of refreshPromiseRef
          logouts,     \* every call of logout, the last one in logoutPromiseRef
          loginCall,   \* the sign-in under way
          calls,       \* the API requests; one that is answered or rejected is idle again
          isRefreshing,        \* isRefreshing, and the request that refreshes
          server       \* issues, live and rotated-out cookies, expired tokens, the browser's cookie

sessionVars == <<tab, refreshCall, logouts, loginCall, calls, isRefreshing, server>>

Issues == 1..MaxIssues
NoRefresh == [at |-> "none", gen |-> 0, issue |-> 0]
NoLogin == [at |-> "none", awaits |-> 0, issue |-> 0]
Unsent == [at |-> "idle", token |-> 0, retried |-> FALSE]
UnusedLogout == [at |-> "unused", shows |-> 0, by |-> "user"]

\* refreshGenerationRef counts the calls of logout.
Generation == Cardinality({i \in DOMAIN logouts : logouts[i].at # "unused"})

(* A tab opens, with or without a live cookie, and its bootstrap refresh is   *)
(* sent at once.                                                              *)
SessionInit ==
  \E cookie \in 0..1 :
    /\ tab = [user |-> FALSE, token |-> 0, seen |-> 0, loading |-> TRUE, timer |-> FALSE]
    /\ refreshCall = [at |-> "sent", gen |-> 0, issue |-> cookie]
    /\ logouts = [i \in 1..MaxLogouts |-> UnusedLogout]
    /\ loginCall = NoLogin
    /\ calls = [c \in Requests |-> Unsent]
    /\ isRefreshing = FALSE
    /\ server = [issued |-> cookie, live |-> {cookie} \ {0}, rotated |-> {}, expired |-> {},
                 cookie |-> cookie]
-----------------------------------------------------------------------------
(* The tab. *)

\* The effects of the last render: the interceptor now reads the new token.
Render ==
  /\ tab.seen # tab.token
  /\ tab' = [tab EXCEPT !.seen = tab.token]
  /\ UNCHANGED <<refreshCall, logouts, loginCall, calls, isRefreshing, server>>

\* refreshToken(): one request at a time, shared by everybody who asks.
StartRefresh ==
  refreshCall' = IF refreshCall.at # "none" THEN refreshCall
                 ELSE [at |-> "sent", gen |-> Generation, issue |-> server.cookie]

\* A minute before the token expires, or later in a throttled tab.
TimerFires ==
  /\ tab.timer
  /\ tab' = [tab EXCEPT !.timer = FALSE]
  /\ StartRefresh
  /\ UNCHANGED <<logouts, loginCall, calls, isRefreshing, server>>

\* The tab becomes visible: refresh a token that is about to expire, re-arm
\* the timer of any other.
BecomesVisible ==
  /\ tab.seen # 0
  /\ \/ /\ StartRefresh
        /\ UNCHANGED tab
     \/ /\ tab.seen \notin server.expired
        /\ tab' = [tab EXCEPT !.timer = TRUE]
        /\ UNCHANGED refreshCall
  /\ UNCHANGED <<logouts, loginCall, calls, isRefreshing, server>>

\* Mutant: the logout does not wait for a refresh that is under way.
LogoutAtOnce(who, pending) ==
  /\ Generation < MaxLogouts
  /\ logouts' = [logouts EXCEPT ![Generation + 1] = [at |-> "sent", shows |-> server.cookie, by |-> who]]
  /\ tab' = [tab EXCEPT !.user = FALSE, !.token = 0, !.timer = FALSE]

\* logout(): the visible session ends now, its cookie once a refresh that is
\* under way has ended.
LogoutBy(who, pending) ==
  /\ Generation < MaxLogouts
  /\ logouts' = [logouts EXCEPT ![Generation + 1] =
                   [at |-> IF pending THEN "waiting" ELSE "sent",
                    shows |-> IF pending THEN 0 ELSE server.cookie, by |-> who]]
  /\ tab' = [tab EXCEPT !.user = FALSE, !.token = 0, !.timer = FALSE]

\* Each call that has not ended may still end the session once.
Headroom ==
  Generation + Cardinality({c \in Requests : calls[c].at # "idle"})
    < MaxLogouts

UserLogsOut ==
  /\ tab.user /\ Headroom
  /\ LogoutBy(IF loginCall.at = "none" THEN "user" ELSE "crossing", refreshCall.at # "none")
  /\ UNCHANGED <<refreshCall, loginCall, calls, isRefreshing, server>>

\* login() waits for the logout it finds, then asks the server.
UserLogsIn ==
  /\ ~tab.user /\ loginCall.at = "none"
  /\ server.issued < MaxIssues
  /\ loginCall' = [at |-> "waiting", awaits |-> Generation, issue |-> 0]
  /\ UNCHANGED <<tab, refreshCall, logouts, calls, isRefreshing, server>>

SendLogin ==
  /\ loginCall.at = "waiting"
  /\ loginCall.awaits # 0 => logouts[loginCall.awaits].at = "done"
  /\ loginCall' = [loginCall EXCEPT !.at = "sent"]
  /\ UNCHANGED <<tab, refreshCall, logouts, calls, isRefreshing, server>>

\* Mutant: a sign-in forgets to schedule the refresh of its token.
LoginLandsUntimed ==
  /\ loginCall.at = "granted"
  /\ loginCall' = NoLogin
  /\ tab' = [tab EXCEPT !.user = TRUE, !.token = loginCall.issue]
  /\ server' = [server EXCEPT !.cookie = loginCall.issue]
  /\ UNCHANGED <<refreshCall, logouts, calls, isRefreshing>>

LoginLands ==
  /\ loginCall.at = "granted"
  /\ loginCall' = NoLogin
  /\ tab' = [tab EXCEPT !.user = TRUE, !.token = loginCall.issue, !.timer = TRUE]
  /\ server' = [server EXCEPT !.cookie = loginCall.issue]
  /\ UNCHANGED <<refreshCall, logouts, calls, isRefreshing>>

LoginFails ==
  /\ loginCall.at = "sent"
  /\ loginCall' = NoLogin
  /\ UNCHANGED <<tab, refreshCall, logouts, calls, isRefreshing, server>>
-----------------------------------------------------------------------------
(* The interceptors. *)

\* The request interceptor puts the token of the last render over whatever the
\* request carries, unless there is none.
Stamped(token) == IF tab.seen # 0 THEN tab.seen ELSE token

Call(c) ==
  /\ calls[c].at = "idle" /\ tab.user /\ Headroom
  /\ calls' = [calls EXCEPT ![c] = [at |-> "sent", token |-> Stamped(0), retried |-> FALSE]]
  /\ UNCHANGED <<tab, refreshCall, logouts, loginCall, isRefreshing, server>>

\* A 401 that was retried already is the caller's; the first one refreshes, the
\* others queue behind it.
Unauthorized(c) ==
  /\ calls[c].at = "401"
  /\ IF calls[c].retried
     THEN /\ calls' = [calls EXCEPT ![c] = Unsent]
          /\ UNCHANGED <<refreshCall, isRefreshing>>
     ELSE IF isRefreshing
     THEN /\ calls' = [calls EXCEPT ![c].at = "queued"]
          /\ UNCHANGED <<refreshCall, isRefreshing>>
     ELSE /\ calls' = [calls EXCEPT ![c].at = "refreshing", ![c].retried = TRUE]
          /\ isRefreshing' = TRUE
          /\ StartRefresh
  /\ UNCHANGED <<tab, logouts, loginCall, server>>

Waiting == {c \in Requests : calls[c].at \in {"queued", "refreshing"}}

\* refreshAccessToken() resolved with a token: the leader and the queue are
\* sent again, through the request interceptor, before the next render.
Resume(token) ==
  /\ calls' = [c \in Requests |->
                IF c \in Waiting
                THEN [calls[c] EXCEPT !.at = "sent", !.token = Stamped(token)]
                ELSE calls[c]]
  /\ isRefreshing' = FALSE

\* Mutant: the gate is not opened again.
GiveUpBehindTheGate ==
  /\ calls' = [c \in Requests |-> IF c \in Waiting THEN Unsent ELSE calls[c]]
  /\ UNCHANGED isRefreshing

\* Mutant: only the call that asked for the refresh is rejected.
GiveUpAlone ==
  /\ calls' = [c \in Requests |-> IF calls[c].at = "refreshing" THEN Unsent ELSE calls[c]]
  /\ isRefreshing' = FALSE

\* ... or with null: all of them are rejected and the session is logged out.
GiveUp ==
  /\ calls' = [c \in Requests |-> IF c \in Waiting THEN Unsent ELSE calls[c]]
  /\ isRefreshing' = FALSE
-----------------------------------------------------------------------------
(* The refresh comes back.  Its promise is dropped before anybody who waited  *)
(* for it goes on, so a logout from here does not wait.  A logout that waited *)
(* is sent.                                                                   *)

\* Mutant: nobody sends the logouts that waited.
ForgottenLogouts(cookie) == logouts

SentLogouts(cookie) ==
  [i \in DOMAIN logouts |-> IF logouts[i].at = "waiting"
                            THEN [logouts[i] EXCEPT !.at = "sent", !.shows = cookie]
                            ELSE logouts[i]]

RefreshLands ==
  /\ refreshCall.at = "granted"
  /\ refreshCall.gen = Generation
  /\ refreshCall' = NoRefresh
  /\ tab' = [tab EXCEPT !.user = TRUE, !.token = refreshCall.issue, !.timer = TRUE,
                        !.loading = FALSE]
  /\ server' = [server EXCEPT !.cookie = refreshCall.issue]
  /\ logouts' = SentLogouts(refreshCall.issue)
  /\ IF isRefreshing THEN Resume(refreshCall.issue) ELSE UNCHANGED <<calls, isRefreshing>>
  /\ UNCHANGED loginCall

\* What is left of a refresh that failed, or that a logout has overtaken.
Overtaken == refreshCall.gen # Generation

RefreshReturnsNull(cookie) ==
  /\ refreshCall' = NoRefresh
  /\ server' = [server EXCEPT !.cookie = cookie]
  /\ UNCHANGED loginCall
  /\ IF ~isRefreshing
     THEN /\ tab' = IF Overtaken THEN [tab EXCEPT !.loading = FALSE]
                    ELSE [tab EXCEPT !.user = FALSE, !.token = 0, !.loading = FALSE]
          /\ logouts' = SentLogouts(cookie)
          /\ UNCHANGED <<calls, isRefreshing>>
     ELSE /\ GiveUp
          /\ Generation < MaxLogouts
          /\ logouts' = [SentLogouts(cookie) EXCEPT ![Generation + 1] =
                           [at |-> "sent", shows |-> cookie, by |-> "client"]]
          /\ tab' = [tab EXCEPT !.user = FALSE, !.token = 0, !.timer = FALSE, !.loading = FALSE]

RefreshOvertaken ==
  /\ refreshCall.at = "granted" /\ Overtaken
  /\ RefreshReturnsNull(refreshCall.issue)

\* Refused, or the network failed before or after the server granted it.
RefreshFails ==
  /\ refreshCall.at # "none"
  /\ RefreshReturnsNull(server.cookie)

\* postLogout() resolves; its answer clears the cookie that is there by then.
LogoutLands(i) ==
  /\ logouts[i].at = "revoked"
  /\ logouts' = [logouts EXCEPT ![i].at = "done"]
  /\ server' = [server EXCEPT !.cookie = 0]
  /\ UNCHANGED <<tab, refreshCall, loginCall, calls, isRefreshing>>

\* Mutant: a logout that fails stays where it is.
LogoutFails(i) ==
  /\ logouts[i].at = "sent"
  /\ logouts' = [logouts EXCEPT ![i].at = "failed"]
  /\ UNCHANGED <<tab, refreshCall, loginCall, calls, isRefreshing, server>>

\* ... and so it does when the server could not be reached, or when its answer is
\* lost: the cookie stays.
LogoutLost(i) ==
  /\ logouts[i].at \in {"sent", "revoked"}
  /\ logouts' = [logouts EXCEPT ![i].at = "done"]
  /\ UNCHANGED <<tab, refreshCall, loginCall, calls, isRefreshing, server>>
-----------------------------------------------------------------------------
(* The server (backend/app/routers/auth.py). *)

\* A live cookie is rotated.  One that was rotated out brings another within the
\* grace window; after it, and if it was revoked, it is taken for stolen, and
\* every cookie of the user is revoked.
ServerRefreshes ==
  /\ refreshCall.at = "sent"
  /\ \/ /\ refreshCall.issue \in server.live \cup server.rotated
        /\ server.issued < MaxIssues
        /\ server' = [server EXCEPT !.issued = @ + 1,
                                    !.live = (@ \ {refreshCall.issue}) \cup {server.issued + 1},
                                    !.rotated = @ \cup {refreshCall.issue}]
        /\ refreshCall' = [refreshCall EXCEPT !.at = "granted", !.issue = server.issued + 1]
     \/ /\ refreshCall.issue \in server.live => server.issued = MaxIssues
        /\ server' = [server EXCEPT !.live = IF refreshCall.issue \in @ \cup {0} THEN @ ELSE {}]
        /\ refreshCall' = [refreshCall EXCEPT !.at = "refused"]
  /\ UNCHANGED <<tab, logouts, loginCall, calls, isRefreshing>>

ServerLogsIn ==
  /\ loginCall.at = "sent" /\ server.issued < MaxIssues
  /\ server' = [server EXCEPT !.issued = @ + 1, !.live = @ \cup {server.issued + 1}]
  /\ loginCall' = [loginCall EXCEPT !.at = "granted", !.issue = server.issued + 1]
  /\ UNCHANGED <<tab, refreshCall, logouts, calls, isRefreshing>>

ServerLogsOut(i) ==
  /\ logouts[i].at = "sent"
  /\ server' = [server EXCEPT !.live = @ \ {logouts[i].shows}]
  /\ logouts' = [logouts EXCEPT ![i].at = "revoked"]
  /\ UNCHANGED <<tab, refreshCall, loginCall, calls, isRefreshing>>

ServerAnswersCall(c) ==
  /\ calls[c].at = "sent"
  /\ calls' = [calls EXCEPT ![c] = IF @.token \in Issues \ server.expired
                                   THEN Unsent ELSE [@ EXCEPT !.at = "401", !.token = 0]]
  /\ UNCHANGED <<tab, refreshCall, logouts, loginCall, isRefreshing, server>>

Expire ==
  /\ \E t \in 1..server.issued \ server.expired : server' = [server EXCEPT !.expired = @ \cup {t}]
  /\ UNCHANGED <<tab, refreshCall, logouts, loginCall, calls, isRefreshing>>

RefreshEnds ==
  RefreshLands \/ RefreshOvertaken \/ (refreshCall.at = "refused" /\ RefreshFails)

SessionNext ==
  \/ Render \/ TimerFires \/ BecomesVisible \/ UserLogsOut
  \/ UserLogsIn \/ SendLogin \/ LoginLands \/ LoginFails
  \/ RefreshLands \/ RefreshOvertaken \/ RefreshFails
  \/ \E c \in Requests : Call(c) \/ Unauthorized(c) \/ ServerAnswersCall(c)
  \/ \E i \in DOMAIN logouts : LogoutLands(i) \/ LogoutLost(i) \/ ServerLogsOut(i)
  \/ ServerRefreshes \/ ServerLogsIn \/ Expire

(* Every request to the server ends, and the event loop runs what its answer  *)
(* has made due.                                                              *)
SessionFairness ==
  /\ WF_sessionVars(ServerRefreshes \/ RefreshEnds)
  /\ \A c \in Requests : WF_sessionVars(ServerAnswersCall(c) \/ Unauthorized(c))
  /\ \A i \in 1..MaxLogouts :
       WF_sessionVars(ServerLogsOut(i) \/ LogoutLost(i) \/ LogoutLands(i))

SessionSpec == SessionInit /\ [][SessionNext]_sessionVars /\ SessionFairness
-----------------------------------------------------------------------------
SessionTypeOK ==
  /\ tab \in [user : BOOLEAN, token : 0..MaxIssues, seen : 0..MaxIssues, loading : BOOLEAN,
              timer : BOOLEAN]
  /\ refreshCall \in [at : {"none", "sent", "granted", "refused"}, gen : 0..MaxLogouts,
                      issue : 0..MaxIssues]
  /\ logouts \in [1..MaxLogouts -> [at : {"unused", "waiting", "sent", "revoked", "done"},
                                    shows : 0..MaxIssues, by : {"user", "client", "crossing"}]]
  /\ loginCall \in [at : {"none", "waiting", "sent", "granted"}, awaits : 0..MaxLogouts,
                    issue : 0..MaxIssues]
  /\ calls \in [Requests -> [at : {"idle", "sent", "401", "refreshing", "queued"},
                             token : 0..MaxIssues, retried : BOOLEAN]]
  /\ isRefreshing \in BOOLEAN
  /\ server \in [issued : 0..MaxIssues, live : SUBSET Issues, rotated : SUBSET Issues,
                 expired : SUBSET Issues, cookie : 0..MaxIssues]

(* A request waits behind the gate only while one request leads and the       *)
(* refresh it waits for is under way: nobody is queued when nobody will       *)
(* process the queue.                                                         *)
QueueIsServed ==
  /\ isRefreshing = (Waiting # {})
  /\ isRefreshing => refreshCall.at # "none"
  /\ Cardinality({c \in Requests : calls[c].at = "refreshing"}) <= 1

(* A logout of the user's is never at the server together with a refresh that *)
(* it interrupted: the cookie it shows is the last one this session got.      *)
LogoutFollowsTheRotation ==
  \A i \in DOMAIN logouts :
    logouts[i].by # "client" /\ logouts[i].at \in {"sent", "revoked"}
      => refreshCall.at = "none" \/ refreshCall.gen >= i

(* The logouts no sign-in waits for: the one the client sends itself when a   *)
(* refresh failed, and one that is called while a sign-in is already on its   *)
(* way (the form stays usable during the first load).                         *)
Crossed == \E i \in DOMAIN logouts : logouts[i].at # "unused" /\ logouts[i].by # "user"

(* A signed-in tab will ask for its next token: its timer runs or a refresh   *)
(* is under way, whatever sequence of sign-ins, failures and awaited logouts  *)
(* led here.                                                                  *)
SessionIsKeptAlive ==
  tab.user => tab.timer \/ refreshCall.at # "none" \/ Crossed

(* Every call is answered or rejected, those queued behind a refresh too: none*)
(* is under way for ever.                                                     *)
EveryCallEnds == \A c \in Requests : []<>(calls[c].at = "idle")

(* Every logout is carried out, the one that waits for a refresh too.         *)
EveryLogoutEnds == \A i \in 1..MaxLogouts : []<>(logouts[i].at \in {"unused", "done"})

(* Whatever the interceptors, the queue and the shared refresh do to each     *)
(* other, no call and no logout is left behind.                               *)
EverythingEnds == EveryCallEnds /\ EveryLogoutEnds

(* api/client.ts: "automatic 401 refresh-retry logic": what is sent again     *)
(* after a refresh carries the token that the refresh brought.                *)
RetryCarriesTheNewToken ==
  [][RefreshLands => \A c \in Waiting : calls'[c].token = refreshCall.issue]_sessionVars

(* AuthContext.tsx: logout is to "clear all auth state": nobody is signed in  *)
(* again without signing in, once the first load is over.                     *)
OnlyLoginSignsIn ==
  [][~tab.loading /\ ~tab.user /\ tab'.user => loginCall.at = "granted"]_sessionVars
=============================================================================
