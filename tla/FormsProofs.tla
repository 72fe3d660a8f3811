----------------------------- MODULE FormsProofs -----------------------------
(* What a signed-in tab promises, for any number of requests, logouts,        *)
(* tokens, rows and fields: the session first, then the forms that send       *)
(* requests through it, then all of them side by side.                        *)
EXTENDS MCForms, FiniteSetTheorems, TLAPS

-----------------------------------------------------------------------------
(* The session.  Logouts are used in order, so that refreshGenerationRef is   *)
(* the number of the last one; a refresh knows no logout that is yet to come; *)
(* and a logout that does not wait has not overtaken the refresh under way.   *)
(* While only awaited logouts happen (~Crossed), a sign-in that was sent has  *)
(* waited for all of them, and so for every refresh they interrupted.         *)
LogoutsInOrder == \E g \in 0..MaxLogouts :
  \A i \in 1..MaxLogouts : logouts[i].at # "unused" <=> i <= g

Interrupts(i) == refreshCall.at # "none" /\ refreshCall.gen < i
OnlyWaitersInterrupt ==
  \A i \in 1..MaxLogouts :
    logouts[i].at # "unused" /\ logouts[i].by # "client" /\ Interrupts(i)
      => logouts[i].at = "waiting"

SignInsAwaitTheLast ==
  ~Crossed =>
    /\ loginCall.at # "none" => loginCall.awaits = Generation
    /\ loginCall.at \in {"sent", "granted"} \/ tab.user
         => refreshCall.at = "none" \/ ~Overtaken

QueueInv ==
  /\ isRefreshing = (Waiting # {})
  /\ isRefreshing => refreshCall.at # "none"
  /\ \A c, d \in Requests : calls[c].at = "refreshing" /\ calls[d].at = "refreshing" => c = d

KnowsItsLogouts == refreshCall.at # "none" => refreshCall.gen <= Generation

SessionInv ==
  /\ SessionTypeOK /\ LogoutsInOrder /\ QueueInv /\ KnowsItsLogouts
  /\ OnlyWaitersInterrupt /\ SignInsAwaitTheLast /\ SessionIsKeptAlive

-----------------------------------------------------------------------------
\* Logouts that are used in order are counted by their last one.
LEMMA CountInOrder ==
  ASSUME NEW l, NEW g \in 0..MaxLogouts, DOMAIN l = 1..MaxLogouts,
         \A i \in 1..MaxLogouts : l[i].at # "unused" <=> i <= g
  PROVE  Cardinality({i \in DOMAIN l : l[i].at # "unused"}) = g
<1>1. \A i : i \in 1..MaxLogouts /\ i <= g <=> i \in 1..g
  BY SessionAssumption
<1>2. {i \in DOMAIN l : l[i].at # "unused"} = 1..g
  BY <1>1
<1>3. Cardinality(1..g) = g
  BY FS_Interval
<1> QED  BY <1>2, <1>3

LEMMA GenerationCounts ==
  ASSUME SessionTypeOK, LogoutsInOrder
  PROVE  /\ Generation \in 0..MaxLogouts
         /\ \A i \in 1..MaxLogouts : logouts[i].at # "unused" <=> i <= Generation
<1>1. PICK g \in 0..MaxLogouts : \A i \in 1..MaxLogouts : logouts[i].at # "unused" <=> i <= g
  BY DEF LogoutsInOrder
<1>2. DOMAIN logouts = 1..MaxLogouts
  BY DEF SessionTypeOK
<1>3. Generation = g
  BY <1>1, <1>2, CountInOrder DEF Generation
<1> QED  BY <1>1, <1>3

\* What becomes of the logouts: as many as before, or one more.
LEMMA SameGeneration ==
  ASSUME SessionTypeOK, LogoutsInOrder, DOMAIN logouts' = 1..MaxLogouts,
         \A i \in 1..MaxLogouts : logouts'[i].at # "unused" <=> logouts[i].at # "unused"
  PROVE  Generation' = Generation /\ LogoutsInOrder'
<1>1. /\ Generation \in 0..MaxLogouts
      /\ \A i \in 1..MaxLogouts : logouts'[i].at # "unused" <=> i <= Generation
  BY GenerationCounts
<1>2. Generation' = Generation
  BY <1>1, CountInOrder DEF Generation
<1>3. LogoutsInOrder'
  BY <1>1 DEF LogoutsInOrder
<1> QED  BY <1>2, <1>3

LEMMA NextGeneration ==
  ASSUME SessionTypeOK, LogoutsInOrder, DOMAIN logouts' = 1..MaxLogouts,
         Generation < MaxLogouts, logouts'[Generation + 1].at # "unused",
         \A i \in 1..MaxLogouts \ {Generation + 1} :
            logouts'[i].at # "unused" <=> logouts[i].at # "unused"
  PROVE  Generation' = Generation + 1 /\ LogoutsInOrder'
<1> DEFINE g == Generation
<1>1. /\ g \in 0..MaxLogouts
      /\ \A i \in 1..MaxLogouts : logouts[i].at # "unused" <=> i <= g
  BY GenerationCounts
<1> HIDE DEF g
<1>2. /\ g + 1 \in 0..MaxLogouts
      /\ \A i \in 1..MaxLogouts : logouts'[i].at # "unused" <=> i <= g + 1
  <2>1. g + 1 \in 0..MaxLogouts /\ g + 1 \in 1..MaxLogouts
    BY <1>1, SessionAssumption DEF g
  <2>2. ASSUME NEW i \in 1..MaxLogouts PROVE logouts'[i].at # "unused" <=> i <= g + 1
    <3>1. CASE i = g + 1
      BY <3>1, <1>1 DEF g
    <3>2. CASE i # g + 1
      <4>1. logouts'[i].at # "unused" <=> i <= g
        BY <3>2, <1>1 DEF g
      <4> QED  BY <3>2, <4>1, <1>1, SessionAssumption
    <3> QED  BY <3>1, <3>2
  <2> QED  BY <2>1, <2>2
<1>3. Generation' = g + 1
  BY <1>2, CountInOrder DEF Generation
<1>4. LogoutsInOrder'
  BY <1>2 DEF LogoutsInOrder
<1> QED  BY <1>3, <1>4 DEF g

-----------------------------------------------------------------------------
\* The type of each variable has a name, so that a step can speak of the one it changes.
Tabs == [user : BOOLEAN, token : 0..MaxIssues, seen : 0..MaxIssues, loading : BOOLEAN,
         timer : BOOLEAN]
RefreshCalls == [at : {"none", "sent", "granted", "refused"}, gen : 0..MaxLogouts,
                 issue : 0..MaxIssues]
LogoutCalls == [at : {"unused", "waiting", "sent", "revoked", "done"}, shows : 0..MaxIssues,
                by : {"user", "client", "crossing"}]
LoginCalls == [at : {"none", "waiting", "sent", "granted"}, awaits : 0..MaxLogouts,
               issue : 0..MaxIssues]
ApiCalls == [at : {"idle", "sent", "401", "refreshing", "queued"}, token : 0..MaxIssues,
             retried : BOOLEAN]
Servers == [issued : 0..MaxIssues, live : SUBSET Issues, rotated : SUBSET Issues,
            expired : SUBSET Issues, cookie : 0..MaxIssues]
SessionTyped ==
  /\ tab \in Tabs /\ refreshCall \in RefreshCalls /\ logouts \in [1..MaxLogouts -> LogoutCalls]
  /\ loginCall \in LoginCalls /\ calls \in [Requests -> ApiCalls] /\ isRefreshing \in BOOLEAN
  /\ server \in Servers

LEMMA TypesByName == SessionTypeOK <=> SessionTyped
BY DEF SessionTypeOK, SessionTyped, Tabs, RefreshCalls, LogoutCalls, LoginCalls, ApiCalls, Servers

LEMMA TypesByNameNext == SessionTypeOK' <=> SessionTyped'
BY DEF SessionTypeOK, SessionTyped, Tabs, RefreshCalls, LogoutCalls, LoginCalls, ApiCalls, Servers

\* The values that several steps assign.
LEMMA AssignedTypes ==
  ASSUME SessionTyped
  PROVE  /\ NoRefresh \in RefreshCalls /\ NoLogin \in LoginCalls /\ Unsent \in ApiCalls
         /\ [tab EXCEPT !.user = FALSE, !.token = 0, !.timer = FALSE] \in Tabs
         /\ [tab EXCEPT !.user = FALSE, !.token = 0, !.timer = FALSE, !.loading = FALSE] \in Tabs
         /\ \A token \in 0..MaxIssues :
              /\ [tab EXCEPT !.user = TRUE, !.token = token, !.timer = TRUE] \in Tabs
              /\ [tab EXCEPT !.user = TRUE, !.token = token, !.timer = TRUE, !.loading = FALSE] \in Tabs
              /\ [server EXCEPT !.cookie = token] \in Servers
              /\ Stamped(token) \in 0..MaxIssues
              /\ SentLogouts(token) \in [1..MaxLogouts -> LogoutCalls]
         /\ refreshCall.issue \in 0..MaxIssues /\ loginCall.issue \in 0..MaxIssues
         /\ server.cookie \in 0..MaxIssues
         /\ server.issued < MaxIssues => server.issued + 1 \in 1..MaxIssues
<1> USE SessionAssumption DEF SessionTyped
<1>0. 0 \in 0..MaxIssues /\ FALSE \in BOOLEAN
  OBVIOUS
<1>1. NoRefresh \in RefreshCalls /\ NoLogin \in LoginCalls /\ Unsent \in ApiCalls
  BY DEF NoRefresh, NoLogin, Unsent, RefreshCalls, LoginCalls, ApiCalls
<1>2. /\ [tab EXCEPT !.user = FALSE, !.token = 0, !.timer = FALSE] \in Tabs
      /\ [tab EXCEPT !.user = FALSE, !.token = 0, !.timer = FALSE, !.loading = FALSE] \in Tabs
  BY <1>0 DEF Tabs
<1>3. ASSUME NEW token \in 0..MaxIssues
      PROVE  /\ [tab EXCEPT !.user = TRUE, !.token = token, !.timer = TRUE] \in Tabs
             /\ [tab EXCEPT !.user = TRUE, !.token = token, !.timer = TRUE, !.loading = FALSE] \in Tabs
             /\ [server EXCEPT !.cookie = token] \in Servers
             /\ Stamped(token) \in 0..MaxIssues
             /\ SentLogouts(token) \in [1..MaxLogouts -> LogoutCalls]
  <2>1. /\ [tab EXCEPT !.user = TRUE, !.token = token, !.timer = TRUE] \in Tabs
        /\ [tab EXCEPT !.user = TRUE, !.token = token, !.timer = TRUE, !.loading = FALSE] \in Tabs
    BY DEF Tabs
  <2>2. [server EXCEPT !.cookie = token] \in Servers
    BY DEF Servers
  <2>3. Stamped(token) \in 0..MaxIssues
    BY DEF Stamped, Tabs
  <2>4. SentLogouts(token) \in [1..MaxLogouts -> LogoutCalls]
    BY DEF SentLogouts, LogoutCalls
  <2> QED  BY <2>1, <2>2, <2>3, <2>4
<1>4. /\ refreshCall.issue \in 0..MaxIssues /\ loginCall.issue \in 0..MaxIssues
      /\ server.cookie \in 0..MaxIssues
      /\ server.issued < MaxIssues => server.issued + 1 \in 1..MaxIssues
  BY DEF RefreshCalls, LoginCalls, Servers
<1> QED  BY <1>1, <1>2, <1>3, <1>4

-----------------------------------------------------------------------------
\* Asking for a refresh joins the one under way, or names the logouts so far.
LEMMA StartRefreshTyped ==
  ASSUME SessionTyped, LogoutsInOrder, StartRefresh
  PROVE  refreshCall' \in RefreshCalls
<1>1. Generation \in 0..MaxLogouts /\ server.cookie \in 0..MaxIssues
  BY GenerationCounts, TypesByName, AssignedTypes
<1> QED  BY <1>1 DEF StartRefresh, RefreshCalls, SessionTyped

\* A refresh that brings no token: the session may end, everybody who waits is rejected.
LEMMA ReturnsNullTyped ==
  ASSUME SessionTyped, LogoutsInOrder, NEW cookie \in 0..MaxIssues, RefreshReturnsNull(cookie)
  PROVE  SessionTyped'
<1>1. Generation \in 0..MaxLogouts
  BY GenerationCounts, TypesByName
<1>2. /\ refreshCall' \in RefreshCalls /\ server' \in Servers /\ loginCall' \in LoginCalls
  BY AssignedTypes DEF RefreshReturnsNull, SessionTyped
<1>3. CASE ~isRefreshing
  <2>1. /\ [tab EXCEPT !.loading = FALSE] \in Tabs
        /\ [tab EXCEPT !.user = FALSE, !.token = 0, !.loading = FALSE] \in Tabs
    <3>1. 0 \in 0..MaxIssues
      BY SessionAssumption
    <3> QED  BY <3>1 DEF SessionTyped, Tabs
  <2>2. tab' \in Tabs
    BY <1>3, <2>1 DEF RefreshReturnsNull
  <2>3. logouts' \in [1..MaxLogouts -> LogoutCalls]
    BY <1>3, AssignedTypes DEF RefreshReturnsNull
  <2> QED  BY <1>2, <1>3, <2>2, <2>3 DEF RefreshReturnsNull, SessionTyped
<1>4. CASE isRefreshing
  <2>1. tab' \in Tabs
    BY <1>4, AssignedTypes DEF RefreshReturnsNull
  <2>2. logouts' \in [1..MaxLogouts -> LogoutCalls]
    <3>1. [at |-> "sent", shows |-> cookie, by |-> "client"] \in LogoutCalls
      BY DEF LogoutCalls
    <3>2. SentLogouts(cookie) \in [1..MaxLogouts -> LogoutCalls]
      BY AssignedTypes
    <3> QED  BY <1>4, <3>1, <3>2 DEF RefreshReturnsNull
  <2>3. calls' \in [Requests -> ApiCalls] /\ isRefreshing' = FALSE
    BY <1>4, AssignedTypes DEF RefreshReturnsNull, GiveUp, SessionTyped
  <2> QED  BY <1>2, <2>1, <2>2, <2>3 DEF SessionTyped
<1>5. isRefreshing \in BOOLEAN
  BY DEF SessionTyped
<1> QED  BY <1>3, <1>4, <1>5

\* Every step of the session keeps the types.
LEMMA SessionTypeStep ==
  ASSUME SessionTyped, LogoutsInOrder, [SessionNext]_sessionVars
  PROVE  SessionTyped'
<1>0. Generation \in 0..MaxLogouts
  BY GenerationCounts, TypesByName
<1> USE <1>0, SessionAssumption DEF SessionTyped
<1>1. ASSUME Render PROVE SessionTyped'
  BY <1>1 DEF Render, Tabs
<1>2. ASSUME TimerFires PROVE SessionTyped'
  <2>1. tab' \in Tabs
    BY <1>2 DEF TimerFires, Tabs
  <2> QED  BY <1>2, <2>1, StartRefreshTyped DEF TimerFires
<1>3. ASSUME BecomesVisible PROVE SessionTyped'
  <2>1. tab' \in Tabs
    BY <1>3 DEF BecomesVisible, Tabs
  <2>2. refreshCall' \in RefreshCalls
    BY <1>3, StartRefreshTyped DEF BecomesVisible
  <2> QED  BY <1>3, <2>1, <2>2 DEF BecomesVisible
<1>4. ASSUME UserLogsOut PROVE SessionTyped'
  <2>1. tab' \in Tabs
    BY <1>4, AssignedTypes DEF UserLogsOut, LogoutBy
  <2>2. logouts' \in [1..MaxLogouts -> LogoutCalls]
    <3>1. PICK who \in {"user", "crossing"} : LogoutBy(who, refreshCall.at # "none")
      BY <1>4 DEF UserLogsOut
    <3>2. [at |-> IF refreshCall.at # "none" THEN "waiting" ELSE "sent",
           shows |-> IF refreshCall.at # "none" THEN 0 ELSE server.cookie, by |-> who]
            \in LogoutCalls
      <4>1. 0 \in 0..MaxIssues
        OBVIOUS
      <4>2. server.cookie \in 0..MaxIssues
        BY AssignedTypes
      <4> QED  BY <4>1, <4>2 DEF LogoutCalls
    <3> QED  BY <3>1, <3>2 DEF LogoutBy
  <2> QED  BY <1>4, <2>1, <2>2 DEF UserLogsOut
<1>5. ASSUME UserLogsIn PROVE SessionTyped'
  <2>1. loginCall' \in LoginCalls
    BY <1>5 DEF UserLogsIn, LoginCalls
  <2> QED  BY <1>5, <2>1 DEF UserLogsIn
<1>6. ASSUME SendLogin PROVE SessionTyped'
  <2>1. loginCall' \in LoginCalls
    BY <1>6 DEF SendLogin, LoginCalls
  <2> QED  BY <1>6, <2>1 DEF SendLogin
<1>7. ASSUME LoginLands PROVE SessionTyped'
  BY <1>7, AssignedTypes DEF LoginLands
<1>8. ASSUME LoginFails PROVE SessionTyped'
  BY <1>8, AssignedTypes DEF LoginFails
<1>9. ASSUME RefreshLands PROVE SessionTyped'
  <2>1. calls' \in [Requests -> ApiCalls] /\ isRefreshing' \in BOOLEAN
    <3>1. Stamped(refreshCall.issue) \in 0..MaxIssues
      BY AssignedTypes
    <3>2. \A c \in Requests : [calls[c] EXCEPT !.at = "sent", !.token = Stamped(refreshCall.issue)]
                                 \in ApiCalls
      BY <3>1 DEF ApiCalls
    <3>3. CASE isRefreshing
      BY <1>9, <3>2, <3>3 DEF RefreshLands, Resume
    <3>4. CASE ~isRefreshing
      BY <1>9, <3>4 DEF RefreshLands
    <3> QED  BY <3>3, <3>4
  <2> QED  BY <1>9, <2>1, AssignedTypes DEF RefreshLands
<1>10. ASSUME RefreshOvertaken PROVE SessionTyped'
  BY <1>10, AssignedTypes, ReturnsNullTyped DEF RefreshOvertaken
<1>11. ASSUME RefreshFails PROVE SessionTyped'
  BY <1>11, AssignedTypes, ReturnsNullTyped DEF RefreshFails
<1>12. ASSUME NEW c \in Requests, Call(c) PROVE SessionTyped'
  <2>1. [at |-> "sent", token |-> Stamped(0), retried |-> FALSE] \in ApiCalls
    <3>1. 0 \in 0..MaxIssues
      OBVIOUS
    <3> QED  BY <3>1, AssignedTypes DEF ApiCalls
  <2> QED  BY <1>12, <2>1 DEF Call
<1>13. ASSUME NEW c \in Requests, Unauthorized(c) PROVE SessionTyped'
  <2>1. calls' \in [Requests -> ApiCalls] /\ isRefreshing' \in BOOLEAN
    <3>1. /\ [calls[c] EXCEPT !.at = "queued"] \in ApiCalls
          /\ [calls[c] EXCEPT !.at = "refreshing", !.retried = TRUE] \in ApiCalls
      BY DEF ApiCalls
    <3> QED  BY <1>13, <3>1, AssignedTypes DEF Unauthorized
  <2>2. refreshCall' \in RefreshCalls
    BY <1>13, StartRefreshTyped DEF Unauthorized
  <2> QED  BY <1>13, <2>1, <2>2 DEF Unauthorized
<1>14. ASSUME NEW c \in Requests, ServerAnswersCall(c) PROVE SessionTyped'
  <2>1. [calls[c] EXCEPT !.at = "401", !.token = 0] \in ApiCalls
    <3>1. 0 \in 0..MaxIssues
      OBVIOUS
    <3> QED  BY <3>1 DEF ApiCalls
  <2> QED  BY <1>14, <2>1, AssignedTypes DEF ServerAnswersCall
<1>15. ASSUME NEW i \in DOMAIN logouts, LogoutLands(i) \/ LogoutLost(i) \/ ServerLogsOut(i)
       PROVE  SessionTyped'
  <2>1. /\ [logouts[i] EXCEPT !.at = "done"] \in LogoutCalls
        /\ [logouts[i] EXCEPT !.at = "revoked"] \in LogoutCalls
    BY DEF LogoutCalls
  <2>2. logouts' \in [1..MaxLogouts -> LogoutCalls]
    BY <1>15, <2>1 DEF LogoutLands, LogoutLost, ServerLogsOut
  <2>3. server' \in Servers
    BY <1>15 DEF LogoutLands, LogoutLost, ServerLogsOut, Servers
  <2> QED  BY <1>15, <2>2, <2>3 DEF LogoutLands, LogoutLost, ServerLogsOut
<1>16. ASSUME ServerRefreshes PROVE SessionTyped'
  <2>i. server.issued < MaxIssues => server.issued + 1 \in 1..MaxIssues /\ server.issued + 1 \in 0..MaxIssues
    BY DEF Servers
  <2>1. [refreshCall EXCEPT !.at = "refused"] \in RefreshCalls
    BY DEF RefreshCalls
  <2>2. ASSUME NEW live \in SUBSET Issues PROVE [server EXCEPT !.live = live] \in Servers
    BY DEF Servers
  <2>3. ASSUME server.issued < MaxIssues, refreshCall.issue \in server.live \cup server.rotated
        PROVE  /\ [refreshCall EXCEPT !.at = "granted", !.issue = server.issued + 1] \in RefreshCalls
               /\ [server EXCEPT !.issued = @ + 1,
                     !.live = (@ \ {refreshCall.issue}) \cup {server.issued + 1},
                     !.rotated = @ \cup {refreshCall.issue}] \in Servers
    BY <2>3, <2>i DEF RefreshCalls, Servers, Issues
  <2>4. CASE server.issued < MaxIssues /\ refreshCall.issue \in server.live \cup server.rotated
             /\ refreshCall' = [refreshCall EXCEPT !.at = "granted", !.issue = server.issued + 1]
    BY <1>16, <2>3, <2>4 DEF ServerRefreshes, RefreshCalls
  <2>5. CASE /\ server' = [server EXCEPT !.live = IF refreshCall.issue \in @ \cup {0} THEN @ ELSE {}]
             /\ refreshCall' = [refreshCall EXCEPT !.at = "refused"]
    <3>1. (IF refreshCall.issue \in server.live \cup {0} THEN server.live ELSE {}) \in SUBSET Issues
      BY DEF Servers
    <3> QED  BY <1>16, <2>1, <2>2, <2>5, <3>1 DEF ServerRefreshes
  <2> QED  BY <1>16, <2>4, <2>5 DEF ServerRefreshes
<1>17. ASSUME ServerLogsIn PROVE SessionTyped'
  <2>i. server.issued + 1 \in 1..MaxIssues /\ server.issued + 1 \in 0..MaxIssues
    BY <1>17 DEF ServerLogsIn, Servers
  <2>1. loginCall' \in LoginCalls
    BY <1>17, <2>i DEF ServerLogsIn, LoginCalls
  <2>2. server' \in Servers
    <3>1. [server EXCEPT !.issued = @ + 1, !.live = @ \cup {server.issued + 1}] \in Servers
      BY <2>i DEF Servers, Issues
    <3> QED  BY <1>17, <3>1 DEF ServerLogsIn
  <2> QED  BY <1>17, <2>1, <2>2 DEF ServerLogsIn
<1>18. ASSUME Expire PROVE SessionTyped'
  <2>1. server' \in Servers
    BY <1>18 DEF Expire, Servers, Issues
  <2> QED  BY <1>18, <2>1 DEF Expire
<1>19. ASSUME UNCHANGED sessionVars PROVE SessionTyped'
  BY <1>19 DEF sessionVars
<1> QED
  BY <1>1, <1>2, <1>3, <1>4, <1>5, <1>6, <1>7, <1>8, <1>9, <1>10, <1>11, <1>12, <1>13, <1>14,
     <1>15, <1>16, <1>17, <1>18, <1>19 DEF SessionNext

-----------------------------------------------------------------------------
\* A step keeps the logouts in order: it uses the next one or none.
Ordered == SessionTyped /\ LogoutsInOrder
SameNumber == Generation' = Generation /\ LogoutsInOrder'
OneMore == Generation' = Generation + 1 /\ LogoutsInOrder'

LEMMA KeepsNumber ==
  ASSUME Ordered, UNCHANGED logouts PROVE SameNumber
BY SameGeneration, TypesByName DEF Ordered, SameNumber, SessionTyped

LEMMA SendsWaiters ==
  ASSUME Ordered, NEW cookie, logouts' = SentLogouts(cookie) PROVE SameNumber
<1>1. DOMAIN logouts' = 1..MaxLogouts
  BY DEF Ordered, SessionTyped, SentLogouts
<1>2. \A i \in 1..MaxLogouts : logouts'[i].at # "unused" <=> logouts[i].at # "unused"
  BY DEF Ordered, SessionTyped, SentLogouts, LogoutCalls
<1> QED  BY <1>1, <1>2, SameGeneration, TypesByName DEF Ordered, SameNumber

\* One that was used stays used.
LEMMA ChangesOne ==
  ASSUME Ordered, NEW i \in 1..MaxLogouts, logouts[i].at # "unused",
         NEW at, at # "unused", logouts' = [logouts EXCEPT ![i].at = at]
  PROVE  SameNumber
<1>1. DOMAIN logouts' = 1..MaxLogouts
  BY DEF Ordered, SessionTyped
<1>2. \A j \in 1..MaxLogouts : logouts'[j].at # "unused" <=> logouts[j].at # "unused"
  BY DEF Ordered, SessionTyped, LogoutCalls
<1> QED  BY <1>1, <1>2, SameGeneration, TypesByName DEF Ordered, SameNumber

LEMMA UsesNext ==
  ASSUME Ordered, Generation < MaxLogouts, NEW l, NEW new,
         l \in [1..MaxLogouts -> LogoutCalls], new.at # "unused",
         \A i \in 1..MaxLogouts : l[i].at # "unused" <=> logouts[i].at # "unused",
         logouts' = [l EXCEPT ![Generation + 1] = new]
  PROVE  OneMore
<1>1. Generation \in 0..MaxLogouts
  BY GenerationCounts, TypesByName DEF Ordered
<1>2. Generation + 1 \in 1..MaxLogouts
  BY <1>1, SessionAssumption
<1>3. DOMAIN logouts' = 1..MaxLogouts /\ logouts'[Generation + 1].at # "unused"
  BY <1>2
<1>4. \A i \in 1..MaxLogouts \ {Generation + 1} :
        logouts'[i].at # "unused" <=> logouts[i].at # "unused"
  BY <1>2
<1> QED  BY <1>3, <1>4, NextGeneration, TypesByName DEF Ordered, OneMore

LEMMA ReturnsNullNumber ==
  ASSUME Ordered, NEW cookie \in 0..MaxIssues, RefreshReturnsNull(cookie)
  PROVE  \/ ~isRefreshing /\ SameNumber
         \/ isRefreshing /\ OneMore
<1>1. CASE ~isRefreshing
  BY <1>1, SendsWaiters DEF RefreshReturnsNull
<1>2. CASE isRefreshing
  <2> DEFINE new == [at |-> "sent", shows |-> cookie, by |-> "client"]
  <2>1. new.at # "unused"
    OBVIOUS
  <2>2. SentLogouts(cookie) \in [1..MaxLogouts -> LogoutCalls]
    BY AssignedTypes DEF Ordered
  <2>3. \A i \in 1..MaxLogouts : SentLogouts(cookie)[i].at # "unused" <=> logouts[i].at # "unused"
    BY DEF SentLogouts, Ordered, SessionTyped, LogoutCalls
  <2>4. Generation < MaxLogouts /\ logouts' = [SentLogouts(cookie) EXCEPT ![Generation + 1] = new]
    BY <1>2 DEF RefreshReturnsNull
  <2> HIDE DEF new
  <2> QED  BY <1>2, <2>1, <2>2, <2>3, <2>4, UsesNext
<1> QED  BY <1>1, <1>2

LEMMA UserLogoutNumber ==
  ASSUME Ordered, UserLogsOut PROVE OneMore
<1>1. PICK new \in [at : {"waiting", "sent"}, shows : 0..MaxIssues, by : {"user", "crossing"}] :
        Generation < MaxLogouts /\ logouts' = [logouts EXCEPT ![Generation + 1] = new]
  <2>1. 0 \in 0..MaxIssues
    BY SessionAssumption
  <2>2. server.cookie \in 0..MaxIssues
    BY AssignedTypes DEF Ordered
  <2>3. PICK who \in {"user", "crossing"} : LogoutBy(who, refreshCall.at # "none")
    BY DEF UserLogsOut
  <2>4. CASE refreshCall.at # "none"
    BY <2>1, <2>3, <2>4 DEF LogoutBy
  <2>5. CASE refreshCall.at = "none"
    BY <2>2, <2>3, <2>5 DEF LogoutBy
  <2> QED  BY <2>4, <2>5
<1>2. new.at # "unused"
  OBVIOUS
<1> QED  BY <1>1, <1>2, UsesNext DEF Ordered, SessionTyped

LEMMA LogoutsStep ==
  ASSUME Ordered, [SessionNext]_sessionVars
  PROVE  SameNumber \/ OneMore
<1>1. CASE UNCHANGED logouts
  BY <1>1, KeepsNumber
<1>2. CASE UserLogsOut
  BY <1>2, UserLogoutNumber
<1>3. CASE RefreshLands
  BY <1>3, SendsWaiters DEF RefreshLands
<1>4. CASE RefreshOvertaken \/ RefreshFails
  BY <1>4, ReturnsNullNumber, AssignedTypes DEF RefreshOvertaken, RefreshFails, Ordered
<1>5. ASSUME NEW i \in DOMAIN logouts, LogoutLands(i) \/ LogoutLost(i) \/ ServerLogsOut(i)
      PROVE  SameNumber
  <2>1. i \in 1..MaxLogouts
    BY DEF Ordered, SessionTyped
  <2> QED  BY <1>5, <2>1, ChangesOne DEF LogoutLands, LogoutLost, ServerLogsOut
<1> QED
  BY <1>1, <1>2, <1>3, <1>4, <1>5 DEF SessionNext, sessionVars, Render, TimerFires,
     BecomesVisible, UserLogsIn, SendLogin, LoginLands, LoginFails, Call, Unauthorized,
     ServerAnswersCall, ServerRefreshes, ServerLogsIn, Expire

-----------------------------------------------------------------------------
\* What becomes of the refresh: it is over, it goes on, or it has just begun.
RefreshIsOver == refreshCall'.at = "none"
GoesOn == /\ refreshCall.at # "none" /\ refreshCall'.at # "none"
          /\ refreshCall'.gen = refreshCall.gen
Begins == /\ refreshCall.at = "none" /\ refreshCall'.at # "none"
          /\ refreshCall'.gen = Generation /\ UNCHANGED logouts

LEMMA RefreshStep ==
  ASSUME SessionTyped, [SessionNext]_sessionVars
  PROVE  RefreshIsOver \/ GoesOn \/ Begins
<1>1. CASE UNCHANGED refreshCall
  BY <1>1 DEF RefreshIsOver, GoesOn
<1>2. CASE StartRefresh /\ UNCHANGED logouts
  BY <1>2 DEF StartRefresh, RefreshIsOver, GoesOn, Begins
<1>3. CASE RefreshLands \/ RefreshOvertaken \/ RefreshFails
  BY <1>3 DEF RefreshLands, RefreshOvertaken, RefreshFails, RefreshReturnsNull, NoRefresh, RefreshIsOver
<1>4. CASE ServerRefreshes
  BY <1>4 DEF ServerRefreshes, GoesOn, SessionTyped, RefreshCalls
<1> QED
  BY <1>1, <1>2, <1>3, <1>4 DEF SessionNext, sessionVars, Render, TimerFires, BecomesVisible,
     UserLogsOut, UserLogsIn, SendLogin, LoginLands, LoginFails, Call, Unauthorized,
     ServerAnswersCall, LogoutLands, LogoutLost, ServerLogsOut, ServerLogsIn, Expire

\* A refresh never names a logout that is yet to come.
LEMMA KnowsStep ==
  ASSUME SessionInv, [SessionNext]_sessionVars PROVE KnowsItsLogouts'
<1>1. Ordered /\ SessionTyped
  BY TypesByName DEF SessionInv, Ordered
<1>2. Generation \in 0..MaxLogouts /\ refreshCall.gen \in 0..MaxLogouts
  BY <1>1, GenerationCounts, TypesByName DEF Ordered, SessionTyped, RefreshCalls
<1>3. Generation' = Generation \/ Generation' = Generation + 1
  BY <1>1, LogoutsStep DEF SameNumber, OneMore
<1>4. CASE Begins
  <2>1. Generation' = Generation
    BY <1>1, <1>4, KeepsNumber DEF Begins, SameNumber
  <2> QED  BY <1>2, <1>4, <2>1 DEF Begins, KnowsItsLogouts
<1>5. CASE GoesOn
  BY <1>2, <1>3, <1>5 DEF GoesOn, KnowsItsLogouts, SessionInv
<1>6. CASE RefreshIsOver
  BY <1>6 DEF RefreshIsOver, KnowsItsLogouts
<1> QED  BY <1>1, <1>4, <1>5, <1>6, RefreshStep

\* A logout of the user's that a refresh has not heard of still waits for it.
LEMMA WaitersStep ==
  ASSUME SessionInv, [SessionNext]_sessionVars PROVE OnlyWaitersInterrupt'
<1>0. Ordered /\ SessionTyped
  BY TypesByName DEF SessionInv, Ordered
<1>g. /\ Generation \in 0..MaxLogouts
      /\ \A i \in 1..MaxLogouts : logouts[i].at # "unused" <=> i <= Generation
  BY <1>0, GenerationCounts, TypesByName DEF Ordered
<1>1. CASE RefreshIsOver
  BY <1>1 DEF RefreshIsOver, OnlyWaitersInterrupt, Interrupts
<1>2. CASE Begins
  BY <1>2, <1>g DEF Begins, OnlyWaitersInterrupt, Interrupts
<1>3. CASE GoesOn
  <2> SUFFICES ASSUME NEW i \in 1..MaxLogouts, logouts'[i].at # "unused",
                      logouts'[i].by # "client", refreshCall.gen < i
               PROVE  logouts'[i].at = "waiting"
    BY <1>3 DEF GoesOn, OnlyWaitersInterrupt, Interrupts
  <2>0. logouts[i].at # "unused" /\ logouts[i].by # "client" => logouts[i].at = "waiting"
    BY <1>3 DEF GoesOn, SessionInv, OnlyWaitersInterrupt, Interrupts
  <2>1. CASE logouts'[i] = logouts[i]
    BY <2>0, <2>1
  <2>2. CASE UserLogsOut
    <3>g. Generation < MaxLogouts
      BY <2>2 DEF UserLogsOut, LogoutBy
    <3>1. refreshCall.at # "none" /\ Generation + 1 \in 1..MaxLogouts
      BY <1>3, <3>g, <1>g, SessionAssumption DEF GoesOn
    <3>2. CASE i = Generation + 1
      BY <2>2, <3>1, <3>2, <1>0 DEF UserLogsOut, LogoutBy, SessionTyped
    <3>3. CASE i # Generation + 1
      BY <2>2, <3>3, <2>1, <1>0 DEF UserLogsOut, LogoutBy, SessionTyped
    <3> QED  BY <3>2, <3>3
  <2>3. ASSUME NEW j \in 1..MaxLogouts, LogoutLands(j) \/ LogoutLost(j) \/ ServerLogsOut(j)
        PROVE  logouts'[i] = logouts[i]
    <3>1. logouts[j].at \in {"sent", "revoked"}
      BY <2>3 DEF LogoutLands, LogoutLost, ServerLogsOut
    <3>2. logouts'[j].by = logouts[j].by /\ \A k \in 1..MaxLogouts \ {j} : logouts'[k] = logouts[k]
      BY <2>3, <1>0 DEF LogoutLands, LogoutLost, ServerLogsOut, SessionTyped, LogoutCalls
    <3>3. i # j
      BY <2>0, <3>1, <3>2
    <3> QED  BY <3>2, <3>3
  <2>4. CASE UNCHANGED logouts
    BY <2>1, <2>4
  <2>5. ~(RefreshLands \/ RefreshOvertaken \/ RefreshFails)
    BY <1>3 DEF GoesOn, RefreshLands, RefreshOvertaken, RefreshFails, RefreshReturnsNull, NoRefresh
  <2>6. DOMAIN logouts = 1..MaxLogouts
    BY <1>0 DEF SessionTyped
  <2> QED
    BY <2>1, <2>2, <2>3, <2>4, <2>5, <2>6 DEF SessionNext, sessionVars, Render, TimerFires,
       BecomesVisible, UserLogsIn, SendLogin, LoginLands, LoginFails, Call, Unauthorized,
       ServerAnswersCall, ServerRefreshes, ServerLogsIn, Expire
<1> QED  BY <1>0, <1>1, <1>2, <1>3, RefreshStep
-----------------------------------------------------------------------------
\* The gate: who waits behind it has a leader, and the leader a refresh.
LEMMA QueueStep ==
  ASSUME SessionInv, [SessionNext]_sessionVars PROVE QueueInv'
<1>0. SessionTyped /\ QueueInv
  BY TypesByName DEF SessionInv
<1>1. ASSUME UNCHANGED <<calls, isRefreshing>>, refreshCall.at # "none" => refreshCall'.at # "none"
      PROVE  QueueInv'
  BY <1>0, <1>1 DEF QueueInv, Waiting
<1>2. ASSUME calls' = [c \in Requests |-> IF c \in Waiting THEN Unsent ELSE calls[c]],
             isRefreshing' = FALSE
      PROVE  QueueInv'
  <2>1. \A c \in Requests : calls'[c].at \notin {"queued", "refreshing"}
    BY <1>2 DEF Waiting, Unsent
  <2> QED  BY <1>2, <2>1 DEF QueueInv, Waiting
<1>3. ASSUME UNCHANGED <<calls, isRefreshing>>, ~isRefreshing
      PROVE  QueueInv'
  BY <1>0, <1>3 DEF QueueInv, Waiting
<1>4. CASE RefreshLands
  <2>1. CASE isRefreshing
    <3>1. \A c \in Requests : calls'[c].at \notin {"queued", "refreshing"}
      BY <1>0, <1>4, <2>1 DEF RefreshLands, Resume, Waiting, SessionTyped, ApiCalls
    <3> QED  BY <1>4, <2>1, <3>1 DEF RefreshLands, Resume, QueueInv, Waiting
  <2>2. CASE ~isRefreshing
    BY <1>3, <1>4, <2>2 DEF RefreshLands
  <2> QED  BY <2>1, <2>2
<1>5. CASE RefreshOvertaken \/ RefreshFails
  <2>1. PICK cookie : RefreshReturnsNull(cookie)
    BY <1>5 DEF RefreshOvertaken, RefreshFails
  <2>2. CASE isRefreshing
    BY <1>2, <2>1, <2>2 DEF RefreshReturnsNull, GiveUp
  <2>3. CASE ~isRefreshing
    BY <1>3, <2>1, <2>3 DEF RefreshReturnsNull
  <2> QED  BY <2>2, <2>3
<1>6. ASSUME NEW c \in Requests, calls[c].at \notin {"queued", "refreshing"},
             \A d \in Requests \ {c} : calls'[d] = calls[d],
             calls'[c].at \notin {"queued", "refreshing"}, UNCHANGED <<isRefreshing, refreshCall>>
      PROVE  QueueInv'
  <2>1. \A d \in Requests : calls'[d].at \in {"queued", "refreshing"} <=> calls[d].at \in {"queued", "refreshing"}
    BY <1>6
  <2>2. Waiting' = Waiting
    BY <2>1 DEF Waiting
  <2> QED  BY <1>0, <1>6, <2>2 DEF QueueInv
<1>7. ASSUME NEW c \in Requests, Call(c) \/ ServerAnswersCall(c) PROVE QueueInv'
  <2>0. calls[c].at \in {"idle", "sent"} /\ calls'[c].at \in {"idle", "sent", "401"}
    <3>1. CASE Call(c)
      BY <1>0, <1>7, <3>1 DEF Call, SessionTyped
    <3>2. CASE ServerAnswersCall(c)
      BY <1>0, <1>7, <3>2 DEF ServerAnswersCall, SessionTyped, ApiCalls, Unsent
    <3> QED  BY <1>7, <3>1, <3>2
  <2>1. calls'[c].at \notin {"queued", "refreshing"} /\ calls[c].at \notin {"queued", "refreshing"}
    BY <2>0
  <2>2. \A d \in Requests \ {c} : calls'[d] = calls[d]
    BY <1>0, <1>7 DEF Call, ServerAnswersCall, SessionTyped
  <2>3. UNCHANGED <<isRefreshing, refreshCall>>
    BY <1>7 DEF Call, ServerAnswersCall
  <2> QED  BY <1>6, <2>1, <2>2, <2>3
<1>8. ASSUME NEW c \in Requests, Unauthorized(c) PROVE QueueInv'
  <2>0. calls[c].at = "401" /\ \A d \in Requests \ {c} : calls'[d] = calls[d]
    BY <1>0, <1>8 DEF Unauthorized, SessionTyped
  <2>1. CASE calls[c].retried
    <3>1. calls'[c].at \notin {"queued", "refreshing"} /\ UNCHANGED <<isRefreshing, refreshCall>>
      BY <1>0, <1>8, <2>1 DEF Unauthorized, SessionTyped, Unsent
    <3> QED  BY <1>6, <2>0, <3>1
  <2>2. CASE ~calls[c].retried /\ isRefreshing
    <3>1. calls'[c].at = "queued" /\ UNCHANGED <<isRefreshing, refreshCall>>
      BY <1>0, <1>8, <2>2 DEF Unauthorized, SessionTyped, ApiCalls
    <3>2. c \in Waiting'
      BY <3>1 DEF Waiting
    <3> QED  BY <1>0, <2>0, <2>2, <3>1, <3>2 DEF QueueInv
  <2>3. CASE ~calls[c].retried /\ ~isRefreshing
    <3>1. calls'[c].at = "refreshing" /\ isRefreshing' = TRUE /\ refreshCall'.at # "none"
      BY <1>0, <1>8, <2>3 DEF Unauthorized, SessionTyped, ApiCalls, StartRefresh
    <3>2. c \in Waiting'
      BY <3>1 DEF Waiting
    <3>3. \A d \in Requests : calls[d].at # "refreshing"
      BY <1>0, <2>3 DEF QueueInv, Waiting
    <3> QED  BY <2>0, <3>1, <3>2, <3>3 DEF QueueInv
  <2> QED  BY <2>1, <2>2, <2>3
<1>9. CASE StartRefresh /\ UNCHANGED <<calls, isRefreshing>>
  <2>1. refreshCall'.at # "none"
    BY <1>9 DEF StartRefresh
  <2> QED  BY <1>1, <1>9, <2>1
<1>10. CASE ServerRefreshes
  <2>1. refreshCall'.at # "none"
    BY <1>0, <1>10 DEF ServerRefreshes, SessionTyped, RefreshCalls
  <2> QED  BY <1>1, <1>10, <2>1 DEF ServerRefreshes
<1>11. CASE UNCHANGED <<calls, isRefreshing, refreshCall>>
  BY <1>1, <1>11
<1> QED
  BY <1>4, <1>5, <1>7, <1>8, <1>9, <1>10, <1>11 DEF SessionNext, sessionVars, Render, TimerFires,
     BecomesVisible, UserLogsOut, UserLogsIn, SendLogin, LoginLands, LoginFails,
     LogoutLands, LogoutLost, ServerLogsOut, ServerLogsIn, Expire

\* ... which is what the run checks, where the leaders are counted.
LEMMA ServedQueue == QueueInv => QueueIsServed
<1> SUFFICES ASSUME QueueInv PROVE QueueIsServed
  OBVIOUS
<1> DEFINE L == {c \in Requests : calls[c].at = "refreshing"}
<1>1. CASE L = {}
  <2>1. Cardinality(L) = 0
    BY <1>1, FS_EmptySet
  <2> QED  BY <2>1 DEF QueueInv, QueueIsServed
<1>2. ASSUME NEW c \in L PROVE QueueIsServed
  <2>1. L = {c}
    BY DEF QueueInv
  <2>2. Cardinality(L) = 1
    BY <2>1, FS_Singleton
  <2> QED  BY <2>2 DEF QueueInv, QueueIsServed
<1> QED  BY <1>1, <1>2

-----------------------------------------------------------------------------
\* A logout that was called stays called, by whom it was.
LEMMA UsedStay ==
  ASSUME SessionInv, [SessionNext]_sessionVars, NEW i \in 1..MaxLogouts, logouts[i].at # "unused"
  PROVE  logouts'[i].at # "unused" /\ logouts'[i].by = logouts[i].by
<1>0. SessionTyped /\ Ordered
  BY TypesByName DEF SessionInv, Ordered
<1>g. Generation \in 0..MaxLogouts /\ i # Generation + 1
  BY <1>0, GenerationCounts, TypesByName DEF Ordered
<1>1. CASE UNCHANGED logouts
  BY <1>1
<1>2. CASE UserLogsOut
  BY <1>0, <1>2, <1>g DEF UserLogsOut, LogoutBy, SessionTyped
<1>3. ASSUME NEW cookie PROVE /\ SentLogouts(cookie)[i].at # "unused"
                              /\ SentLogouts(cookie)[i].by = logouts[i].by
                              /\ DOMAIN SentLogouts(cookie) = 1..MaxLogouts
  BY <1>0 DEF SentLogouts, SessionTyped, LogoutCalls
<1>4. CASE RefreshLands
  BY <1>3, <1>4 DEF RefreshLands
<1>5. CASE RefreshOvertaken \/ RefreshFails
  <2>1. PICK cookie : RefreshReturnsNull(cookie)
    BY <1>5 DEF RefreshOvertaken, RefreshFails
  <2>2. CASE isRefreshing
    <3>1. PICK new : logouts' = [SentLogouts(cookie) EXCEPT ![Generation + 1] = new]
      BY <2>1, <2>2 DEF RefreshReturnsNull
    <3>2. logouts'[i] = SentLogouts(cookie)[i]
      BY <1>3, <1>g, <3>1
    <3> QED  BY <1>3, <3>2
  <2>3. CASE ~isRefreshing
    BY <1>3, <2>1, <2>3 DEF RefreshReturnsNull
  <2> QED  BY <2>2, <2>3
<1>6. ASSUME NEW j \in DOMAIN logouts, LogoutLands(j) \/ LogoutLost(j) \/ ServerLogsOut(j)
      PROVE  logouts'[i].at # "unused" /\ logouts'[i].by = logouts[i].by
  BY <1>0, <1>6 DEF LogoutLands, LogoutLost, ServerLogsOut, SessionTyped, LogoutCalls
<1> QED
  BY <1>1, <1>2, <1>4, <1>5, <1>6 DEF SessionNext, sessionVars, Render, TimerFires,
     BecomesVisible, UserLogsIn, SendLogin, LoginLands, LoginFails, Call, Unauthorized,
     ServerAnswersCall, ServerRefreshes, ServerLogsIn, Expire

\* The next logout is the user's, and no sign-in is on its way, unless it crosses one.
LEMMA NextLogoutIsAwaited ==
  ASSUME SessionInv, [SessionNext]_sessionVars, ~Crossed'
  PROVE  /\ ~Crossed
         /\ \/ Generation' = Generation /\ ~UserLogsOut
            \/ UserLogsOut /\ loginCall.at = "none"
         /\ RefreshOvertaken \/ RefreshFails => ~isRefreshing
<1>0. SessionTyped /\ Ordered
  BY TypesByName DEF SessionInv, Ordered
<1>t. SessionTyped'
  BY SessionTypeStep, <1>0 DEF Ordered
<1>g. Generation \in 0..MaxLogouts
  BY <1>0, GenerationCounts, TypesByName DEF Ordered
<1>d. DOMAIN logouts = 1..MaxLogouts /\ DOMAIN logouts' = 1..MaxLogouts
  BY <1>0, <1>t DEF SessionTyped
<1>1. ~Crossed
  BY <1>d, UsedStay DEF Crossed
<1>n. Generation < MaxLogouts => Generation + 1 \in 1..MaxLogouts
  BY <1>g, SessionAssumption
<1>2. RefreshOvertaken \/ RefreshFails => ~isRefreshing
  <2> SUFFICES ASSUME RefreshOvertaken \/ RefreshFails, isRefreshing PROVE FALSE
    OBVIOUS
  <2>1. PICK cookie : RefreshReturnsNull(cookie)
    BY DEF RefreshOvertaken, RefreshFails
  <2>2. DOMAIN SentLogouts(cookie) = 1..MaxLogouts
    BY <1>d DEF SentLogouts
  <2>3. Generation + 1 \in 1..MaxLogouts /\ logouts'[Generation + 1].at = "sent"
          /\ logouts'[Generation + 1].by = "client"
    BY <1>n, <2>1, <2>2 DEF RefreshReturnsNull
  <2> QED  BY <1>d, <2>3 DEF Crossed
<1>3. UserLogsOut => loginCall.at = "none"
  <2> SUFFICES ASSUME UserLogsOut, loginCall.at # "none" PROVE FALSE
    OBVIOUS
  <2>1. Generation + 1 \in 1..MaxLogouts
    BY <1>n DEF UserLogsOut, LogoutBy
  <2>2. LogoutBy("crossing", refreshCall.at # "none")
    BY DEF UserLogsOut
  <2>3. logouts'[Generation + 1].at # "unused" /\ logouts'[Generation + 1].by = "crossing"
    BY <1>d, <2>1, <2>2 DEF LogoutBy
  <2> QED  BY <1>d, <2>1, <2>3 DEF Crossed
<1>4. ~UserLogsOut => Generation' = Generation
  <2> SUFFICES ASSUME ~UserLogsOut PROVE SameNumber
    BY DEF SameNumber
  <2>1. CASE UNCHANGED logouts
    BY <1>0, <2>1, KeepsNumber
  <2>2. CASE RefreshLands
    BY <1>0, <2>2, SendsWaiters DEF RefreshLands
  <2>3. CASE RefreshOvertaken \/ RefreshFails
    BY <1>0, <1>2, <2>3, ReturnsNullNumber, AssignedTypes DEF RefreshOvertaken, RefreshFails
  <2>4. ASSUME NEW i \in DOMAIN logouts, LogoutLands(i) \/ LogoutLost(i) \/ ServerLogsOut(i)
        PROVE  SameNumber
    BY <1>0, <1>d, <2>4, ChangesOne DEF LogoutLands, LogoutLost, ServerLogsOut
  <2> QED
    BY <2>1, <2>2, <2>3, <2>4 DEF SessionNext, sessionVars, Render, TimerFires, BecomesVisible,
       UserLogsIn, SendLogin, LoginLands, LoginFails, Call, Unauthorized, ServerAnswersCall,
       ServerRefreshes, ServerLogsIn, Expire
<1> QED  BY <1>1, <1>2, <1>3, <1>4

\* Who signs in, and which sign-ins are on their way: the two things a step
\* may add to what SignInsAwaitTheLast speaks of.
LEMMA SignInMoves ==
  ASSUME SessionTyped, [SessionNext]_sessionVars
  PROVE  /\ tab'.user => tab.user \/ loginCall.at = "granted" \/ refreshCall'.at = "none"
         /\ loginCall'.at \in {"sent", "granted"} => loginCall.at \in {"sent", "granted"} \/ SendLogin
         /\ loginCall'.at # "none" =>
               (loginCall.at # "none" /\ loginCall'.awaits = loginCall.awaits) \/ UserLogsIn
<1>0. tab \in Tabs /\ loginCall \in LoginCalls
  BY DEF SessionTyped
<1>1. CASE UNCHANGED <<tab, loginCall>>
  BY <1>1
<1>2. CASE Render \/ TimerFires \/ BecomesVisible \/ UserLogsOut
  <2>1. UNCHANGED loginCall
    BY <1>2 DEF Render, TimerFires, BecomesVisible, UserLogsOut
  <2>2. tab'.user => tab.user
    BY <1>0, <1>2 DEF Render, TimerFires, BecomesVisible, UserLogsOut, LogoutBy, Tabs
  <2> QED  BY <2>1, <2>2
<1>3. CASE RefreshLands \/ RefreshOvertaken \/ RefreshFails
  <2>1. UNCHANGED loginCall /\ refreshCall'.at = "none"
    BY <1>3 DEF RefreshLands, RefreshOvertaken, RefreshFails, RefreshReturnsNull, NoRefresh
  <2> QED  BY <2>1
<1>4. CASE UserLogsIn \/ SendLogin \/ ServerLogsIn
  <2>1. UNCHANGED tab
    BY <1>4 DEF UserLogsIn, SendLogin, ServerLogsIn
  <2>2. CASE UserLogsIn
    BY <2>1, <2>2 DEF UserLogsIn
  <2>3. CASE SendLogin
    BY <1>0, <2>1, <2>3 DEF SendLogin, LoginCalls
  <2>4. CASE ServerLogsIn
    BY <1>0, <2>1, <2>4 DEF ServerLogsIn, LoginCalls
  <2> QED  BY <1>4, <2>2, <2>3, <2>4
<1>5. CASE LoginLands \/ LoginFails
  BY <1>5 DEF LoginLands, LoginFails, NoLogin
<1> QED
  BY <1>1, <1>2, <1>3, <1>4, <1>5 DEF SessionNext, sessionVars, Call, Unauthorized,
     ServerAnswersCall, LogoutLands, LogoutLost, ServerLogsOut, ServerRefreshes, Expire

\* A sign-in that is sent has waited for the last logout, and that one for the refresh.
LEMMA SentAfterTheLast ==
  ASSUME SessionInv, ~Crossed, SendLogin
  PROVE  refreshCall.at = "none" \/ ~Overtaken
<1> SUFFICES ASSUME refreshCall.at # "none" PROVE refreshCall.gen = Generation
  BY DEF Overtaken
<1>0. SessionTyped
  BY TypesByName DEF SessionInv
<1>g. /\ Generation \in 0..MaxLogouts
      /\ \A i \in 1..MaxLogouts : logouts[i].at # "unused" <=> i <= Generation
  BY GenerationCounts DEF SessionInv
<1>1. loginCall.awaits = Generation
  BY DEF SendLogin, SessionInv, SignInsAwaitTheLast
<1>2. refreshCall.gen \in 0..MaxLogouts /\ refreshCall.gen <= Generation
  BY <1>0 DEF SessionInv, KnowsItsLogouts, SessionTyped, RefreshCalls
<1>3. CASE Generation = 0
  BY <1>2, <1>3, SessionAssumption
<1>4. CASE Generation # 0
  <2>1. Generation \in 1..MaxLogouts /\ logouts[Generation].at = "done"
    BY <1>g, <1>1, <1>4 DEF SendLogin
  <2>2. logouts[Generation].by = "user"
    BY <1>0, <2>1 DEF Crossed, SessionTyped
  <2>3. ~Interrupts(Generation)
    BY <2>1, <2>2 DEF SessionInv, OnlyWaitersInterrupt
  <2> QED  BY <1>2, <2>1, <2>3, SessionAssumption DEF Interrupts
<1> QED  BY <1>3, <1>4

LEMMA SignInsStep ==
  ASSUME SessionInv, [SessionNext]_sessionVars PROVE SignInsAwaitTheLast'
<1> SUFFICES ASSUME ~Crossed'
             PROVE  /\ loginCall'.at # "none" => loginCall'.awaits = Generation'
                    /\ loginCall'.at \in {"sent", "granted"} \/ tab'.user
                         => refreshCall'.at = "none" \/ refreshCall'.gen = Generation'
  BY DEF SignInsAwaitTheLast, Overtaken
<1>0. SessionTyped /\ ~Crossed
  BY TypesByName, NextLogoutIsAwaited DEF SessionInv
<1>1. CASE UserLogsOut /\ loginCall.at = "none"
  <2>1. loginCall'.at = "none" /\ tab'.user = FALSE
    BY <1>0, <1>1 DEF UserLogsOut, LogoutBy, SessionTyped, Tabs
  <2> QED  BY <2>1
<1>2. CASE Generation' = Generation /\ ~UserLogsOut
  <2>1. loginCall'.at # "none" => loginCall'.awaits = Generation'
    <3>1. CASE UserLogsIn
      BY <1>2, <3>1 DEF UserLogsIn
    <3>2. CASE loginCall.at # "none" /\ loginCall'.awaits = loginCall.awaits
      BY <1>0, <1>2, <3>2 DEF SessionInv, SignInsAwaitTheLast
    <3> QED  BY <1>0, <3>1, <3>2, SignInMoves
  <2>2. ASSUME loginCall'.at \in {"sent", "granted"} \/ tab'.user, GoesOn
        PROVE  refreshCall'.gen = Generation'
    <3>1. loginCall.at \in {"sent", "granted"} \/ tab.user \/ SendLogin
      BY <1>0, <2>2, SignInMoves DEF GoesOn
    <3>2. refreshCall.at = "none" \/ ~Overtaken
      BY <1>0, <3>1, SentAfterTheLast DEF SessionInv, SignInsAwaitTheLast
    <3> QED  BY <1>2, <2>2, <3>2 DEF GoesOn, Overtaken
  <2> QED  BY <1>0, <1>2, <2>1, <2>2, RefreshStep DEF RefreshIsOver, Begins
<1> QED  BY <1>1, <1>2, NextLogoutIsAwaited

\* Who is signed in and loses the refresh, has the timer.
LEMMA KeptAliveStep ==
  ASSUME SessionInv, [SessionNext]_sessionVars PROVE SessionIsKeptAlive'
<1> SUFFICES ASSUME ~Crossed', tab'.user PROVE tab'.timer \/ refreshCall'.at # "none"
  BY DEF SessionIsKeptAlive
<1>0. SessionTyped /\ tab \in Tabs /\ ~Crossed
  BY TypesByName, NextLogoutIsAwaited DEF SessionInv, SessionTyped
<1>1. ASSUME UNCHANGED <<tab, refreshCall>> PROVE tab'.timer \/ refreshCall'.at # "none"
  BY <1>0, <1>1 DEF SessionInv, SessionIsKeptAlive
<1>2. CASE StartRefresh
  BY <1>2 DEF StartRefresh
<1>3. CASE Render
  BY <1>0, <1>3 DEF Render, Tabs, SessionInv, SessionIsKeptAlive
<1>4. CASE BecomesVisible
  BY <1>0, <1>2, <1>4 DEF BecomesVisible, Tabs
<1>5. CASE UserLogsOut
  BY <1>0, <1>5 DEF UserLogsOut, LogoutBy, Tabs
<1>6. CASE LoginLands \/ RefreshLands
  BY <1>0, <1>6 DEF LoginLands, RefreshLands, Tabs
<1>7. CASE RefreshOvertaken \/ RefreshFails
  <2>1. PICK cookie : RefreshReturnsNull(cookie)
    BY <1>7 DEF RefreshOvertaken, RefreshFails
  <2>2. ~isRefreshing /\ refreshCall.at # "none"
    BY <1>7, NextLogoutIsAwaited DEF RefreshOvertaken, RefreshFails
  <2>3. CASE Overtaken
    <3>1. tab.user
      BY <1>0, <2>1, <2>2, <2>3 DEF RefreshReturnsNull, Tabs
    <3> QED  BY <1>0, <2>2, <2>3, <3>1 DEF SessionInv, SignInsAwaitTheLast
  <2>4. CASE ~Overtaken
    BY <1>0, <2>1, <2>2, <2>4 DEF RefreshReturnsNull, Tabs
  <2> QED  BY <2>3, <2>4
<1>8. CASE ServerRefreshes
  BY <1>0, <1>8 DEF ServerRefreshes, SessionTyped, RefreshCalls
<1>9. ASSUME NEW c \in Requests, Unauthorized(c) PROVE tab'.timer \/ refreshCall'.at # "none"
  BY <1>1, <1>2, <1>9 DEF Unauthorized
<1> QED
  BY <1>1, <1>2, <1>3, <1>4, <1>5, <1>6, <1>7, <1>8, <1>9 DEF SessionNext, sessionVars, TimerFires,
     UserLogsIn, SendLogin, LoginFails, Call, ServerAnswersCall, LogoutLands, LogoutLost,
     ServerLogsOut, ServerLogsIn, Expire

LEMMA SessionStep ==
  ASSUME SessionInv, [SessionNext]_sessionVars PROVE SessionInv'
<1>1. SessionTypeOK' /\ LogoutsInOrder'
  BY TypesByName, TypesByNameNext, SessionTypeStep, LogoutsStep
     DEF SessionInv, Ordered, SameNumber, OneMore
<1> QED
  BY <1>1, QueueStep, KnowsStep, WaitersStep, SignInsStep, KeptAliveStep DEF SessionInv

\* A tab that has called no logout yet, with or without its first refresh.
LEMMA FreshSession ==
  ASSUME tab.user = FALSE, tab \in Tabs, refreshCall \in RefreshCalls, refreshCall.gen = 0,
         logouts = [i \in 1..MaxLogouts |-> UnusedLogout], loginCall = NoLogin,
         calls = [c \in Requests |-> Unsent], isRefreshing = FALSE, server \in Servers
  PROVE  SessionInv
<1>0. 0 \in 0..MaxIssues /\ 0 \in 0..MaxLogouts
  BY SessionAssumption
<1>1. UnusedLogout \in LogoutCalls /\ NoLogin \in LoginCalls /\ Unsent \in ApiCalls
  BY <1>0 DEF UnusedLogout, LogoutCalls, NoLogin, LoginCalls, Unsent, ApiCalls
<1>2. SessionTypeOK
  BY <1>1, TypesByName DEF SessionTyped
<1>3. \A i \in 1..MaxLogouts : logouts[i].at = "unused"
  BY DEF UnusedLogout
<1>4. LogoutsInOrder
  BY <1>0, <1>3, SessionAssumption DEF LogoutsInOrder
<1>5. QueueInv
  BY DEF QueueInv, Waiting, Unsent
<1>6. Generation = 0 /\ loginCall.at = "none"
  <2>1. {i \in DOMAIN logouts : logouts[i].at # "unused"} = {}
    BY <1>3
  <2> QED  BY <2>1, FS_EmptySet DEF Generation, NoLogin
<1>7. KnowsItsLogouts /\ OnlyWaitersInterrupt /\ SignInsAwaitTheLast /\ SessionIsKeptAlive
  BY <1>3, <1>6 DEF KnowsItsLogouts, OnlyWaitersInterrupt, SignInsAwaitTheLast, SessionIsKeptAlive
<1> QED  BY <1>2, <1>4, <1>5, <1>7 DEF SessionInv

LEMMA SessionStart ==
  ASSUME SessionInit \/ StillSession PROVE SessionInv
<1>0. 0 \in 0..MaxIssues /\ 1 \in 0..MaxIssues /\ 1 \in Issues /\ 0 \in 0..MaxLogouts
  BY SessionAssumption DEF Issues
<1>1. ASSUME SessionInit PROVE SessionInv
  <2>1. PICK cookie \in 0..1 :
          /\ tab = [user |-> FALSE, token |-> 0, seen |-> 0, loading |-> TRUE, timer |-> FALSE]
          /\ refreshCall = [at |-> "sent", gen |-> 0, issue |-> cookie]
          /\ server = [issued |-> cookie, live |-> {cookie} \ {0}, rotated |-> {}, expired |-> {},
                       cookie |-> cookie]
    BY <1>1 DEF SessionInit
  <2>c. cookie \in 0..MaxIssues /\ {cookie} \ {0} \subseteq Issues
    BY <1>0, <2>1
  <2>2. tab \in Tabs /\ tab.user = FALSE
    BY <1>0, <2>1 DEF Tabs
  <2>3. refreshCall \in RefreshCalls /\ refreshCall.gen = 0
    BY <1>0, <2>c, <2>1 DEF RefreshCalls
  <2>4. server \in Servers
    BY <2>c, <2>1 DEF Servers
  <2> QED  BY <1>1, <2>2, <2>3, <2>4, FreshSession DEF SessionInit
<1>2. ASSUME StillSession PROVE SessionInv
  <2>2. tab \in Tabs /\ tab.user = FALSE
    BY <1>0, <1>2 DEF Tabs, StillSession
  <2>3. refreshCall \in RefreshCalls /\ refreshCall.gen = 0
    BY <1>0, <1>2 DEF RefreshCalls, StillSession, NoRefresh
  <2>4. server \in Servers
    BY <1>0, <1>2 DEF Servers, StillSession
  <2> QED  BY <1>2, <2>2, <2>3, <2>4, FreshSession DEF StillSession
<1> QED  BY <1>1, <1>2

-----------------------------------------------------------------------------
\* Whatever part of the tab moves, the session keeps its invariant.
LEMMA FormsStepOfSession == [FormsNext]_formVars => [SessionNext]_sessionVars
BY DEF FormsNext, Only, formVars

(* The session of a tab, for any number of requests, tokens and logouts and   *)
(* whatever else the tab does: AuthContext, the interceptors of client.ts and *)
(* the server that answers them keep the types and SessionInv.                *)
THEOREM SessionKeepsInv == FormsSpec => []SessionInv
<1>1. FormsInit => SessionInv
  BY SessionStart DEF FormsInit
<1>2. SessionInv /\ [FormsNext]_formVars => SessionInv'
  BY SessionStep, FormsStepOfSession
<1> QED  BY <1>1, <1>2, PTL DEF FormsSpec

(* client.ts, the queue of failed requests: who waits behind the gate has     *)
(* one leader, and the leader a refresh that will resolve or fail.            *)
THEOREM NobodyQueuesInVain == FormsSpec => []QueueIsServed
<1>1. SessionInv => QueueIsServed
  BY ServedQueue DEF SessionInv
<1> QED  BY <1>1, SessionKeepsInv, PTL

(* AuthContext.logout: the user's logout is not at the server while a refresh *)
(* that it interrupted may still replace the cookie it shows.                 *)
THEOREM LogoutsWaitForTheRotation == FormsSpec => []LogoutFollowsTheRotation
<1>1. SessionInv => LogoutFollowsTheRotation
  <2> SUFFICES ASSUME SessionInv, NEW i \in DOMAIN logouts, logouts[i].by # "client",
                      logouts[i].at \in {"sent", "revoked"}
               PROVE  refreshCall.at = "none" \/ refreshCall.gen >= i
    BY DEF LogoutFollowsTheRotation
  <2>1. i \in 1..MaxLogouts /\ refreshCall.gen \in 0..MaxLogouts
    BY DEF SessionInv, SessionTypeOK
  <2>2. ~Interrupts(i)
    BY <2>1 DEF SessionInv, OnlyWaitersInterrupt
  <2> QED  BY <2>1, <2>2, SessionAssumption DEF Interrupts
<1> QED  BY <1>1, SessionKeepsInv, PTL

(* AuthContext.scheduleRefresh: a signed-in tab will ask for its next token.  *)
(* The argument is SignInsAwaitTheLast: a refresh that loses its session to a *)
(* logout cannot be one that a later sign-in relies on.                       *)
THEOREM SignedInTabsRefresh == FormsSpec => []SessionIsKeptAlive
<1>1. SessionInv => SessionIsKeptAlive
  BY DEF SessionInv
<1> QED  BY <1>1, SessionKeepsInv, PTL

-----------------------------------------------------------------------------
(* The form of a booking.  What could part the field from the resource is a   *)
(* text that was not picked: it stands while the keyboard is in the field or  *)
(* the timer of a blur that saw it is running, and that timer unchooses.      *)
ChosenIsOfTheKind ==
  values.resource # None => values.kind = kind /\ kind = KindOf(values.resource)

UnpickedIsUnchosen ==
  values.resource # None /\ ~steered =>
    \/ field.picked /\ field.text = values.resource
    \/ ~field.picked /\ (inside \/ (blurs # {} /\ \A b \in blurs : ~b.picked))

PreviewIsSigned == preview.about = preview.signature

BookingInv ==
  /\ BookingTypeOK /\ ChosenIsOfTheKind /\ UnpickedIsUnchosen /\ PackageIsOfTheProject
  /\ PreviewIsSigned

FormValues == [resource : People \cup Machines \cup {None}, kind : Kinds2,
               package : Projects \cup {None}]
SearchFields == [text : People \cup Machines \cup {None, Typed}, picked : BOOLEAN,
                 dismissed : BOOLEAN, searched : BOOLEAN]
BookingTyped ==
  /\ kind \in Kinds2 /\ project \in Projects \cup {None}
  /\ values \in FormValues /\ pending \in FormValues
  /\ preview.signature \in FormValues /\ preview.about \in FormValues
  /\ field \in SearchFields /\ blurs \subseteq [picked : BOOLEAN, kind : Kinds2]
  /\ editing \in BOOLEAN /\ inside \in BOOLEAN /\ steered \in BOOLEAN

LEMMA BookingTypesByName == BookingTypeOK <=> BookingTyped
BY DEF BookingTypeOK, BookingTyped, FormValues, SearchFields

LEMMA BookingTypesByNameNext == BookingTypeOK' <=> BookingTyped'
BY DEF BookingTypeOK, BookingTyped, FormValues, SearchFields

\* The effect of the field keeps what was picked and clears only a text.
LEMMA SettleTyped ==
  ASSUME NEW f \in SearchFields, NEW r, NEW wasPicked
  PROVE  /\ Settle(f, r, wasPicked) \in SearchFields
         /\ Settle(f, r, wasPicked).picked = f.picked
         /\ r # None \/ f.picked => Settle(f, r, wasPicked) = f
<1> DEFINE emptied == [f EXCEPT !.text = None, !.searched = FALSE]
<1>1. emptied \in SearchFields /\ emptied.picked = f.picked
  BY DEF SearchFields
<1>2. Settle(f, r, wasPicked) \in {f, emptied} /\ (r # None \/ f.picked => Settle(f, r, wasPicked) = f)
  BY DEF Settle
<1> HIDE DEF emptied
<1> QED  BY <1>1, <1>2

LEMMA ChosenTyped ==
  ASSUME BookingTyped, NEW r \in People \cup Machines \cup {None}, NEW k \in Kinds2, Chosen(r, k)
  PROVE  /\ values' \in FormValues /\ values'.resource = r /\ values'.kind = k
         /\ values'.package = values.package
BY DEF Chosen, BookingTyped, FormValues

LEMMA BookingTypeStep ==
  ASSUME BookingTyped, [BookingNext]_bookingVars PROVE BookingTyped'
<1> USE DEF BookingTyped
<1>1. ASSUME NEW text \in {None, Typed}, Type(text) PROVE BookingTyped'
  <2> DEFINE typed == [text |-> text, picked |-> FALSE, dismissed |-> FALSE,
                       searched |-> field.searched /\ text # None]
             chosen == IF text = None THEN None ELSE values.resource
  <2>1. typed \in SearchFields
    BY DEF SearchFields
  <2>2. field' = Settle(typed, chosen, field.picked)
    BY <1>1 DEF Type
  <2>3. field' \in SearchFields
    BY <2>1, <2>2, SettleTyped
  <2>4. values' \in FormValues
    BY <1>1, ChosenTyped DEF Type
  <2> QED  BY <1>1, <2>3, <2>4 DEF Type
<1>2. ASSUME NEW r \in People \cup Machines, Select(r) \/ Suggest(r) PROVE BookingTyped'
  <2>1. Picked(r) \in SearchFields
    BY DEF Picked, SearchFields
  <2>2. values' \in FormValues
    BY <1>2, ChosenTyped DEF Select, Suggest, Kinds2
  <2> QED  BY <1>2, <2>1, <2>2 DEF Select, Suggest
<1>3. CASE Debounce \/ Escape
  <2>1. field' \in SearchFields
    BY <1>3 DEF Debounce, Escape, SearchFields
  <2> QED  BY <1>3, <2>1 DEF Debounce, Escape
<1>4. CASE Focus \/ Blur
  <2>1. [picked |-> field.picked, kind |-> kind] \in [picked : BOOLEAN, kind : Kinds2]
    BY DEF SearchFields
  <2> QED  BY <1>4, <2>1 DEF Focus, Blur
<1>5. ASSUME NEW b \in blurs, BlurTimer(b) PROVE BookingTyped'
  <2> DEFINE closed == [field EXCEPT !.dismissed = TRUE]
  <2>1. closed \in SearchFields /\ b.kind \in Kinds2
    BY DEF SearchFields
  <2>2. field' \in SearchFields
    <3>1. Settle(closed, None, closed.picked) \in SearchFields
      BY <2>1, SettleTyped
    <3>2. field' \in {field, closed, Settle(closed, None, closed.picked)}
      BY <1>5 DEF BlurTimer
    <3> HIDE DEF closed
    <3> QED  BY <2>1, <3>1, <3>2
  <2>3. values' \in FormValues
    BY <1>5, <2>1, ChosenTyped DEF BlurTimer
  <2> QED  BY <1>5, <2>2, <2>3 DEF BlurTimer
<1>6. ASSUME NEW k \in Kinds2, SwitchKind(k) PROVE BookingTyped'
  BY <1>6, SettleTyped, ChosenTyped DEF SwitchKind
<1>7. ASSUME NEW p \in Projects \cup {None}, SelectProject(p) \/ SelectPackage(p) PROVE BookingTyped'
  <2>1. values' \in FormValues
    BY <1>7 DEF SelectProject, SelectPackage, FormValues
  <2> QED  BY <1>7, <2>1 DEF SelectProject, SelectPackage
<1>8. CASE RequestPreview \/ PreviewLands \/ RequestFails
  <2>1. NoValues \in FormValues
    BY DEF NoValues, FormValues, Kinds2
  <2>2. preview'.signature \in FormValues /\ preview'.about \in FormValues
    BY <1>8, <2>1 DEF RequestPreview, PreviewLands, RequestFails, NoPreview
  <2> QED  BY <1>8, <2>1, <2>2 DEF RequestPreview, PreviewLands, RequestFails, fieldVars
<1>9. CASE UNCHANGED bookingVars
  BY <1>9 DEF bookingVars
<1> QED  BY <1>1, <1>2, <1>3, <1>4, <1>5, <1>6, <1>7, <1>8, <1>9 DEF BookingNext

\* A resource is taken over with the kind that is shown, or not at all.
LEMMA KindStep ==
  ASSUME BookingInv, [BookingNext]_bookingVars PROVE ChosenIsOfTheKind'
<1>0. BookingTyped /\ ChosenIsOfTheKind
  BY BookingTypesByName DEF BookingInv
<1>1. ASSUME UNCHANGED <<values, kind>> PROVE ChosenIsOfTheKind'
  BY <1>0, <1>1 DEF ChosenIsOfTheKind
<1>2. ASSUME NEW k \in Kinds2, Chosen(None, k) PROVE ChosenIsOfTheKind'
  BY <1>0, <1>2, ChosenTyped DEF ChosenIsOfTheKind
<1>3. ASSUME NEW r \in People \cup Machines, Select(r) \/ Suggest(r) PROVE ChosenIsOfTheKind'
  <2>1. Chosen(r, kind) /\ UNCHANGED kind
    BY <1>3 DEF Select, Suggest, Suggestions
  <2>2. kind = KindOf(r)
    BY <1>0, <1>3, KindsAssumption DEF Select, Suggest, Suggestions, Results, OfKind, KindOf,
       BookingTyped, Kinds2
  <2> QED  BY <1>0, <2>1, <2>2, ChosenTyped DEF ChosenIsOfTheKind, BookingTyped
<1>4. ASSUME NEW text, Type(text) PROVE ChosenIsOfTheKind'
  BY <1>0, <1>1, <1>2, <1>4 DEF Type, BookingTyped
<1>5. ASSUME NEW b \in blurs, BlurTimer(b) PROVE ChosenIsOfTheKind'
  <2>1. b.kind \in Kinds2
    BY <1>0 DEF BookingTyped
  <2> QED  BY <1>1, <1>2, <1>5, <2>1 DEF BlurTimer
<1>6. ASSUME NEW p, SelectProject(p) \/ SelectPackage(p) PROVE ChosenIsOfTheKind'
  <2>1. values'.resource = values.resource /\ values'.kind = values.kind /\ UNCHANGED kind
    BY <1>0, <1>6 DEF SelectProject, SelectPackage, BookingTyped, FormValues
  <2> QED  BY <1>0, <2>1 DEF ChosenIsOfTheKind
<1> QED
  BY <1>1, <1>2, <1>3, <1>4, <1>5, <1>6 DEF BookingNext, bookingVars, fieldVars, SwitchKind,
     Debounce, Escape, Focus, Blur, RequestPreview, PreviewLands, RequestFails

LEMMA FieldStep ==
  ASSUME BookingInv, [BookingNext]_bookingVars PROVE UnpickedIsUnchosen'
<1>0. BookingTyped /\ UnpickedIsUnchosen
  BY BookingTypesByName DEF BookingInv
<1>1. ASSUME UNCHANGED <<values, field, inside, blurs, steered>> PROVE UnpickedIsUnchosen'
  BY <1>0, <1>1 DEF UnpickedIsUnchosen
<1>2. ASSUME NEW k \in Kinds2, Chosen(None, k) PROVE UnpickedIsUnchosen'
  BY <1>0, <1>2, ChosenTyped DEF UnpickedIsUnchosen
<1>3. ASSUME NEW text \in {None, Typed}, Type(text) PROVE UnpickedIsUnchosen'
  <2>1. CASE text = None
    BY <1>0, <1>2, <1>3, <2>1 DEF Type, BookingTyped
  <2>2. CASE text # None
    <3> DEFINE typed == [text |-> text, picked |-> FALSE, dismissed |-> FALSE,
                         searched |-> field.searched /\ text # None]
    <3>1. typed \in SearchFields /\ ~typed.picked
      BY DEF SearchFields
    <3>2. field' = Settle(typed, values.resource, field.picked) /\ inside' = TRUE
      BY <1>0, <1>3, <2>2 DEF Type, BookingTyped
    <3> HIDE DEF typed
    <3>3. ~field'.picked
      BY <3>1, <3>2, SettleTyped
    <3> QED  BY <3>2, <3>3 DEF UnpickedIsUnchosen
  <2> QED  BY <2>1, <2>2
<1>4. ASSUME NEW r \in People \cup Machines, Select(r) PROVE UnpickedIsUnchosen'
  <2>1. values'.resource = r
    BY <1>0, <1>4, ChosenTyped DEF Select, BookingTyped
  <2>2. field'.picked /\ field'.text = r
    BY <1>0, <1>4 DEF Select, Picked, BookingTyped, SearchFields
  <2> QED  BY <2>1, <2>2 DEF UnpickedIsUnchosen
<1>5. ASSUME NEW r, Suggest(r) PROVE UnpickedIsUnchosen'
  BY <1>5 DEF Suggest, UnpickedIsUnchosen
<1>6. CASE Debounce \/ Escape
  <2>1. field'.picked = field.picked /\ field'.text = field.text
    BY <1>0, <1>6 DEF Debounce, Escape, BookingTyped, SearchFields
  <2> QED  BY <1>0, <1>6, <2>1 DEF Debounce, Escape, UnpickedIsUnchosen
<1>7. CASE Focus
  BY <1>0, <1>7 DEF Focus, UnpickedIsUnchosen
<1>8. CASE Blur
  BY <1>0, <1>8 DEF Blur, UnpickedIsUnchosen
<1>9. ASSUME NEW b \in blurs, BlurTimer(b) PROVE UnpickedIsUnchosen'
  <2>0. b.kind \in Kinds2
    BY <1>0 DEF BookingTyped
  <2>1. CASE inside
    BY <1>0, <1>9, <2>1 DEF BlurTimer, UnpickedIsUnchosen
  <2>2. CASE ~inside /\ b.picked
    <3>1. UNCHANGED <<values, steered>> /\ field' = [field EXCEPT !.dismissed = TRUE]
      BY <1>9, <2>2 DEF BlurTimer
    <3>2. field'.picked = field.picked /\ field'.text = field.text
      BY <1>0, <3>1 DEF BookingTyped, SearchFields
    <3> QED  BY <1>0, <2>2, <3>1, <3>2 DEF UnpickedIsUnchosen
  <2>3. CASE ~inside /\ ~b.picked
    BY <1>2, <1>9, <2>0, <2>3 DEF BlurTimer
  <2> QED  BY <2>1, <2>2, <2>3
<1>10. ASSUME NEW p, SelectProject(p) \/ SelectPackage(p) PROVE UnpickedIsUnchosen'
  <2>1. values'.resource = values.resource /\ UNCHANGED <<field, inside, blurs, steered>>
    BY <1>0, <1>10 DEF SelectProject, SelectPackage, BookingTyped, FormValues
  <2> QED  BY <1>0, <2>1 DEF UnpickedIsUnchosen
<1> QED
  BY <1>1, <1>2, <1>3, <1>4, <1>5, <1>6, <1>7, <1>8, <1>9, <1>10 DEF BookingNext, bookingVars,
     fieldVars, SwitchKind, RequestPreview, PreviewLands, RequestFails

LEMMA BookingStep ==
  ASSUME BookingInv, [BookingNext]_bookingVars PROVE BookingInv'
<1>0. BookingTyped
  BY BookingTypesByName DEF BookingInv
<1>1. BookingTypeOK'
  BY <1>0, BookingTypeStep, BookingTypesByNameNext
<1>2. PackageIsOfTheProject'
  <2>1. ASSUME values'.package = values.package, UNCHANGED project PROVE PackageIsOfTheProject'
    BY <2>1 DEF BookingInv, PackageIsOfTheProject
  <2>2. ASSUME NEW r \in People \cup Machines \cup {None}, NEW k \in Kinds2, Chosen(r, k),
               UNCHANGED project
        PROVE  PackageIsOfTheProject'
    BY <1>0, <2>1, <2>2, ChosenTyped
  <2>3. ASSUME NEW p, SelectProject(p) \/ SelectPackage(p) PROVE PackageIsOfTheProject'
    BY <1>0, <2>3 DEF SelectProject, SelectPackage, PackageIsOfTheProject, BookingTyped, FormValues
  <2>4. ASSUME NEW b \in blurs, BlurTimer(b) PROVE PackageIsOfTheProject'
    <3>1. b.kind \in Kinds2
      BY <1>0 DEF BookingTyped
    <3> QED  BY <2>1, <2>2, <2>4, <3>1 DEF BlurTimer
  <2>5. ASSUME NEW text, Type(text) PROVE PackageIsOfTheProject'
    BY <1>0, <2>1, <2>2, <2>5 DEF Type, BookingTyped
  <2>6. ASSUME NEW r \in People \cup Machines, Select(r) \/ Suggest(r) PROVE PackageIsOfTheProject'
    BY <1>0, <2>2, <2>6 DEF Select, Suggest, BookingTyped, Kinds2
  <2> QED
    BY <2>1, <2>2, <2>3, <2>4, <2>5, <2>6 DEF BookingNext, bookingVars, fieldVars, SwitchKind,
       Debounce, Escape, Focus, Blur, RequestPreview, PreviewLands, RequestFails
<1>3. PreviewIsSigned'
  <2>1. CASE UNCHANGED preview
    BY <2>1 DEF BookingInv, PreviewIsSigned
  <2>2. CASE RequestPreview \/ PreviewLands
    BY <2>2 DEF RequestPreview, PreviewLands, PreviewIsSigned, NoPreview
  <2> QED
    BY <2>1, <2>2 DEF BookingNext, bookingVars, fieldVars, SwitchKind, SelectProject,
       SelectPackage, Debounce, Escape, Focus, Blur, BlurTimer, Type, Select, Suggest, RequestFails
<1> QED  BY <1>1, <1>2, <1>3, KindStep, FieldStep DEF BookingInv

LEMMA BookingStart == ASSUME BookingInit PROVE BookingInv
<1>1. EmptyField \in SearchFields /\ NoValues \in FormValues
  BY DEF EmptyField, SearchFields, NoValues, FormValues, Kinds2
<1>2. preview = NoPreview /\ pending = NoValues /\ blurs = {} /\ inside = FALSE /\ steered = FALSE
      /\ preview.signature = NoValues /\ preview.about = NoValues /\ editing \in BOOLEAN
  BY DEF BookingInit, NoPreview
<1>3. CASE editing
  <2>1. PICK r \in People \cup Machines, p \in Projects : Seeded(r, p)
    BY <1>3 DEF BookingInit
  <2>2. KindOf(r) \in Kinds2
    BY DEF KindOf, Kinds2
  <2>3. values \in FormValues /\ values.resource = r /\ values.kind = KindOf(r) /\ values.package = p
    BY <2>1, <2>2 DEF Seeded, FormValues
  <2>4. field \in SearchFields /\ field.picked /\ field.text = r
    BY <2>1 DEF Seeded, EmptyField, SearchFields
  <2>5. kind = KindOf(r) /\ project = p
    BY <2>1 DEF Seeded
  <2> QED
    BY <1>1, <1>2, <2>2, <2>3, <2>4, <2>5, BookingTypesByName DEF BookingInv, BookingTyped,
       ChosenIsOfTheKind, UnpickedIsUnchosen, PackageIsOfTheProject, PreviewIsSigned
<1>4. CASE ~editing
  <2>1. values = NoValues /\ kind = "personal" /\ project = None /\ field = EmptyField
    BY <1>4 DEF BookingInit
  <2>2. values.resource = None /\ values.package = None
    BY <2>1 DEF NoValues
  <2>3. kind \in Kinds2
    BY <2>1 DEF Kinds2
  <2> QED
    BY <1>1, <1>2, <2>1, <2>2, <2>3, BookingTypesByName DEF BookingInv, BookingTyped,
       ChosenIsOfTheKind, UnpickedIsUnchosen, PackageIsOfTheProject, PreviewIsSigned
<1> QED  BY <1>3, <1>4

\* What the form shows is what it would book.
LEMMA BookingPromise == BookingInv => FormBooksWhatItShows
<1> SUFFICES ASSUME BookingInv PROVE FormBooksWhatItShows
  OBVIOUS
<1>0. BookingTyped
  BY BookingTypesByName DEF BookingInv
<1>1. OfOneKind
  BY DEF BookingInv, ChosenIsOfTheKind, OfOneKind, Payload, Drawn
<1>2. FieldNamesTheResource
  BY <1>0 DEF BookingInv, UnpickedIsUnchosen, FieldNamesTheResource
<1>3. PreviewIsOfTheForm
  BY DEF BookingInv, PreviewIsSigned, PreviewIsOfTheForm, VisiblePreview
<1> QED  BY <1>1, <1>2, <1>3 DEF BookingInv, FormBooksWhatItShows

-----------------------------------------------------------------------------
(* The settings page.  A form that an answer has filled holds that answer     *)
(* where nobody has typed, and a password that is there to be sent was typed  *)
(* or cleared since.                                                          *)
FormIsOfTheAnswer ==
  /\ ~fields.shown => ~seeded /\ touched = {}
  /\ seeded /\ "plan" \notin touched => fields.plan = answer.plan
  /\ fields.password # Keep => "password" \in touched

Stored == [brand : 0..3, plan : 0..3, password : {"none", "old", "new"}, logo : BOOLEAN]
Answers == [brand : 0..3, plan : 0..3, password : BOOLEAN, logo : BOOLEAN, read : BOOLEAN]
SettingsFields == [brand : 0..3, plan : 0..3, password : {Keep, "", "new"}, shown : BOOLEAN]
SettingsSaves == [body : SettingsFields, sent : SUBSET {"brand", "plan", "password"},
                  at : {"none", "sent", "done", "rereading"}]
SettingsTyped ==
  /\ stored \in Stored /\ answer \in Answers /\ reading \in Answers /\ fields \in SettingsFields
  /\ touched \subseteq {"brand", "plan", "password"}
  /\ seeded \in BOOLEAN /\ clearing \in BOOLEAN
  /\ saving \in SettingsSaves /\ ("password" \in saving.sent => saving.body.password # Keep)

SettingsInv == SettingsTyped /\ FormIsOfTheAnswer

LEMMA SettingsTypes == SettingsTyped => SettingsTypeOK
BY DEF SettingsTyped, SettingsTypeOK, Stored, Answers, SettingsFields

LEMMA SettingsConstants ==
  /\ NoAnswer \in Answers /\ NoForm \in SettingsFields
  /\ NoSave \in SettingsSaves /\ NoSave.sent = {} /\ NoSave.at = "none"
  /\ [NoSave EXCEPT !.at = "rereading"] \in SettingsSaves
  /\ [NoSave EXCEPT !.at = "rereading"].sent = {}
<1>1. NoAnswer \in Answers
  BY DEF NoAnswer, Answers, Default
<1>2. NoForm \in SettingsFields
  BY DEF NoForm, SettingsFields, Default, Keep
<1> QED  BY <1>1, <1>2 DEF NoSave, SettingsSaves

LEMMA ReadingTyped == ASSUME NEW s \in Stored PROVE Reading(s) \in Answers
BY DEF Reading, Stored, Answers

\* An answer fills the plan, and takes back the password.
LEMMA SeedTyped ==
  ASSUME NEW f \in SettingsFields, NEW a \in Answers
  PROVE  /\ seed(f, a) \in SettingsFields /\ seed(f, a).plan = a.plan
         /\ seed(f, a).password = Keep /\ seed(f, a).shown = f.shown
BY DEF seed, SettingsFields, Answers

\* A save that is released was one that waits for its read.
LEMMA ReleasedTyped ==
  ASSUME SettingsTyped
  PROVE  /\ Released \in SettingsSaves
         /\ "password" \in Released.sent => Released.body.password # Keep
         /\ saving = NoSave => Released = NoSave
BY SettingsConstants DEF Released, SettingsTyped

LEMMA SettingsStep ==
  ASSUME SettingsInv, [SettingsNext]_settingsVars PROVE SettingsInv'
<1> USE DEF SettingsInv, SettingsTyped
<1>1. CASE OpenSettings
  <2> DEFINE opened == [NoForm EXCEPT !.brand = answer.brand, !.shown = TRUE]
  <2>1. opened \in SettingsFields /\ opened.shown /\ opened.password = Keep
    <3>1. answer.brand \in 0..3
      BY DEF Answers
    <3>2. NoForm \in SettingsFields /\ NoForm.password = Keep
      BY SettingsConstants DEF NoForm
    <3> QED  BY <3>1, <3>2 DEF SettingsFields
  <2>2. fields' = IF answer.read THEN seed(opened, answer) ELSE opened
    BY <1>1 DEF OpenSettings
  <2>3. seeded' = answer.read /\ answer.read \in BOOLEAN
    BY <1>1 DEF OpenSettings, Answers
  <2> HIDE DEF opened
  <2>4. CASE answer.read
    BY <1>1, <2>1, <2>2, <2>3, <2>4, SeedTyped DEF OpenSettings, FormIsOfTheAnswer
  <2>5. CASE ~answer.read
    BY <1>1, <2>1, <2>2, <2>3, <2>5 DEF OpenSettings, FormIsOfTheAnswer
  <2> QED  BY <2>4, <2>5
<1>2. CASE LeaveSettings
  <2>1. NoForm.password = Keep
    BY DEF NoForm
  <2> QED  BY <1>2, <2>1, SettingsConstants DEF LeaveSettings, FormIsOfTheAnswer
<1>3. CASE StartRead
  BY <1>3, ReadingTyped DEF StartRead, FormIsOfTheAnswer
<1>4. CASE AnswerLands
  <2>1. CASE fields.shown /\ reading # answer
    <3>1. fields' = seed(fields, reading) /\ seeded' = TRUE /\ touched' = touched \cap {"brand"}
          /\ answer' = reading
      BY <1>4, <2>1 DEF AnswerLands
    <3> QED
      BY <1>4, <2>1, <3>1, SeedTyped, ReleasedTyped, SettingsConstants
         DEF AnswerLands, FormIsOfTheAnswer
  <2>2. CASE ~(fields.shown /\ reading # answer)
    BY <1>4, <2>2, ReleasedTyped, SettingsConstants DEF AnswerLands, FormIsOfTheAnswer
  <2> QED  BY <2>1, <2>2
<1>5. CASE ReadFails
  BY <1>5, ReleasedTyped, SettingsConstants DEF ReadFails, FormIsOfTheAnswer
<1>6. CASE TypePassword
  <2>1. fields' \in SettingsFields /\ fields'.plan = fields.plan /\ fields'.shown = fields.shown
    BY <1>6 DEF TypePassword, SettingsFields
  <2> QED  BY <1>6, <2>1 DEF TypePassword, FormIsOfTheAnswer
<1>7. CASE ClearPassword
  <2>1. fields' \in SettingsFields /\ fields'.plan = fields.plan /\ fields'.shown = fields.shown
    BY <1>7 DEF ClearPassword, SettingsFields
  <2> QED  BY <1>7, <2>1 DEF ClearPassword, FormIsOfTheAnswer
<1>8. CASE SaveSettings
  <2>1. saving' \in SettingsSaves /\ ("password" \in saving'.sent => saving'.body.password # Keep)
    BY <1>8 DEF SaveSettings, SettingsSaves
  <2> QED  BY <1>8, <2>1 DEF SaveSettings, FormIsOfTheAnswer
<1>9. CASE ServerSaves
  <2>1. saving' \in SettingsSaves /\ ("password" \in saving'.sent => saving'.body.password # Keep)
    BY <1>9 DEF ServerSaves, SettingsSaves
  <2>2. stored' \in Stored
    <3> DEFINE p == IF "password" \notin saving.sent THEN stored.password
                    ELSE IF saving.body.password = "" THEN "none" ELSE saving.body.password
    <3>1. p \in {"none", "old", "new"}
      BY DEF Stored, SettingsSaves, SettingsFields
    <3>2. saving.body.brand \in 0..3 /\ saving.body.plan \in 0..3
      BY DEF SettingsSaves, SettingsFields
    <3>3. stored' = [stored EXCEPT !.brand = saving.body.brand, !.plan = saving.body.plan,
                                   !.password = p]
      BY <1>9 DEF ServerSaves
    <3> HIDE DEF p
    <3> QED  BY <3>1, <3>2, <3>3 DEF Stored
  <2> QED  BY <1>9, <2>1, <2>2 DEF ServerSaves, FormIsOfTheAnswer
<1>10. CASE SettingsLand
  <2>1. reading' \in Answers
    BY <1>10, ReadingTyped DEF SettingsLand
  <2>2. saving' \in SettingsSaves /\ saving'.sent = {}
    BY <1>10, SettingsConstants DEF SettingsLand
  <2> QED  BY <1>10, <2>1, <2>2 DEF SettingsLand, FormIsOfTheAnswer
<1>11. CASE ChangeLogo
  <2>1. stored' \in Stored
    BY <1>11 DEF ChangeLogo, Stored, Answers
  <2>2. reading' \in Answers
    <3>1. reading' = Reading(stored')
      BY <1>11 DEF ChangeLogo
    <3> QED  BY <2>1, <3>1, ReadingTyped
  <2> QED  BY <1>11, <2>1, <2>2 DEF ChangeLogo, FormIsOfTheAnswer
<1>12. ASSUME NEW g \in {"brand", "plan"}, TypeInto(g) PROVE SettingsInv'
  <2>1. fields' \in SettingsFields /\ fields'.password = fields.password /\ fields'.shown = fields.shown
    <3>0. Entered \in 0..3
      BY DEF Entered
    <3>1. CASE g = "brand"
      <4>1. fields' = [fields EXCEPT !.brand = Entered]
        BY <1>12, <3>1 DEF TypeInto
      <4> QED  BY <3>0, <4>1 DEF SettingsFields
    <3>2. CASE g = "plan"
      <4>1. fields' = [fields EXCEPT !.plan = Entered]
        BY <1>12, <3>2 DEF TypeInto
      <4> QED  BY <3>0, <4>1 DEF SettingsFields
    <3> QED  BY <3>1, <3>2
  <2>2. g # "plan" => fields'.plan = fields.plan
    BY <1>12 DEF TypeInto, SettingsFields
  <2> QED  BY <1>12, <2>1, <2>2 DEF TypeInto, FormIsOfTheAnswer
<1>13. ASSUME NEW g \in {"brand", "plan"}, SomebodySaves(g) PROVE SettingsInv'
  <2>1. stored' \in Stored
    BY <1>13 DEF SomebodySaves, Stored, Foreign
  <2> QED  BY <1>13, <2>1 DEF SomebodySaves, FormIsOfTheAnswer
<1>14. CASE UNCHANGED settingsVars
  BY <1>14 DEF settingsVars, FormIsOfTheAnswer
<1> QED
  BY <1>1, <1>2, <1>3, <1>4, <1>5, <1>6, <1>7, <1>8, <1>9, <1>10, <1>11, <1>12, <1>13, <1>14
     DEF SettingsNext

LEMMA SettingsStart == ASSUME SettingsInit PROVE SettingsInv
<1>1. stored \in Stored
  BY DEF SettingsInit, Stored, Original
<1>2. fields.shown = FALSE /\ fields.password = Keep
  BY DEF SettingsInit, NoForm
<1> QED
  BY <1>1, <1>2, SettingsConstants DEF SettingsInit, SettingsInv, SettingsTyped, FormIsOfTheAnswer

\* A save begins in one step only, with what the form holds.
LEMMA SaveOfTheForm ==
  ASSUME SettingsInv, [SettingsNext]_settingsVars, saving = NoSave, saving' # NoSave
  PROVE  /\ "plan" \notin touched /\ seeded => saving'.body.plan = answer.plan
         /\ "password" \in saving'.sent => "password" \in touched
<1>1. SaveSettings
  <2>1. ~ServerSaves /\ ~SettingsLand
    BY SettingsConstants DEF ServerSaves, SettingsLand
  <2>2. ~AnswerLands /\ ~ReadFails
    BY ReleasedTyped DEF AnswerLands, ReadFails, SettingsInv
  <2> QED
    BY <2>1, <2>2 DEF SettingsNext, settingsVars, OpenSettings, LeaveSettings, StartRead,
       TypePassword, ClearPassword, ChangeLogo, TypeInto, SomebodySaves
<1>2. saving'.body = fields /\ ("password" \in saving'.sent => fields.password # Keep)
  BY <1>1 DEF SaveSettings
<1> QED  BY <1>1, <1>2 DEF SettingsInv, FormIsOfTheAnswer, SaveSettings

-----------------------------------------------------------------------------
(* The matrix.  While no change is on its way nothing changes on the server,  *)
(* so the rows that a read has by then are the last ones; and the last change *)
(* to end has asked for them.                                                 *)
AllOver == \A i \in DOMAIN changes : Over(i)
RowsAreOfTheServer ==
  AllOver => /\ rowsRead = NotRead /\ trusted => cells = held
             /\ rowsRead.at = "answered" => rowsRead.rows = held

Reads == {NotRead, Reread} \cup [at : {"answered"}, rows : SUBSET Rows]
Changes == [kind : {"add", "remove", "bound"}, attr : Attributes \cup {NoCell},
            id : 0..MaxChanges + 1, level : 0..1, previous : SUBSET Rows,
            at : {"sent", "done", "refused", "over"}]
MatrixTyped ==
  /\ held \in SUBSET Rows /\ cells \in SUBSET Rows /\ trusted \in BOOLEAN /\ rowsRead \in Reads
  /\ changes \in Seq(Changes) /\ Len(changes) <= MaxChanges
  /\ \A i \in DOMAIN changes : Over(i) \/ changes[i].attr \in Attributes

MatrixInv == MatrixTyped /\ RowsAreOfTheServer

LEMMA MatrixTypes == MatrixTyped => MatrixTypeOK
<1> SUFFICES ASSUME MatrixTyped PROVE MatrixTypeOK
  OBVIOUS
<1>1. rowsRead.at \in {"none", "asked", "answered"} /\ rowsRead.rows \subseteq Rows
  BY DEF MatrixTyped, Reads, NotRead, Reread
<1>2. ASSUME NEW i \in DOMAIN changes PROVE changes[i].at \in {"sent", "done", "refused", "over"}
  <2>1. changes[i] \in Changes
    BY DEF MatrixTyped
  <2> QED  BY <2>1 DEF Changes
<1> QED  BY <1>1, <1>2 DEF MatrixTyped, MatrixTypeOK

LEMMA MatrixStart == ASSUME MatrixInit PROVE MatrixInv
<1>1. \A a \in HeldFirst : [attr |-> a, id |-> MaxChanges + 1, level |-> 0] \in Rows
  BY MatrixAssumption DEF Rows
<1>2. held \in SUBSET Rows
  BY <1>1 DEF MatrixInit
<1>3. NotRead \in Reads /\ NotRead.at = "none"
  BY DEF Reads, NotRead
<1> QED
  BY <1>2, <1>3, MatrixAssumption DEF MatrixInit, MatrixInv, MatrixTyped, RowsAreOfTheServer

\* Asking for a change leaves one that is not over.
LEMMA AskStep ==
  ASSUME MatrixInv, NEW row \in Rows, NEW what \in {"add", "remove", "bound"},
         NEW expected \in SUBSET Rows, Ask(Change(what, row), expected)
  PROVE  MatrixInv'
<1> DEFINE new == [Change(what, row) EXCEPT !.previous = cells]
<1>1. new \in Changes /\ new.at = "sent" /\ new.attr \in Attributes
  BY DEF MatrixInv, MatrixTyped, Change, Changes, Rows
<1>2. changes' = Append(changes, new) /\ Len(changes) < MaxChanges
  BY DEF Ask
<1> HIDE DEF new
<1>3. /\ changes' \in Seq(Changes) /\ Len(changes') = Len(changes) + 1 /\ Len(changes) \in Nat
      /\ DOMAIN changes' = 1..Len(changes) + 1 /\ DOMAIN changes = 1..Len(changes)
      /\ changes'[Len(changes) + 1] = new
      /\ \A i \in DOMAIN changes : changes'[i] = changes[i]
  BY <1>1, <1>2 DEF MatrixInv, MatrixTyped
<1>4. Len(changes') <= MaxChanges
  BY <1>2, <1>3, MatrixAssumption
<1>5. \A i \in DOMAIN changes' : changes'[i].at = "over" \/ changes'[i].attr \in Attributes
  BY <1>1, <1>3 DEF MatrixInv, MatrixTyped, Over
<1>6. ~AllOver'
  BY <1>1, <1>3 DEF AllOver, Over
<1>7. NotRead \in Reads
  BY DEF Reads
<1> QED
  BY <1>3, <1>4, <1>5, <1>6, <1>7 DEF MatrixInv, MatrixTyped, RowsAreOfTheServer, Ask, Over

\* The rows of a cell are shown.
LEMMA CellRows == ASSUME NEW a, cells \subseteq Rows, NEW row \in CellOf(a)
                  PROVE  row \in cells /\ row \in Rows
BY DEF CellOf

LEMMA AfterTyped ==
  ASSUME MatrixTyped, NEW i \in DOMAIN changes, changes[i].at = "sent"
  PROVE  After(i, changes[i]) \in SUBSET Rows
<1> DEFINE c == changes[i]
<1>1. c \in Changes /\ c.attr \in Attributes /\ i \in 0..MaxChanges + 1
  BY MatrixAssumption DEF MatrixTyped, Over
<1>2. Known(c) \subseteq Rows
  BY DEF MatrixTyped, Known
<1>3. [attr |-> c.attr, id |-> i, level |-> 0] \in Rows
  BY <1>1 DEF Rows
<1>4. \A r \in Known(c) : [r EXCEPT !.level = c.level] \in Rows
  BY <1>1, <1>2 DEF Rows, Changes
<1> HIDE DEF c
<1>5. After(i, c) \in SUBSET Rows
  BY <1>1, <1>2, <1>3, <1>4 DEF After, Changes, MatrixTyped
<1> QED  BY <1>5 DEF c

LEMMA MatrixStep ==
  ASSUME MatrixInv, [MatrixNext]_matrixVars PROVE MatrixInv'
<1>0. MatrixTyped /\ RowsAreOfTheServer /\ Len(changes) \in Nat /\ DOMAIN changes = 1..Len(changes)
  BY DEF MatrixInv, MatrixTyped
<1>r. NotRead \in Reads /\ Reread \in Reads /\ Reread.at = "asked" /\ Reread # NotRead
  BY DEF Reads, NotRead, Reread
<1>1. ASSUME NEW a \in Attributes, Toggle(a) PROVE MatrixInv'
  <2>1. CASE CellOf(a) = {}
    <3>1. TempRow(a) \in Rows
      BY MatrixAssumption DEF TempRow, Rows, Temp
    <3>2. cells \cup {TempRow(a)} \in SUBSET Rows
      BY <1>0, <3>1 DEF MatrixTyped
    <3> QED  BY <1>1, <2>1, <3>1, <3>2, AskStep DEF Toggle
  <2>2. CASE CellOf(a) # {}
    <3>1. PICK row \in CellOf(a) : Ask(Change("remove", row), cells \ {row})
      BY <1>1, <2>2 DEF Toggle
    <3>2. row \in Rows /\ cells \ {row} \in SUBSET Rows
      BY <1>0, CellRows DEF MatrixTyped
    <3> QED  BY <3>1, <3>2, AskStep
  <2> QED  BY <2>1, <2>2
<1>2. ASSUME NEW a \in Attributes, NEW level \in 0..1, handleBoundsChange(a, level) PROVE MatrixInv'
  <2>1. PICK row \in CellOf(a) :
          Ask(Change("bound", [row EXCEPT !.level = level]),
              (cells \ {row}) \cup {[row EXCEPT !.level = level]})
    BY <1>2 DEF handleBoundsChange
  <2>2. row \in Rows
    BY <1>0, CellRows DEF MatrixTyped
  <2>3. [row EXCEPT !.level = level] \in Rows
    BY <2>2 DEF Rows
  <2>4. (cells \ {row}) \cup {[row EXCEPT !.level = level]} \in SUBSET Rows
    BY <1>0, <2>3 DEF MatrixTyped
  <2> QED  BY <2>1, <2>3, <2>4, AskStep
<1>3. ASSUME NEW i \in DOMAIN changes, ServerChanges(i) PROVE MatrixInv'
  <2>1. held' \in SUBSET Rows
    BY <1>0, <1>3, AfterTyped DEF ServerChanges, MatrixTyped
  <2>2. PICK at \in {"done", "refused"} : changes' = [changes EXCEPT ![i].at = at]
    BY <1>3 DEF ServerChanges
  <2>3. changes[i] \in Changes /\ [changes[i] EXCEPT !.at = at] \in Changes
    <3>1. changes[i] \in Changes
      BY <1>0 DEF MatrixTyped
    <3> QED  BY <3>1 DEF Changes
  <2>4. /\ changes' \in Seq(Changes) /\ Len(changes') = Len(changes) /\ DOMAIN changes' = DOMAIN changes
        /\ changes'[i] = [changes[i] EXCEPT !.at = at]
        /\ \A j \in DOMAIN changes \ {i} : changes'[j] = changes[j]
    BY <1>0, <2>2, <2>3 DEF MatrixTyped
  <2>5. changes[i].at = "sent" /\ changes'[i].at = at /\ changes'[i].attr = changes[i].attr
    BY <1>0, <1>3, <2>4 DEF ServerChanges, MatrixTyped, Changes
  <2>6. ~AllOver'
    BY <2>4, <2>5 DEF AllOver, Over
  <2>7. \A j \in DOMAIN changes' : changes'[j].at = "over" \/ changes'[j].attr \in Attributes
    BY <1>0, <2>4, <2>5 DEF MatrixTyped, Over
  <2> QED
    BY <1>0, <1>3, <2>1, <2>4, <2>6, <2>7 DEF ServerChanges, MatrixInv, MatrixTyped,
       RowsAreOfTheServer, Over
<1>4. ASSUME NEW i \in DOMAIN changes, Succeeds(i) \/ Fails(i) PROVE MatrixInv'
  <2>1. PICK rows \in SUBSET Rows : Ends(i, rows, Reread)
    <3>0. changes[i] \in Changes
      BY <1>0 DEF MatrixTyped
    <3>1. cells \in SUBSET Rows /\ changes[i].previous \in SUBSET Rows
      BY <1>0, <3>0 DEF MatrixTyped, Changes
    <3> QED  BY <1>4, <3>1 DEF Succeeds, Fails
  <2>2. [changes[i] EXCEPT !.at = "over", !.previous = {}, !.id = Temp, !.level = 0, !.attr = NoCell]
           \in Changes
    <3>1. changes[i] \in Changes
      BY <1>0 DEF MatrixTyped
    <3>2. 0 \in 0..MaxChanges + 1 /\ 0 \in 0..1 /\ {} \in SUBSET Rows
      BY MatrixAssumption
    <3> QED  BY <3>1, <3>2 DEF Changes, Temp
  <2>3. changes' = [changes EXCEPT ![i] = [changes[i] EXCEPT !.at = "over", !.previous = {},
                                              !.id = Temp, !.level = 0, !.attr = NoCell]]
    BY <1>0, <2>1 DEF Ends, MatrixTyped, Changes
  <2>4. /\ changes' \in Seq(Changes) /\ Len(changes') = Len(changes) /\ DOMAIN changes' = DOMAIN changes
        /\ changes'[i].at = "over"
        /\ \A j \in DOMAIN changes \ {i} : changes'[j] = changes[j]
    BY <1>0, <2>2, <2>3 DEF MatrixTyped, Changes
  <2>5. \A j \in DOMAIN changes' : changes'[j].at = "over" \/ changes'[j].attr \in Attributes
    BY <1>0, <2>4 DEF MatrixTyped, Over
  <2> QED
    BY <1>0, <1>r, <2>1, <2>4, <2>5 DEF Ends, MatrixInv, MatrixTyped, RowsAreOfTheServer, Over
<1>5. CASE Refetch
  BY <1>0, <1>r, <1>5 DEF Refetch, MatrixInv, MatrixTyped, RowsAreOfTheServer, AllOver, Over
<1>6. CASE ServerReads
  <2>1. rowsRead' \in Reads /\ rowsRead' # NotRead /\ rowsRead'.rows = held
    BY <1>0, <1>6 DEF ServerReads, Reads, NotRead, MatrixTyped
  <2> QED  BY <1>0, <1>6, <2>1 DEF ServerReads, MatrixInv, MatrixTyped, RowsAreOfTheServer, AllOver, Over
<1>7. CASE RowsLand
  <2>1. rowsRead.rows \in SUBSET Rows /\ NotRead.at = "none"
    BY <1>0, <1>7 DEF RowsLand, MatrixTyped, Reads, NotRead, Reread
  <2> QED
    BY <1>0, <1>r, <1>7, <2>1 DEF RowsLand, MatrixInv, MatrixTyped, RowsAreOfTheServer, AllOver, Over
<1>8. CASE RowsFail
  <2>1. NotRead.at = "none"
    BY DEF NotRead
  <2> QED
    BY <1>0, <1>r, <1>8, <2>1 DEF RowsFail, MatrixInv, MatrixTyped, RowsAreOfTheServer, AllOver, Over
<1>9. CASE UNCHANGED matrixVars
  BY <1>0, <1>9 DEF matrixVars, MatrixInv, MatrixTyped, RowsAreOfTheServer, AllOver, Over
<1> QED  BY <1>1, <1>2, <1>3, <1>4, <1>5, <1>6, <1>7, <1>8, <1>9 DEF MatrixNext

LEMMA MatrixPromise == MatrixInv => MatrixTellsTheTruth
BY DEF MatrixInv, RowsAreOfTheServer, AllOver, MatrixTellsTheTruth, AtRest

-----------------------------------------------------------------------------
(* The proposals.  What a preview said of a booking still stands where its    *)
(* change or somebody else has not touched it; one preview is asked for, or   *)
(* shown, or applied, and what is applied is what is shown; and a preview     *)
(* that was made without a lost answer is gone.                               *)
IsPatch(patch) == DOMAIN patch \subseteq Fields /\ \A f \in DOMAIN patch : patch[f] \in Value

StandsFor(p, b, others) ==
  \A f \in Fields : IF f \in DOMAIN p.patch THEN p.about[f] = p.patch[f]
                    ELSE f \notin others => b[f] = p.about[f]

MarksItsPatch(p) == \A f \in Fields \ DOMAIN p.patch : p.before[f] = p.about[f]

PreviewsStand ==
  /\ asking.at = "previewing" => StandsFor(asking, booking, foreign.fields) /\ MarksItsPatch(asking)
  /\ active # NoActive => StandsFor(active, booking, foreign.fields) /\ MarksItsPatch(active)
  /\ applying # NoApply => StandsFor(applying, booking, foreign.fields)

OnePreview ==
  /\ asking # NoAsking => active = NoActive /\ applying = NoApply
  /\ applying # NoApply /\ active # NoActive =>
       active.patch = applying.patch /\ active.about = applying.about

OutcomesAgree ==
  /\ outcome.made <= outcome.sent
  /\ applying # NoApply /\ ~applying.done => outcome.made < outcome.sent
  /\ \/ outcome.made = outcome.lost + (IF applying.done THEN 1 ELSE 0)
     \/ /\ outcome.made = outcome.lost + 1
        /\ asking = NoAsking /\ active = NoActive /\ applying = NoApply

Outcomes == [sent : 0..MaxTries, made : 0..MaxTries, lost : 0..MaxTries]
ProposalsTyped ==
  /\ booking \in Bookings /\ foreign \in [fields : SUBSET Fields, times : 0..MaxForeign]
  /\ listed \in BOOLEAN /\ IsPatch(active.patch) /\ IsPatch(applying.patch)
  /\ DOMAIN applying = {"patch", "about", "done"} /\ applying.done \in BOOLEAN
  /\ outcome \in Outcomes
  /\ asking.at = "reading" =>
       /\ asking.suggestion \in Suggestion
       /\ screen = "unmet" => asking.suggestion.type = "swap_resource"
  /\ asking.at = "previewing" => IsPatch(asking.patch)

ProposalsInv == ProposalsTyped /\ PreviewsStand /\ OnePreview /\ OutcomesAgree

LEMMA ProposalsTypes == ProposalsTyped => ProposalsTypeOK
BY DEF ProposalsTyped, ProposalsTypeOK, IsPatch, Outcomes

LEMMA ProposalConstants ==
  /\ IsPatch(NoActive.patch) /\ IsPatch(NoApply.patch) /\ NoApply.done = FALSE
  /\ DOMAIN NoApply = {"patch", "about", "done"}
  /\ NoAsking.at = "idle" /\ NoOutcome \in Outcomes
  /\ NoOutcome.sent = 0 /\ NoOutcome.made = 0 /\ NoOutcome.lost = 0
<1>1. DOMAIN <<>> = {}
  OBVIOUS
<1>2. IsPatch(<<>>)
  BY <1>1 DEF IsPatch
<1>3. 0 \in 0..MaxTries
  BY ProposalsAssumption
<1> QED  BY <1>2, <1>3 DEF NoActive, NoApply, NoAsking, NoOutcome, Outcomes

\* A change of one field, or of all of them, to values that a field may hold.
LEMMA PatchTyped ==
  ASSUME NEW s \in Suggestion, NEW b \in Bookings
  PROVE  /\ IsPatch(patchForSuggestion(s, b))
         /\ s.type = "swap_resource" => IsPatch(proposedAssignment(s))
<1>1. s.type \in {"swap_resource", "reduce_allocation", "interval", "shift"}
      /\ (s.type # "shift" => s.to \in Value)
  BY DEF Suggestion
<1>2. Next1(b.period) \in Value
  BY ProposalsAssumption DEF Next1, Bookings, Fields
<1>3. ASSUME NEW f \in Fields, NEW v \in Value PROVE IsPatch([x \in {f} |-> v])
  BY DEF IsPatch
<1>4. IsPatch(patchForSuggestion(s, b))
  <2>1. CASE s.type = "swap_resource"
    BY <1>1, <1>3, <2>1 DEF patchForSuggestion, Fields
  <2>2. CASE s.type = "reduce_allocation"
    BY <1>1, <1>3, <2>2 DEF patchForSuggestion, Fields
  <2>3. CASE s.type = "interval"
    BY <1>1, <1>3, <2>3 DEF patchForSuggestion, Fields
  <2>4. CASE s.type = "shift"
    BY <1>1, <1>2, <1>3, <2>4 DEF patchForSuggestion, Fields
  <2> QED  BY <1>1, <2>1, <2>2, <2>3, <2>4
<1>5. s.type = "swap_resource" => IsPatch(proposedAssignment(s))
  BY <1>1, ProposalsAssumption DEF proposedAssignment, IsPatch
<1> QED  BY <1>4, <1>5

LEMMA MergedTyped ==
  ASSUME NEW b \in Bookings, NEW patch, IsPatch(patch)
  PROVE  /\ Merged(b, patch) \in Bookings
         /\ \A f \in Fields : Merged(b, patch)[f] = IF f \in DOMAIN patch THEN patch[f] ELSE b[f]
BY DEF Merged, IsPatch, Bookings

\* A preview stands while nobody but its change touches what it speaks of.
LEMMA StillStands ==
  ASSUME NEW p, NEW b, NEW c, NEW others, NEW more, StandsFor(p, b, others), others \subseteq more,
         \A f \in Fields : c[f] = b[f] \/ f \in more \/ f \in DOMAIN p.patch
  PROVE  StandsFor(p, c, more)
BY DEF StandsFor

LEMMA ProposalsStep ==
  ASSUME ProposalsInv, [ProposalsNext]_proposalVars PROVE ProposalsInv'
<1>0. ProposalsTyped /\ PreviewsStand /\ OnePreview /\ OutcomesAgree
  BY DEF ProposalsInv
<1>n. /\ outcome.sent \in 0..MaxTries /\ outcome.made \in 0..MaxTries /\ outcome.lost \in 0..MaxTries
      /\ outcome.sent \in Int /\ outcome.made \in Int /\ outcome.lost \in Int /\ MaxTries \in Nat
  BY <1>0, ProposalsAssumption DEF ProposalsTyped, Outcomes
<1>1. ASSUME NEW s \in Suggestion, PressPreview(s) PROVE ProposalsInv'
  <2>1. asking'.at = "reading" /\ asking'.suggestion = s
    BY <1>1 DEF PressPreview
  <2> QED
    BY <1>0, <1>1, <2>1, ProposalConstants DEF PressPreview, ProposalsInv, ProposalsTyped,
       PreviewsStand, OnePreview, OutcomesAgree
<1>2. CASE ReadAssignment
  <2> DEFINE patch == IF screen = "unmet" THEN proposedAssignment(asking.suggestion)
                      ELSE patchForSuggestion(asking.suggestion, booking)
  <2>1. asking.at = "reading" /\ asking # NoAsking
    BY <1>2, ProposalConstants DEF ReadAssignment
  <2>2. IsPatch(patch)
    BY <1>0, <2>1, PatchTyped DEF ProposalsTyped
  <2>3. asking' = [at |-> "previewing", patch |-> patch, before |-> booking,
                   about |-> Merged(booking, patch)]
    BY <1>2 DEF ReadAssignment, previewPayloadForPatch
  <2> HIDE DEF patch
  <2>4. asking'.at = "previewing" /\ asking'.patch = patch /\ asking'.before = booking
        /\ asking'.about = Merged(booking, patch)
    BY <2>3
  <2>5. StandsFor(asking', booking, {}) /\ MarksItsPatch(asking')
    BY <1>0, <2>2, <2>4, MergedTyped DEF StandsFor, MarksItsPatch, ProposalsTyped
  <2>6. foreign' \in [fields : SUBSET Fields, times : 0..MaxForeign] /\ foreign'.fields = {}
    BY <1>0, <1>2 DEF ReadAssignment, ProposalsTyped
  <2>7. active = NoActive /\ applying = NoApply
    BY <1>0, <2>1 DEF OnePreview
  <2>8. ProposalsTyped'
    BY <1>0, <1>2, <2>2, <2>4, <2>6 DEF ReadAssignment, ProposalsTyped
  <2>9. PreviewsStand' /\ OnePreview'
    BY <1>2, <2>5, <2>6, <2>7 DEF ReadAssignment, PreviewsStand, OnePreview
  <2>10. OutcomesAgree'
    BY <1>0, <1>2, <2>1 DEF ReadAssignment, OutcomesAgree
  <2> QED  BY <2>8, <2>9, <2>10 DEF ProposalsInv
<1>3. CASE PreviewAnswers
  <2>1. asking.at = "previewing" /\ asking # NoAsking
    BY <1>3, ProposalConstants DEF PreviewAnswers
  <2>2. active'.patch = asking.patch /\ active'.before = asking.before /\ active'.about = asking.about
        /\ asking' = NoAsking /\ applying = NoApply
    BY <1>0, <1>3, <2>1 DEF PreviewAnswers, OnePreview
  <2>3. StandsFor(active', booking, foreign.fields) /\ MarksItsPatch(active')
    BY <1>0, <2>1, <2>2 DEF PreviewsStand, StandsFor, MarksItsPatch
  <2> QED
    BY <1>0, <1>3, <2>1, <2>2, <2>3, ProposalConstants DEF PreviewAnswers, ProposalsInv,
       ProposalsTyped, PreviewsStand, OnePreview, OutcomesAgree
<1>4. CASE PreviewFails
  BY <1>0, <1>4, ProposalConstants DEF PreviewFails, ProposalsInv, ProposalsTyped, PreviewsStand,
     OnePreview, OutcomesAgree
<1>5. CASE ClosePreview
  BY <1>0, <1>5, ProposalConstants DEF ClosePreview, ProposalsInv, ProposalsTyped, PreviewsStand,
     OnePreview, OutcomesAgree
<1>6. CASE PressApply
  <2>1. active # NoActive /\ applying = NoApply /\ asking = NoAsking
    BY <1>0, <1>6 DEF PressApply, OnDisplay, OnePreview
  <2>2. applying'.patch = active.patch /\ applying'.about = active.about /\ applying'.done = FALSE
    BY <1>6 DEF PressApply
  <2>3. StandsFor(applying', booking, foreign.fields)
    BY <1>0, <2>1, <2>2 DEF PreviewsStand, StandsFor
  <2>4. outcome' \in Outcomes /\ outcome'.sent = outcome.sent + 1 /\ outcome'.made = outcome.made
        /\ outcome'.lost = outcome.lost
    BY <1>0, <1>6, <1>n DEF PressApply, ProposalsTyped, Outcomes
  <2>5. ProposalsTyped'
    BY <1>0, <1>6, <2>2, <2>4 DEF PressApply, ProposalsTyped
  <2>6. PreviewsStand' /\ OnePreview'
    BY <1>0, <1>6, <2>1, <2>2, <2>3 DEF PressApply, PreviewsStand, OnePreview
  <2>7. OutcomesAgree'
    BY <1>0, <1>n, <2>1, <2>2, <2>4, ProposalConstants DEF OutcomesAgree
  <2> QED  BY <2>5, <2>6, <2>7 DEF ProposalsInv
<1>7. CASE ServerApplies
  <2>1. /\ applying # NoApply /\ ~applying.done /\ asking = NoAsking /\ UNCHANGED <<asking, active, foreign>>
        /\ booking' = Merged(booking, applying.patch)
    BY <1>0, <1>7 DEF ServerApplies, OnePreview
  <2>2. applying'.patch = applying.patch /\ applying'.about = applying.about /\ applying'.done = TRUE
    <3>1. DOMAIN applying = {"patch", "about", "done"}
      BY <1>0 DEF ProposalsTyped
    <3> QED  BY <1>7, <3>1 DEF ServerApplies
  <2>3. booking' \in Bookings /\ \A f \in Fields : booking'[f] = booking[f] \/ f \in DOMAIN applying.patch
    BY <1>0, <2>1, MergedTyped DEF ProposalsTyped
  <2>4. StandsFor(applying', booking', foreign'.fields)
    <3>1. StandsFor(applying, booking', foreign'.fields)
      BY <1>0, <2>1, <2>3, StillStands DEF PreviewsStand
    <3> QED  BY <2>2, <3>1 DEF StandsFor
  <2>5. active' # NoActive => StandsFor(active', booking', foreign'.fields) /\ MarksItsPatch(active')
    BY <1>0, <2>1, <2>3, StillStands DEF PreviewsStand, OnePreview
  <2>6. outcome.made < outcome.sent
    BY <1>0, <2>1 DEF OutcomesAgree
  <2>7. outcome' \in Outcomes /\ outcome'.sent = outcome.sent /\ outcome'.made = outcome.made + 1
        /\ outcome'.lost = outcome.lost
    BY <1>0, <1>7, <1>n, <2>6 DEF ServerApplies, ProposalsTyped, Outcomes
  <2>8. ProposalsTyped'
    BY <1>0, <1>7, <2>1, <2>2, <2>3, <2>7 DEF ServerApplies, ProposalsTyped
  <2>9. PreviewsStand' /\ OnePreview'
    BY <1>0, <2>1, <2>2, <2>4, <2>5, ProposalConstants DEF PreviewsStand, OnePreview
  <2>10. OutcomesAgree'
    BY <1>0, <1>n, <2>1, <2>2, <2>6, <2>7 DEF OutcomesAgree
  <2> QED  BY <2>8, <2>9, <2>10 DEF ProposalsInv
<1>8. CASE ApplyLands
  <2>1. applying.done /\ applying # NoApply /\ asking = NoAsking
    BY <1>0, <1>8, ProposalConstants DEF ApplyLands, OnePreview
  <2>2. outcome.made = outcome.lost + 1
    BY <1>0, <2>1 DEF OutcomesAgree
  <2>3. listed' \in BOOLEAN
    BY <1>0, <1>8 DEF ApplyLands, ProposalsTyped
  <2> QED
    BY <1>0, <1>8, <2>1, <2>2, <2>3, ProposalConstants DEF ApplyLands, ProposalsInv, ProposalsTyped,
       PreviewsStand, OnePreview, OutcomesAgree
<1>9. CASE ApplyFails
  <2>0. applying # NoApply /\ applying' = NoApply /\ asking = NoAsking
    BY <1>0, <1>9 DEF ApplyFails, OnePreview
  <2>1. outcome.made = outcome.lost + (IF applying.done THEN 1 ELSE 0)
    BY <1>0, <2>0 DEF OutcomesAgree
  <2>2. outcome' \in Outcomes /\ outcome'.sent = outcome.sent /\ outcome'.made = outcome.made
        /\ outcome'.lost = outcome.made
    BY <1>0, <1>9, <1>n, <2>1 DEF ApplyFails, ProposalsTyped, Outcomes
  <2>3. ProposalsTyped'
    BY <1>0, <1>9, <2>0, <2>2, ProposalConstants DEF ApplyFails, ProposalsTyped
  <2>4. PreviewsStand' /\ OnePreview'
    BY <1>0, <1>9, <2>0 DEF ApplyFails, PreviewsStand, OnePreview
  <2>5. OutcomesAgree'
    BY <1>0, <1>n, <2>0, <2>2, ProposalConstants DEF OutcomesAgree
  <2> QED  BY <2>3, <2>4, <2>5 DEF ProposalsInv
<1>10. CASE ListRead
  <2>1. \/ active' = NoActive /\ asking' = NoAsking
        \/ UNCHANGED <<active, asking>>
    BY <1>10 DEF ListRead
  <2>2. listed' \in BOOLEAN /\ UNCHANGED <<screen, booking, foreign, applying, outcome>>
    BY <1>10 DEF ListRead
  <2> QED
    BY <1>0, <2>1, <2>2, ProposalConstants DEF ProposalsInv, ProposalsTyped, PreviewsStand,
       OnePreview, OutcomesAgree
<1>11. ASSUME NEW f \in Fields, ForeignChange(f) PROVE ProposalsInv'
  <2>1. booking' \in Bookings /\ \A g \in Fields : booking'[g] = booking[g] \/ g = f
    <3>1. Next1(booking[f]) \in Value
      BY ProposalsAssumption DEF Next1
    <3> QED  BY <1>0, <1>11, <3>1 DEF ForeignChange, ProposalsTyped, Bookings
  <2>2. foreign' \in [fields : SUBSET Fields, times : 0..MaxForeign]
        /\ foreign'.fields = foreign.fields \cup {f}
    BY <1>0, <1>11, ProposalsAssumption DEF ForeignChange, ProposalsTyped
  <2>3. UNCHANGED <<screen, listed, asking, active, applying, outcome>>
    BY <1>11 DEF ForeignChange
  <2>4. ASSUME NEW q, StandsFor(q, booking, foreign.fields)
        PROVE  StandsFor(q, booking', foreign'.fields)
    BY <2>1, <2>2, <2>4, StillStands
  <2>5. PreviewsStand'
    BY <1>0, <2>3, <2>4 DEF PreviewsStand
  <2> QED  BY <1>0, <2>1, <2>2, <2>3, <2>5 DEF ProposalsInv, ProposalsTyped, OnePreview, OutcomesAgree
<1>12. CASE UNCHANGED proposalVars
  BY <1>0, <1>12 DEF proposalVars, ProposalsInv, ProposalsTyped, PreviewsStand, OnePreview, OutcomesAgree
<1> QED
  BY <1>1, <1>2, <1>3, <1>4, <1>5, <1>6, <1>7, <1>8, <1>9, <1>10, <1>11, <1>12 DEF ProposalsNext

LEMMA ProposalsStart == ASSUME ProposalsInit PROVE ProposalsInv
<1>1. booking \in Bookings /\ foreign \in [fields : SUBSET Fields, times : 0..MaxForeign]
  <2>1. 0 \in 0..MaxForeign
    BY ProposalsAssumption
  <2> QED  BY <2>1, ProposalsAssumption DEF ProposalsInit, Bookings
<1>2. asking = NoAsking /\ active = NoActive /\ applying = NoApply /\ outcome = NoOutcome
      /\ listed = TRUE
  BY DEF ProposalsInit
<1>3. ProposalsTyped
  BY <1>1, <1>2, ProposalConstants DEF ProposalsTyped
<1>4. PreviewsStand /\ OnePreview
  BY <1>2, ProposalConstants DEF PreviewsStand, OnePreview
<1>5. OutcomesAgree
  BY <1>2, ProposalConstants DEF OutcomesAgree
<1> QED  BY <1>3, <1>4, <1>5 DEF ProposalsInv

LEMMA ProposalsPromise == ProposalsInv => AppliedOnce /\ ChangeOfThePreview /\ MarksWhatIsSent
<1> SUFFICES ASSUME ProposalsInv PROVE AppliedOnce /\ ChangeOfThePreview /\ MarksWhatIsSent
  OBVIOUS
<1>1. AppliedOnce
  <2>1. outcome.made \in Int /\ outcome.lost \in Int
    BY DEF ProposalsInv, ProposalsTyped, Outcomes
  <2> QED  BY <2>1 DEF ProposalsInv, OutcomesAgree, AppliedOnce
<1>2. ChangeOfThePreview
  BY DEF ProposalsInv, OnePreview, ChangeOfThePreview, OnDisplay
<1>3. MarksWhatIsSent
  BY DEF ProposalsInv, PreviewsStand, MarksItsPatch, MarksWhatIsSent, OnDisplay, Changed
<1> QED  BY <1>1, <1>2, <1>3

\* The server writes what the preview said, but for what others changed meanwhile.
LEMMA WritesThePreview ==
  ASSUME ProposalsInv, [ProposalsNext]_proposalVars, outcome'.made = outcome.made + 1
  PROVE  \A f \in Fields : \/ booking'[f] = applying.about[f]
                           \/ f \in foreign.fields \ DOMAIN applying.patch
<1>0. outcome \in Outcomes /\ outcome.made \in Int /\ 0 <= outcome.made
  BY DEF ProposalsInv, ProposalsTyped, Outcomes
<1>1. ServerApplies
  <2>1. ~(\E s \in Suggestion : PressPreview(s))
    BY <1>0, ProposalConstants DEF PressPreview
  <2>2. ~PressApply /\ ~ApplyFails
    BY <1>0 DEF PressApply, ApplyFails, Outcomes
  <2>3. outcome' # outcome
    BY <1>0
  <2> QED
    BY <2>1, <2>2, <2>3 DEF ProposalsNext, proposalVars, ReadAssignment, PreviewAnswers, PreviewFails,
       ClosePreview, ApplyLands, ListRead, ForeignChange
<1>2. booking' = Merged(booking, applying.patch) /\ StandsFor(applying, booking, foreign.fields)
  BY <1>1 DEF ServerApplies, ProposalsInv, PreviewsStand
<1> QED  BY <1>2, MergedTyped DEF StandsFor, ProposalsInv, ProposalsTyped

-----------------------------------------------------------------------------
(* All parts of the tab, side by side. *)
FormsInv == SessionInv /\ BookingInv /\ ProposalsInv /\ SettingsInv /\ MatrixInv

LEMMA FormsStart == FormsInit => FormsInv
<1> SUFFICES ASSUME FormsInit PROVE FormsInv
  OBVIOUS
<1>1. SessionInit \/ StillSession
  BY DEF FormsInit
<1>2. BookingInit
  BY DEF FormsInit, StillBooking
<1>3. ProposalsInit
  BY DEF FormsInit, StillProposals
<1>4. SettingsInit /\ MatrixInit
  BY DEF FormsInit
<1> QED
  BY <1>1, <1>2, <1>3, <1>4, SessionStart, BookingStart, ProposalsStart, SettingsStart, MatrixStart
     DEF FormsInv

\* A step of the tab is a step of every part, or leaves it alone.
LEMMA FormsSteps ==
  ASSUME [FormsNext]_formVars
  PROVE  /\ [SessionNext]_sessionVars /\ [BookingNext]_bookingVars /\ [ProposalsNext]_proposalVars
         /\ [SettingsNext]_settingsVars /\ [MatrixNext]_matrixVars
<1>1. CASE UNCHANGED formVars
  BY <1>1 DEF formVars
<1>2. CASE FormsNext
  BY <1>2 DEF FormsNext, Only
<1> QED  BY <1>1, <1>2

LEMMA FormsStep == FormsInv /\ [FormsNext]_formVars => FormsInv'
BY FormsSteps, SessionStep, BookingStep, ProposalsStep, SettingsStep, MatrixStep DEF FormsInv

(* The whole tab keeps the invariants of its parts, for any number of         *)
(* requests, logouts, resources, projects, fields, saves and changes.         *)
THEOREM FormsKeepInv == FormsSpec => []FormsInv
BY FormsStart, FormsStep, PTL DEF FormsSpec

(* The variables of every part keep their types.                              *)
THEOREM FormsTyped == FormsSpec => []FormsTypeOK
<1>1. FormsInv => FormsTypeOK
  BY ProposalsTypes, SettingsTypes, MatrixTypes DEF FormsInv, FormsTypeOK, SessionInv, BookingInv,
     ProposalsInv, SettingsInv, MatrixInv
<1> QED  BY <1>1, FormsKeepInv, PTL

(* AssignmentForm, the proposals, SettingsPage and SkillMatrix: what a screen *)
(* sends is what it shows, and what it shows at rest is what the server has.  *)
THEOREM FormsKeepTheirWord == FormsSpec => ScreensSendWhatTheyShow
<1>1. FormsInv => FormBooksWhatItShows /\ MatrixTellsTheTruth
  BY BookingPromise, MatrixPromise DEF FormsInv
<1>2. FormsInv => AppliedOnce /\ ChangeOfThePreview /\ MarksWhatIsSent
  BY ProposalsPromise DEF FormsInv
<1> DEFINE Writes == (outcome'.made = outcome.made + 1) =>
                       \A f \in Fields : \/ booking'[f] = applying.about[f]
                                         \/ f \in foreign.fields \ DOMAIN applying.patch
           Saves == saving = NoSave /\ saving' # NoSave =>
                      /\ "plan" \notin touched /\ seeded => saving'.body.plan = answer.plan
                      /\ "password" \in saving'.sent => "password" \in touched
<1>3. FormsInv /\ [FormsNext]_formVars => [Writes]_proposalVars
  BY FormsSteps, WritesThePreview DEF FormsInv
<1>4. FormsInv /\ [FormsNext]_formVars => [Saves]_settingsVars
  BY FormsSteps, SaveOfTheForm DEF FormsInv
<1> QED
  BY <1>1, <1>2, <1>3, <1>4, FormsKeepInv, PTL DEF FormsSpec, ScreensSendWhatTheyShow,
     ProposalsKeepTheirWord, WritesWhatWasPreviewed, SavesWhatWasReadOrTyped
=============================================================================
