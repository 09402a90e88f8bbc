---------------------------- MODULE AccessProofs ----------------------------
(***************************************************************************)
(* The editor's session, for any tabs, servers, pages and bounds.  A login *)
(* comes back to where it was started because the state of a login is      *)
(* fresh: of all the flow cookies the browser ever holds, only the one the *)
(* tab's own login has set bears its state.                                *)
(***************************************************************************)
EXTENDS Access, Limits, FiniteSetTheorems, TLAPS

TabRecord == [at : {"none", "page", "google", "callback"}, page : Pages \union {"none"}, state : Nat,
              from : Routes \union {NoRoute}, back : Routes \union {NoRoute}, ok : BOOLEAN,
              landed : Routes \union {NoRoute}]
FlowRecord == [state : Nat, back : Routes \union {NoRoute}, until : Nat]
TokenRecord == [who : Editors \union {"none"}, exp : Nat]

\* A loaded page can be named by a returnTo, and every login names one.
SessionTyped ==
    /\ jar \in [flow : FlowRecord, token : TokenRecord]
    /\ (jar.flow # NoFlow => jar.flow.back \in Routes)
    /\ tab \in [Tabs -> TabRecord]
    /\ \A t \in Tabs : tab[t].at = "page" => tab[t].page \in Pages
    /\ stale \subseteq Instances \X Editors
    /\ spent \in [logins : Nat, writes : Nat]
    /\ now \in Nat /\ allowlist \subseteq Editors
    /\ server \in [Instances -> [up : BOOLEAN, list : SUBSET Editors]]

\* States are handed out in order: none is above the number of logins started.
StatesGiven == \A t \in Tabs : tab[t].state <= spent.logins

\* A flow cookie that bears the state of a tab's login leads to where that login began.
CookieOfLogin ==
    \A t \in Tabs : tab[t].at = "google" /\ jar.flow # NoFlow /\ jar.flow.state = tab[t].state
        => jar.flow.back = tab[t].from

\* A callback whose state was right bears the route of its own login.
RightCallback ==
    \A t \in Tabs : tab[t].at = "callback" /\ tab[t].ok => tab[t].back = tab[t].from /\ tab[t].back \in Routes

SessionInv == SessionTyped /\ StatesGiven /\ CookieOfLogin /\ RightCallback /\ ReturnsWhereStarted

-----------------------------------------------------------------------------
(* Lemmas on the ways a tab moves                                          *)

(* A tab may change to any record of its type, alone.                      *)
LEMMA TabMoves ==
    ASSUME SessionTyped, NEW t \in Tabs, NEW e \in TabRecord, tab' = [tab EXCEPT ![t] = e]
    PROVE  /\ tab' \in [Tabs -> TabRecord] /\ tab'[t] = e
           /\ \A u \in Tabs \ {t} : tab'[u] = tab[u]
    BY DEF SessionTyped

LEMMA Tab0Type == Tab0 \in TabRecord /\ Tab0.landed = NoRoute /\ Tab0.state = 0 /\ Tab0.at = "none"
    BY DEF Tab0, TabRecord, NoRoute

LEMMA NoFlowType == NoFlow \in FlowRecord
    BY DEF NoFlow, FlowRecord, NoRoute

(* The flow cookies of a request are the browser's, or none.               *)
LEMMA FlowCookieIs == FlowCookie # NoFlow => FlowCookie = jar.flow
    BY DEF FlowCookie

-----------------------------------------------------------------------------
(* A login that starts has a state of its own, and its cookies lead back.  *)
LEMMA StartKeeps ==
    ASSUME SessionInv, NEW t \in Tabs, NEW route \in Routes, StartLogin(t, route),
           spent'.logins = spent.logins + 1, spent' \in [logins : Nat, writes : Nat],
           UNCHANGED ServerVars
    PROVE  SessionInv'
  <1> DEFINE s == spent.logins + 1
             e == [Tab0 EXCEPT !.at = "google", !.page = tab[t].page, !.state = s, !.from = route]
  <1>1. /\ spent.logins \in Nat /\ now \in Nat /\ s \in Nat /\ now + FlowTtl \in Nat
        /\ tab[t] \in TabRecord
    BY AccessAssumption DEF SessionInv, SessionTyped, AccessAssumption, TabRecord
  <1>2. /\ jar' = [jar EXCEPT !.flow = [state |-> s, back |-> route, until |-> now + FlowTtl]]
        /\ tab' = [tab EXCEPT ![t] = e]
    BY DEF StartLogin
  <1>3. e \in TabRecord /\ e.at = "google" /\ e.state = s /\ e.from = route /\ e.landed = NoRoute
    BY <1>1 DEF Tab0, TabRecord, NoRoute
  <1> HIDE DEF e
  <1>4. tab' \in [Tabs -> TabRecord] /\ tab'[t] = e /\ \A u \in Tabs \ {t} : tab'[u] = tab[u]
    BY <1>2, <1>3, TabMoves DEF SessionInv
  <1>5. jar'.flow = [state |-> s, back |-> route, until |-> now + FlowTtl]
    BY <1>2 DEF SessionInv, SessionTyped
  <1>6. SessionTyped'
    <2>1. [state |-> s, back |-> route, until |-> now + FlowTtl] \in FlowRecord
      BY <1>1 DEF FlowRecord
    <2>2. jar' \in [flow : FlowRecord, token : TokenRecord]
      BY <1>2, <2>1 DEF SessionInv, SessionTyped
    <2>3. \A u \in Tabs : tab'[u].at = "page" => tab'[u].page \in Pages
      BY <1>3, <1>4 DEF SessionInv, SessionTyped
    <2>4. UNCHANGED <<now, allowlist, server, stale>>
      BY DEF ServerVars
    <2> QED BY <1>4, <1>5, <2>2, <2>3, <2>4 DEF SessionInv, SessionTyped
  <1>7. StatesGiven'
    <2>1. \A u \in Tabs : tab[u].state \in Nat /\ tab[u].state <= spent.logins
      BY DEF SessionInv, SessionTyped, StatesGiven, TabRecord
    <2> QED BY <1>1, <1>3, <1>4, <2>1 DEF StatesGiven
  <1>8. CookieOfLogin'
    <2>1. \A u \in Tabs : tab[u].state \in Nat /\ tab[u].state <= spent.logins
      BY DEF SessionInv, SessionTyped, StatesGiven, TabRecord
    <2> QED BY <1>1, <1>3, <1>4, <1>5, <2>1 DEF CookieOfLogin
  <1>9. RightCallback' /\ ReturnsWhereStarted'
    BY <1>3, <1>4 DEF SessionInv, RightCallback, ReturnsWhereStarted
  <1> QED BY <1>6, <1>7, <1>8, <1>9 DEF SessionInv

(* Without a login being started, a tab that is not at the consent screen  *)
(* may change as long as a right callback and a landing lead back.         *)
LEMMA TabKeeps ==
    ASSUME SessionInv, NEW t \in Tabs, NEW e \in TabRecord, tab' = [tab EXCEPT ![t] = e],
           e.at # "google", e.state <= spent.logins, e.at = "page" => e.page \in Pages,
           e.at = "callback" /\ e.ok => e.back = e.from /\ e.back \in Routes,
           e.landed # NoRoute => e.landed = e.from,
           jar' \in [flow : FlowRecord, token : TokenRecord], jar'.flow \in {NoFlow, jar.flow},
           UNCHANGED <<ServerVars, spent>>
    PROVE  SessionInv'
  <1>1. tab' \in [Tabs -> TabRecord] /\ tab'[t] = e /\ \A u \in Tabs \ {t} : tab'[u] = tab[u]
    BY TabMoves DEF SessionInv
  <1>2. UNCHANGED <<now, allowlist, server, stale, spent>>
    BY DEF ServerVars
  <1>3. SessionTyped'
    BY <1>1, <1>2 DEF SessionInv, SessionTyped
  <1>4. StatesGiven'
    BY <1>1, <1>2 DEF SessionInv, StatesGiven
  <1>5. CookieOfLogin'
    BY <1>1 DEF SessionInv, CookieOfLogin
  <1>6. RightCallback' /\ ReturnsWhereStarted'
    BY <1>1 DEF SessionInv, RightCallback, ReturnsWhereStarted
  <1> QED BY <1>3, <1>4, <1>5, <1>6 DEF SessionInv

-----------------------------------------------------------------------------
(* At first no login has begun.                                            *)
LEMMA SessionInit == AccessInit => SessionInv
  <1> SUFFICES ASSUME AccessInit PROVE SessionInv
    OBVIOUS
  <1>1. Tab0 \in TabRecord /\ NoFlow \in FlowRecord /\ NoToken \in TokenRecord
    BY Tab0Type, NoFlowType DEF NoToken, TokenRecord
  <1>2. SessionTyped
    BY <1>1, Tab0Type DEF AccessInit, SessionTyped, NotLoaded
  <1> QED BY <1>2, Tab0Type
          DEF AccessInit, SessionInv, StatesGiven, CookieOfLogin, RightCallback, ReturnsWhereStarted, Tab0

(* Every step keeps the invariant: only a callback whose state was right   *)
(* sets a session, and it lands where its own login began.                 *)
LEMMA SessionStep == SessionInv /\ [AccessNext]_accessVars => SessionInv'
  <1> SUFFICES ASSUME SessionInv, [AccessNext]_accessVars PROVE SessionInv'
    OBVIOUS
  <1>typed. SessionTyped
    BY DEF SessionInv
  <1>1. ASSUME UNCHANGED <<jar, tab, spent>>, now' \in Nat, allowlist' \subseteq Editors,
               server' \in [Instances -> [up : BOOLEAN, list : SUBSET Editors]],
               stale' \subseteq Instances \X Editors
        PROVE  SessionInv'
    BY <1>1 DEF SessionInv, SessionTyped, StatesGiven, CookieOfLogin, RightCallback, ReturnsWhereStarted
  <1>2. CASE TimePasses
    BY <1>1, <1>2, <1>typed DEF TimePasses, SessionTyped
  <1>3. ASSUME NEW i \in Instances, InstanceStarts(i) \/ InstanceStops(i)
        PROVE  SessionInv'
    <2>1. PICK c \in {[up |-> TRUE, list |-> allowlist], NotLoaded} : server' = [server EXCEPT ![i] = c]
      BY <1>3 DEF InstanceStarts, InstanceStops
    <2>2. c \in [up : BOOLEAN, list : SUBSET Editors]
      <3>1. [up |-> TRUE, list |-> allowlist] \in [up : BOOLEAN, list : SUBSET Editors]
        BY <1>typed DEF SessionTyped
      <3>2. NotLoaded \in [up : BOOLEAN, list : SUBSET Editors]
        BY DEF NotLoaded
      <3> QED BY <3>1, <3>2
    <2>3. server' \in [Instances -> [up : BOOLEAN, list : SUBSET Editors]]
      BY <1>typed, <2>1, <2>2 DEF SessionTyped
    <2>4. UNCHANGED <<now, allowlist, jar, tab, spent>> /\ stale' \subseteq stale
      BY <1>3 DEF InstanceStarts, InstanceStops
    <2> QED BY <1>1, <1>typed, <2>3, <2>4 DEF SessionTyped
  <1>4. ASSUME NEW e \in Editors, Revoke(e)
        PROVE  SessionInv'
    <2>1. stale' \subseteq Instances \X Editors
      BY <1>4, <1>typed DEF Revoke, SessionTyped
    <2> QED BY <1>1, <1>4, <1>typed, <2>1 DEF Revoke, SessionTyped
  <1>5. CASE Logout
    <2>1. jar' = [jar EXCEPT !.token = NoToken] /\ UNCHANGED <<ServerVars, tab, spent>>
      BY <1>5 DEF Logout
    <2>2. NoToken \in TokenRecord
      BY DEF NoToken, TokenRecord
    <2>3. jar' \in [flow : FlowRecord, token : TokenRecord] /\ jar'.flow = jar.flow
      BY <1>typed, <2>1, <2>2 DEF SessionTyped
    <2> QED BY <2>1, <2>3 DEF SessionInv, SessionTyped, StatesGiven, CookieOfLogin, RightCallback,
                              ReturnsWhereStarted, ServerVars
  <1>6. ASSUME NEW t \in Tabs, LoginClicked(t)
        PROVE  SessionInv'
    <2>1. <<tab[t].page, "page">> \in Routes
      BY <1>6, <1>typed DEF LoginClicked, SessionTyped, Routes
    <2>2. spent' = [spent EXCEPT !.logins = @ + 1] /\ UNCHANGED ServerVars
      BY <1>6 DEF LoginClicked
    <2>3. spent'.logins = spent.logins + 1 /\ spent' \in [logins : Nat, writes : Nat]
      BY <1>typed, <2>2 DEF SessionTyped
    <2>4. StartLogin(t, <<tab[t].page, "page">>)
      BY <1>6 DEF LoginClicked
    <2> QED BY <2>1, <2>2, <2>3, <2>4, StartKeeps
  <1>7. ASSUME NEW t \in Tabs, CallbackRequest(t)
        PROVE  SessionInv'
    <2> DEFINE right == FlowCookie # NoFlow /\ StateMatches(t)
               e == [tab[t] EXCEPT !.at = "callback", !.back = FlowCookie.back, !.ok = right]
    <2>1. tab[t] \in TabRecord /\ tab[t].at = "google"
      BY <1>7, <1>typed DEF SessionTyped, CallbackRequest
    <2>2. FlowCookie \in FlowRecord /\ right \in BOOLEAN
      BY <1>typed, NoFlowType DEF SessionTyped, FlowCookie
    <2>3. FlowCookie.back \in Routes \union {NoRoute}
      BY <2>2 DEF FlowRecord
    <2>4. tab' = [tab EXCEPT ![t] = e]
      BY <1>7, <1>typed, <2>1 DEF CallbackRequest, SessionTyped, TabRecord
    <2>5. right => FlowCookie.back = tab[t].from /\ FlowCookie.back \in Routes
      BY <2>1, <1>typed, FlowCookieIs DEF StateMatches, SessionInv, CookieOfLogin, SessionTyped
    <2>6. /\ e \in TabRecord /\ e.at = "callback" /\ e.back = FlowCookie.back /\ e.ok = right
          /\ e.from = tab[t].from /\ e.state = tab[t].state /\ e.landed = tab[t].landed
      <3> HIDE DEF right
      <3> QED BY <2>1, <2>2, <2>3 DEF TabRecord
    <2>7. /\ e.state <= spent.logins
          /\ e.at = "callback" /\ e.ok => e.back = e.from /\ e.back \in Routes
          /\ e.landed # NoRoute => e.landed = e.from
      <3> HIDE DEF e
      <3> QED BY <2>5, <2>6 DEF SessionInv, StatesGiven, ReturnsWhereStarted
    <2>8. UNCHANGED <<ServerVars, spent>> /\ jar' = jar
      BY <1>7 DEF CallbackRequest
    <2>9. jar' \in [flow : FlowRecord, token : TokenRecord] /\ jar'.flow \in {NoFlow, jar.flow}
      BY <1>typed, <2>8 DEF SessionTyped
    <2> HIDE DEF e
    <2> QED BY <2>4, <2>6, <2>7, <2>8, <2>9, TabKeeps
  <1>8. ASSUME NEW t \in Tabs, CallbackSucceeds(t)
        PROVE  SessionInv'
    <2> DEFINE e == [Tab0 EXCEPT !.at = "page", !.page = tab[t].back[1],
                                 !.from = tab[t].from, !.landed = tab[t].back]
    <2>1. tab' = [tab EXCEPT ![t] = e] /\ UNCHANGED <<ServerVars, spent>>
      BY <1>8 DEF CallbackSucceeds
    <2>2. tab[t].back = tab[t].from /\ tab[t].back \in Routes
      BY <1>8 DEF CallbackSucceeds, SessionInv, RightCallback
    <2>3. tab[t].back[1] \in Pages
      BY <2>2 DEF Routes
    <2>4. /\ e \in TabRecord /\ e.at = "page" /\ e.page \in Pages /\ e.state = 0
          /\ e.landed = e.from
      BY <2>2, <2>3 DEF Tab0, TabRecord, NoRoute
    <2>5. 0 <= spent.logins
      BY <1>typed DEF SessionTyped
    <2>6. PICK i \in Instances : \E w \in server[i].list :
              jar' = [flow |-> NoFlow, token |-> [who |-> w, exp |-> now + SessionTtl]]
      BY <1>8 DEF CallbackSucceeds
    <2> PICK who \in server[i].list :
            jar' = [flow |-> NoFlow, token |-> [who |-> who, exp |-> now + SessionTtl]]
      BY <2>6
    <2>7. jar' \in [flow : FlowRecord, token : TokenRecord] /\ jar'.flow = NoFlow
      <3>1. now + SessionTtl \in Nat /\ who \in Editors
        BY <1>typed, AccessAssumption DEF SessionTyped, AccessAssumption
      <3> QED BY <3>1, NoFlowType DEF TokenRecord
    <2> HIDE DEF e
    <2> QED BY <2>1, <2>4, <2>5, <2>7, TabKeeps
  <1>9. ASSUME NEW t \in Tabs, CallbackFails(t)
        PROVE  SessionInv'
    <2>1. PICK flow \in {NoFlow, jar.flow} : jar' = [jar EXCEPT !.flow = flow]
      BY <1>9 DEF CallbackFails
    <2>2. tab' = [tab EXCEPT ![t] = Tab0] /\ UNCHANGED <<ServerVars, spent>>
      BY <1>9 DEF CallbackFails
    <2>3. jar' \in [flow : FlowRecord, token : TokenRecord] /\ jar'.flow \in {NoFlow, jar.flow}
      BY <1>typed, <2>1, NoFlowType DEF SessionTyped
    <2>4. 0 <= spent.logins
      BY <1>typed DEF SessionTyped
    <2> QED BY <2>2, <2>3, <2>4, Tab0Type, TabKeeps
  <1>10. ASSUME NEW t \in Tabs, Load(t)
         PROVE  SessionInv'
    <2> PICK p \in Pages : tab' = [tab EXCEPT ![t] = [Tab0 EXCEPT !.at = "page", !.page = p]]
      BY <1>10 DEF Load
    <2> DEFINE e == [Tab0 EXCEPT !.at = "page", !.page = p]
    <2>1. /\ e \in TabRecord /\ e.at = "page" /\ e.page = p /\ e.state = 0 /\ e.landed = NoRoute
          /\ tab' = [tab EXCEPT ![t] = e]
      BY DEF Tab0, TabRecord, NoRoute
    <2>2. UNCHANGED <<ServerVars, jar, spent>>
      BY <1>10 DEF Load
    <2>3. 0 <= spent.logins
      BY <1>typed DEF SessionTyped
    <2>4. jar' \in [flow : FlowRecord, token : TokenRecord] /\ jar'.flow = jar.flow
      BY <1>typed, <2>2 DEF SessionTyped
    <2> HIDE DEF e
    <2> QED BY <2>1, <2>2, <2>3, <2>4, TabKeeps
  <1>11. ASSUME NEW t \in Tabs, Write(t)
         PROVE  SessionInv'
    <2> PICK i \in Instances :
          IF VerifyEditorJWT(jar.token, i)
             THEN /\ applied' = [who |-> jar.token.who, on |-> i, no |-> spent.writes + 1]
                  /\ spent' = [spent EXCEPT !.writes = @ + 1] /\ UNCHANGED <<jar, tab>>
             ELSE /\ StartLogin(t, <<tab[t].page, "api">>)
                  /\ spent' = [logins |-> spent.logins + 1, writes |-> spent.writes + 1]
                  /\ UNCHANGED applied
      BY <1>11 DEF Write
    <2>1. UNCHANGED ServerVars /\ tab[t].page \in Pages
      BY <1>11, <1>typed DEF Write, SessionTyped
    <2>2. CASE VerifyEditorJWT(jar.token, i)
      <3>1. /\ spent' = [spent EXCEPT !.writes = @ + 1]
            /\ UNCHANGED <<now, allowlist, server, stale, jar, tab>>
        BY <2>1, <2>2 DEF ServerVars
      <3>2. spent' \in [logins : Nat, writes : Nat] /\ spent'.logins = spent.logins
        BY <3>1, <1>typed DEF SessionTyped
      <3> QED BY <3>1, <3>2 DEF SessionInv, SessionTyped, StatesGiven, CookieOfLogin, RightCallback,
                                ReturnsWhereStarted
    <2>3. CASE ~VerifyEditorJWT(jar.token, i)
      <3>1. /\ StartLogin(t, <<tab[t].page, "api">>)
            /\ spent' = [logins |-> spent.logins + 1, writes |-> spent.writes + 1]
        BY <2>3
      <3>2. <<tab[t].page, "api">> \in Routes
        BY <2>1 DEF Routes
      <3>3. spent'.logins = spent.logins + 1 /\ spent' \in [logins : Nat, writes : Nat]
        BY <1>typed, <2>1, <3>1 DEF SessionTyped
      <3> QED BY <2>1, <3>1, <3>2, <3>3, StartKeeps
    <2> QED BY <2>2, <2>3
  <1>12. CASE UNCHANGED accessVars
    BY <1>1, <1>12, <1>typed DEF accessVars, SessionTyped
  <1> QED BY <1>2, <1>3, <1>4, <1>5, <1>6, <1>7, <1>8, <1>9, <1>10, <1>11, <1>12 DEF AccessNext

LEMMA SessionHolds == AccessSpec => []SessionInv
  BY SessionInit, SessionStep, PTL DEF AccessSpec

-----------------------------------------------------------------------------
(* A login that succeeds comes back to where its own tab had started it,   *)
(* for any number of tabs whose logins overlap and whose cookies replace   *)
(* each other's (the start and callback routes of the login).              *)
THEOREM LoginReturns == AccessSpec => []ReturnsWhereStarted
  <1>1. SessionInv => ReturnsWhereStarted
    BY DEF SessionInv
  <1> QED BY <1>1, SessionHolds, PTL

\* What an instance has cached is out of date only for the editors taken off since it runs.
ListsKnown ==
    \A i \in Instances, e \in Editors :
        server[i].up /\ e \in server[i].list => e \in allowlist \/ <<i, e>> \in stale

(* Every step keeps that: an instance that starts reads the list of the    *)
(* moment, and a removal marks all the instances that run.                 *)
LEMMA ListsStep == SessionInv /\ ListsKnown /\ [AccessNext]_accessVars => ListsKnown'
  <1> SUFFICES ASSUME SessionInv, ListsKnown, [AccessNext]_accessVars PROVE ListsKnown'
    OBVIOUS
  <1>typed. server \in [Instances -> [up : BOOLEAN, list : SUBSET Editors]] /\ stale \subseteq Instances \X Editors
    BY DEF SessionInv, SessionTyped
  <1>1. ASSUME UNCHANGED <<allowlist, server, stale>> PROVE ListsKnown'
    BY <1>1 DEF ListsKnown
  <1>2. ASSUME NEW i \in Instances, InstanceStarts(i) PROVE ListsKnown'
    <2>1. /\ server' = [server EXCEPT ![i] = [up |-> TRUE, list |-> allowlist]]
          /\ allowlist' = allowlist /\ stale' = stale
      BY <1>2 DEF InstanceStarts
    <2>2. server'[i].list = allowlist /\ \A j \in Instances \ {i} : server'[j] = server[j]
      BY <1>typed, <2>1
    <2> QED BY <2>1, <2>2 DEF ListsKnown
  <1>3. ASSUME NEW i \in Instances, InstanceStops(i) PROVE ListsKnown'
    <2>1. /\ server' = [server EXCEPT ![i] = NotLoaded] /\ stale' = stale \ ({i} \X Editors)
          /\ allowlist' = allowlist
      BY <1>3 DEF InstanceStops
    <2>2. server'[i].list = {} /\ \A j \in Instances \ {i} : server'[j] = server[j]
      BY <1>typed, <2>1 DEF NotLoaded
    <2>3. \A j \in Instances \ {i}, e \in Editors : <<j, e>> \in stale => <<j, e>> \in stale'
      BY <2>1
    <2> QED BY <2>1, <2>2, <2>3 DEF ListsKnown
  <1>4. ASSUME NEW e \in Editors, Revoke(e) PROVE ListsKnown'
    <2>1. /\ allowlist' = allowlist \ {e} /\ server' = server
          /\ stale' = stale \union ({i \in Instances : server[i].up} \X {e})
      BY <1>4 DEF Revoke
    <2>2. ASSUME NEW i \in Instances, NEW d \in Editors, server[i].up, d \in server[i].list
          PROVE  d \in allowlist' \/ <<i, d>> \in stale'
      <3>1. CASE d = e
        BY <2>1, <2>2, <3>1
      <3>2. CASE d # e
        BY <2>1, <2>2, <3>2 DEF ListsKnown
      <3> QED BY <3>1, <3>2
    <2> QED BY <2>1, <2>2 DEF ListsKnown
  <1> QED BY <1>1, <1>2, <1>3, <1>4 DEF AccessNext, TimePasses, Logout, LoginClicked, CallbackRequest,
             CallbackSucceeds, CallbackFails, Load, Write, ServerVars, accessVars

(* An editor taken off the list writes no more, but through the instances  *)
(* that have run since before: one that starts later refuses the token,    *)
(* whoever signed it (verifyEditorJWT over the cached getAuthConfig).      *)
THEOREM RevocationHolds == AccessSpec => RevocationTakesHold
  <1> DEFINE A == applied' # applied =>
                      applied'.who \in allowlist \/ <<applied'.on, applied'.who>> \in stale
  <1>1. AccessInit => ListsKnown
    BY DEF AccessInit, ListsKnown
  <1>2. ASSUME SessionInv, ListsKnown, [AccessNext]_accessVars PROVE [A]_accessVars
    <2>1. ASSUME NEW t \in Tabs, Write(t) PROVE A
      <3> SUFFICES ASSUME applied' # applied PROVE A
        OBVIOUS
      <3>1. PICK i \in Instances :
              /\ server[i].up /\ VerifyEditorJWT(jar.token, i)
              /\ applied' = [who |-> jar.token.who, on |-> i, no |-> spent.writes + 1]
        BY <2>1 DEF Write
      <3>2. applied'.who \in server[i].list /\ applied'.on = i
        BY <3>1 DEF VerifyEditorJWT
      <3>3. server[i].list \subseteq Editors
        BY <1>2 DEF SessionInv, SessionTyped
      <3> QED BY <1>2, <3>1, <3>2, <3>3 DEF ListsKnown
    <2>2. CASE UNCHANGED applied
      BY <2>2
    <2> QED BY <1>2, <2>1, <2>2 DEF AccessNext, TimePasses, Logout, InstanceStarts, InstanceStops, Revoke,
               LoginClicked, CallbackRequest, CallbackSucceeds, CallbackFails, Load, accessVars
  <1> QED BY <1>1, <1>2, ListsStep, SessionHolds, PTL DEF AccessSpec, RevocationTakesHold

-----------------------------------------------------------------------------
(* Types: the clock and the logins stay within their bounds, the state of  *)
(* a flow cookie is the number of a login, and a token is an editor's.     *)
AccessBounds ==
    /\ now <= MaxNow /\ spent.logins <= MaxLogins /\ jar.flow.state <= MaxLogins
    /\ jar.token = NoToken \/ jar.token.who \in Editors

LEMMA AccessBoundsStep == SessionInv /\ AccessBounds /\ [AccessNext]_accessVars => AccessBounds'
  <1> SUFFICES ASSUME SessionInv, AccessBounds, [AccessNext]_accessVars PROVE AccessBounds' OBVIOUS
  <1> USE DEF AccessBounds
  <1>1. /\ jar \in [flow : FlowRecord, token : TokenRecord] /\ spent \in [logins : Nat, writes : Nat]
        /\ now \in Nat /\ MaxNow \in Nat /\ MaxLogins \in Nat
    BY AccessAssumption DEF SessionInv, SessionTyped, AccessAssumption
  <1>2. NoFlow.state <= MaxLogins BY <1>1 DEF NoFlow
  <1>3. ASSUME NEW t, NEW route, StartLogin(t, route)
        PROVE  /\ spent.logins + 1 <= MaxLogins /\ jar'.flow.state = spent.logins + 1
               /\ jar'.token = jar.token
    BY <1>1, <1>3 DEF StartLogin
  <1>4. CASE TimePasses BY <1>1, <1>4 DEF TimePasses
  <1>5. CASE Logout BY <1>1, <1>5 DEF Logout, ServerVars
  <1>6. ASSUME NEW i \in Instances, InstanceStarts(i) \/ InstanceStops(i) PROVE AccessBounds'
    BY <1>6 DEF InstanceStarts, InstanceStops
  <1>7. ASSUME NEW e \in Editors, Revoke(e) PROVE AccessBounds' BY <1>7 DEF Revoke
  <1>8. ASSUME NEW t \in Tabs, LoginClicked(t) PROVE AccessBounds'
    BY <1>1, <1>3, <1>8 DEF LoginClicked, ServerVars
  <1>9. ASSUME NEW t \in Tabs, CallbackRequest(t) \/ Load(t) PROVE AccessBounds'
    BY <1>9 DEF CallbackRequest, Load, ServerVars
  <1>10. ASSUME NEW t \in Tabs, CallbackSucceeds(t) PROVE AccessBounds'
    <2>1. PICK i \in Instances : \E e \in server[i].list :
             jar' = [flow |-> NoFlow, token |-> [who |-> e, exp |-> now + SessionTtl]]
      BY <1>10 DEF CallbackSucceeds
    <2>2. server[i].list \subseteq Editors BY DEF SessionInv, SessionTyped
    <2>3. jar'.flow = NoFlow /\ jar'.token.who \in Editors BY <2>1, <2>2
    <2> QED BY <1>2, <1>10, <2>3 DEF CallbackSucceeds, ServerVars
  <1>11. ASSUME NEW t \in Tabs, CallbackFails(t) PROVE AccessBounds'
    BY <1>1, <1>2, <1>11 DEF CallbackFails, ServerVars
  <1>12. ASSUME NEW t \in Tabs, Write(t) PROVE AccessBounds'
    BY <1>1, <1>3, <1>12 DEF Write, ServerVars
  <1>13. CASE UNCHANGED accessVars BY <1>13 DEF accessVars
  <1> QED BY <1>4, <1>5, <1>6, <1>7, <1>8, <1>9, <1>10, <1>11, <1>12, <1>13 DEF AccessNext

LEMMA AccessTypes == AccessSpec => []AccessTypeOK
  <1>1. AccessInit => AccessBounds BY AccessAssumption DEF AccessInit, AccessBounds, NoFlow, AccessAssumption
  <1>2. SessionInv /\ AccessBounds => AccessTypeOK
    <2> SUFFICES ASSUME SessionInv, AccessBounds PROVE AccessTypeOK OBVIOUS
    <2>1. SessionTyped /\ MaxNow \in Nat /\ MaxLogins \in Nat
      BY AccessAssumption DEF SessionInv, AccessAssumption
    <2>2. now \in 0..MaxNow /\ jar.flow.state \in 0..MaxLogins
      BY <2>1 DEF SessionTyped, AccessBounds, FlowRecord
    <2>3. allowlist \subseteq Editors /\ \A i \in Instances : server[i].list \subseteq Editors
      BY <2>1 DEF SessionTyped
    <2>4. stale \subseteq Instances \X Editors /\ \A t \in Tabs : tab[t].landed \in Routes \union {NoRoute}
      BY <2>1 DEF SessionTyped, TabRecord
    <2>5. jar.token = NoToken \/ jar.token.who \in Editors
      BY DEF AccessBounds
    <2> QED BY <2>2, <2>3, <2>4, <2>5 DEF AccessTypeOK
  <1> QED BY <1>1, <1>2, AccessBoundsStep, SessionHolds, PTL DEF AccessSpec

-----------------------------------------------------------------------------
(***************************************************************************)
(* The request counter holds its bound for any addresses, requests, window *)
(* lengths and limits.  The argument: a counter may disappear only when    *)
(* its window is over for longer than the grace, and by then no request of *)
(* that window is alive; until then it counts every request let through.   *)
(* The budget of agent runs holds for any processes and any length of a    *)
(* day: the runs of today are the slots that the processes have used up,   *)
(* and each of them has as many as the limit.                              *)
(***************************************************************************)
\* What is left of the bounds takes no part in the argument.
RateTypeOK ==
    /\ tick \in Nat
    /\ hits \in [Ips -> [Windows -> [count : Nat, ttl : Nat]]]
    /\ passed \in [Ips -> [Windows -> Nat]]
    /\ req \in [Requests -> [pc : {"idle", "sent"}, ip : Ips \union {"none"}, at : Nat, window : Windows]]
    /\ \A r \in Requests : req[r].pc = "sent" => req[r].ip \in Ips

\* The end of the grace of a window: no counter expires before.
Closing(w) == w * Window + Window + Grace

\* A request under way belongs to the window of its arrival and is not older than the
\* timeout of the Lambda.
InTime ==
    \A r \in Requests : req[r].pc = "sent" =>
        InWindow(req[r].at, req[r].window) /\ tick <= req[r].at + Latency

\* A counter lives to the end of the grace and has counted whatever was let through.
Counting ==
    \A i \in Ips, w \in Windows : hits[i][w].count > 0 =>
        hits[i][w].ttl >= Closing(w) /\ passed[i][w] <= hits[i][w].count

\* Without a counter nothing was let through yet, or the window is over.
NotCounting ==
    \A i \in Ips, w \in Windows : hits[i][w].count = 0 =>
        passed[i][w] = 0 \/ tick > Closing(w)

RateInv == RateTypeOK /\ InTime /\ Counting /\ NotCounting /\ RateWindowBound

-----------------------------------------------------------------------------
(* The length of a window times its number is a number.                    *)
LEMMA ClosingNat ==
    ASSUME NEW w \in Windows
    PROVE  w * Window \in Nat /\ Closing(w) \in Nat
  <1>1. w \in Nat /\ Window \in Nat /\ Grace \in Nat
    BY LimitsAssumption DEF LimitsAssumption, Windows
  <1>2. w * Window \in Nat
    BY <1>1
  <1> QED BY <1>1, <1>2 DEF Closing

(* A request under way finds its window's grace not yet over.              *)
LEMMA WindowOpen ==
    ASSUME RateTypeOK, InTime, NEW r \in Requests, req[r].pc = "sent"
    PROVE  tick <= Closing(req[r].window)
  <1> DEFINE w == req[r].window
  <1>1. w \in Windows /\ req[r].at \in Nat /\ tick \in Nat
    BY DEF RateTypeOK
  <1>2. w * Window \in Nat /\ Closing(w) \in Nat
    BY <1>1, ClosingNat
  <1>3. tick <= req[r].at + Latency /\ req[r].at < w * Window + Window
    BY DEF InTime, InWindow
  <1>4. Latency <= Grace /\ Latency \in Nat /\ Grace \in Nat /\ Window \in Nat
    BY LimitsAssumption DEF LimitsAssumption
  <1>5. tick <= w * Window + Window + Grace
    <2> HIDE DEF w
    <2> QED BY <1>1, <1>2, <1>3, <1>4
  <1> QED BY <1>5 DEF Closing

(* The counter of a request under way after one more count: alive long     *)
(* enough, and above what was let through.                                 *)
LEMMA CountedItem ==
    ASSUME RateInv, NEW r \in Requests, req[r].pc = "sent"
    PROVE  LET i == req[r].ip
               w == req[r].window
           IN  /\ i \in Ips /\ w \in Windows
               /\ ItemOf(r) \in [count : Nat, ttl : Nat]
               /\ ItemOf(r).count > 0
               /\ ItemOf(r).ttl >= Closing(w)
               /\ passed[i][w] < ItemOf(r).count
  <1> DEFINE i == req[r].ip
             w == req[r].window
             item == hits[i][w]
  <1>1. i \in Ips /\ w \in Windows /\ req[r].at \in Nat /\ tick \in Nat
    BY DEF RateInv, RateTypeOK
  <1>2. item \in [count : Nat, ttl : Nat] /\ passed[i][w] \in Nat
    BY <1>1 DEF RateInv, RateTypeOK
  <1>3. w * Window \in Nat /\ Closing(w) \in Nat /\ Window \in Nat /\ Grace \in Nat
    BY <1>1, ClosingNat, LimitsAssumption DEF LimitsAssumption
  <1>4. Ttl(r) \in Nat /\ Ttl(r) >= Closing(w)
    <2>1. w * Window <= req[r].at
      BY DEF RateInv, InTime, InWindow
    <2>2. req[r].at + Window + Grace >= w * Window + Window + Grace
      <3> HIDE DEF w
      <3> QED BY <1>1, <1>3, <2>1
    <2> QED BY <1>1, <1>3, <2>2 DEF Ttl, Closing
  <1>5. ItemOf(r) = [count |-> item.count + 1,
                     ttl |-> IF item.count = 0 THEN Ttl(r) ELSE item.ttl]
    BY DEF ItemOf
  <1>a. item.count \in Nat /\ item.ttl \in Nat /\ Ttl(r) \in Nat /\ Closing(w) \in Nat
    BY <1>2, <1>3, <1>4
  <1>b. /\ ItemOf(r).count = item.count + 1
        /\ item.count = 0 => ItemOf(r).ttl = Ttl(r)
        /\ item.count # 0 => ItemOf(r).ttl = item.ttl
    <2> HIDE DEF item
    <2> QED BY ONLY <1>5
  <1>c. ItemOf(r) = [count |-> item.count + 1, ttl |-> ItemOf(r).ttl] /\ ItemOf(r).ttl \in {Ttl(r), item.ttl}
    <2> HIDE DEF item
    <2> QED BY ONLY <1>5
  <1>6. ItemOf(r) \in [count : Nat, ttl : Nat] /\ ItemOf(r).count = item.count + 1
    <2> HIDE DEF item, w
    <2> QED BY ONLY <1>a, <1>b, <1>c
  <1>7. ItemOf(r).ttl >= Closing(w)
    <2>1. item.count > 0 => item.ttl >= Closing(w)
      BY <1>1 DEF RateInv, Counting
    <2>2. item.count = 0 \/ item.count > 0
      BY <1>2
    <2> HIDE DEF item, w
    <2> QED BY <1>4, <1>b, <2>1, <2>2
  <1>8. passed[i][w] <= item.count
    <2>1. CASE item.count > 0
      BY <1>1, <2>1 DEF RateInv, Counting
    <2>2. CASE item.count = 0
      <3>1. tick <= Closing(w)
        BY WindowOpen DEF RateInv
      <3>2. passed[i][w] = 0
        BY <1>1, <1>3, <2>2, <3>1 DEF RateInv, NotCounting
      <3> QED BY <2>2, <3>2
    <2> QED BY <1>2, <2>1, <2>2
  <1>9. ItemOf(r).count > 0 /\ passed[i][w] < ItemOf(r).count
    <2>1. passed[i][w] \in Nat
      BY <1>2
    <2> HIDE DEF i, w, item
    <2> QED BY ONLY <1>a, <1>b, <1>8, <2>1
  <1> QED BY <1>1, <1>6, <1>7, <1>9

-----------------------------------------------------------------------------
(* Another count of a request: the counters keep the invariant, with what  *)
(* was let through raised by one if the verdict says so.                   *)
LEMMA CountKeeps ==
    ASSUME RateInv, NEW r \in Requests, req[r].pc = "sent", Counted(r),
           \/ passed' = passed
           \/ /\ ItemOf(r).count <= MaxRequests
              /\ passed' = [passed EXCEPT ![req[r].ip][req[r].window] = @ + 1],
           tick' = tick
    PROVE  /\ hits' \in [Ips -> [Windows -> [count : Nat, ttl : Nat]]]
           /\ passed' \in [Ips -> [Windows -> Nat]]
           /\ Counting' /\ NotCounting' /\ RateWindowBound'
  <1> DEFINE i == req[r].ip
             w == req[r].window
  <1>1. /\ i \in Ips /\ w \in Windows
        /\ ItemOf(r) \in [count : Nat, ttl : Nat]
        /\ ItemOf(r).count > 0
        /\ ItemOf(r).ttl >= Closing(w)
        /\ passed[i][w] < ItemOf(r).count
    BY CountedItem
  <1>2. hits \in [Ips -> [Windows -> [count : Nat, ttl : Nat]]] /\ passed \in [Ips -> [Windows -> Nat]]
    BY DEF RateInv, RateTypeOK
  <1>3. hits' = [hits EXCEPT ![i][w] = ItemOf(r)]
    BY DEF Counted
  <1>4. hits' \in [Ips -> [Windows -> [count : Nat, ttl : Nat]]]
    BY <1>1, <1>2, <1>3
  <1>5. passed' \in [Ips -> [Windows -> Nat]]
    <2>1. passed' = passed \/ passed' = [passed EXCEPT ![i][w] = @ + 1]
      OBVIOUS
    <2> HIDE DEF i, w
    <2>2. passed[i][w] + 1 \in Nat /\ passed[i] \in [Windows -> Nat]
      BY <1>1, <1>2
    <2>3. [passed[i] EXCEPT ![w] = passed[i][w] + 1] \in [Windows -> Nat]
      BY <1>1, <2>2
    <2>4. [passed EXCEPT ![i] = [passed[i] EXCEPT ![w] = passed[i][w] + 1]] \in [Ips -> [Windows -> Nat]]
      BY <1>1, <1>2, <2>3
    <2> QED BY <1>2, <2>1, <2>4
  <1>6. ASSUME NEW j \in Ips, NEW v \in Windows
        PROVE  \/ j = i /\ v = w
               \/ hits'[j][v] = hits[j][v] /\ passed'[j][v] = passed[j][v]
    <2>1. passed' = passed \/ passed' = [passed EXCEPT ![i][w] = @ + 1]
      OBVIOUS
    <2> HIDE DEF i, w
    <2>2. (j = i /\ v = w) \/ hits'[j][v] = hits[j][v]
      BY <1>1, <1>2, <1>3
    <2>3. (j = i /\ v = w) \/ passed'[j][v] = passed[j][v]
      BY <1>1, <1>2, <2>1
    <2> QED BY <2>2, <2>3
  <1>7. hits'[i][w] = ItemOf(r)
    BY <1>1, <1>2, <1>3
  <1>8. passed'[i][w] = passed[i][w] \/ (passed'[i][w] = passed[i][w] + 1 /\ ItemOf(r).count <= MaxRequests)
    BY <1>1, <1>2
  <1>9. /\ passed[i][w] \in Nat /\ passed'[i][w] \in Nat /\ ItemOf(r).count \in Nat /\ MaxRequests \in Nat
        /\ passed[i][w] <= MaxRequests
    BY <1>1, <1>2, <1>5, LimitsAssumption DEF LimitsAssumption, RateInv, RateWindowBound
  <1>10. Counting'
    <2> SUFFICES ASSUME NEW j \in Ips, NEW v \in Windows, hits'[j][v].count > 0
                 PROVE  hits'[j][v].ttl >= Closing(v) /\ passed'[j][v] <= hits'[j][v].count
      BY DEF Counting, Closing
    <2>1. CASE j = i /\ v = w
      <3>1. hits'[j][v] = ItemOf(r) /\ passed'[j][v] = passed'[i][w] /\ Closing(v) = Closing(w)
        BY <1>7, <2>1
      <3>2. passed'[i][w] <= ItemOf(r).count
        BY <1>1, <1>8, <1>9
      <3> QED BY <1>1, <3>1, <3>2
    <2>2. CASE hits'[j][v] = hits[j][v] /\ passed'[j][v] = passed[j][v]
      BY <2>2 DEF RateInv, Counting
    <2> QED BY <1>6, <2>1, <2>2
  <1>11. NotCounting'
    <2> SUFFICES ASSUME NEW j \in Ips, NEW v \in Windows, hits'[j][v].count = 0
                 PROVE  passed'[j][v] = 0 \/ tick > Closing(v)
      BY DEF NotCounting, Closing
    <2>1. CASE j = i /\ v = w
      <3>1. hits'[j][v].count = ItemOf(r).count
        BY <1>7, <2>1
      <3> QED BY <1>1, <1>9, <3>1
    <2>2. CASE hits'[j][v] = hits[j][v] /\ passed'[j][v] = passed[j][v]
      BY <2>2 DEF RateInv, NotCounting
    <2> QED BY <1>6, <2>1, <2>2
  <1>12. RateWindowBound'
    <2> SUFFICES ASSUME NEW j \in Ips, NEW v \in Windows
                 PROVE  passed'[j][v] <= MaxRequests
      BY DEF RateWindowBound
    <2>1. CASE j = i /\ v = w
      <3>1. passed'[i][w] <= MaxRequests
        BY <1>1, <1>8, <1>9
      <3> QED BY <2>1, <3>1
    <2>2. CASE hits'[j][v] = hits[j][v] /\ passed'[j][v] = passed[j][v]
      BY <2>2 DEF RateInv, RateWindowBound
    <2> QED BY <1>6, <2>1, <2>2
  <1> QED BY <1>4, <1>5, <1>10, <1>11, <1>12

(* At first there are no counters, and nothing was let through.            *)
LEMMA RateInit == LimitsInit => RateInv
  <1> SUFFICES ASSUME LimitsInit PROVE RateInv
    OBVIOUS
  <1>1. MaxTick \in Nat /\ MaxRequests \in Nat
    BY LimitsAssumption DEF LimitsAssumption
  <1>2. RateTypeOK
    BY <1>1 DEF LimitsInit, RateTypeOK, NoHits, NoReq, Windows
  <1>3. InTime
    BY DEF LimitsInit, InTime, NoReq
  <1>4. Counting /\ NotCounting /\ RateWindowBound
    BY <1>1 DEF LimitsInit, Counting, NotCounting, RateWindowBound, NoHits
  <1> QED BY <1>2, <1>3, <1>4 DEF RateInv

-----------------------------------------------------------------------------
(* No step of a request, of the clock, of the table or of an agent process *)
(* disturbs the invariant.                                                 *)
LEMMA RateStep == RateInv /\ [LimitsNext]_limitsVars => RateInv'
  <1> SUFFICES ASSUME RateInv, [LimitsNext]_limitsVars PROVE RateInv'
    OBVIOUS
  <1> USE DEF RateInv
  <1>1. CASE ClockTicks
    <2>1. tick' = tick + 1 /\ UNCHANGED <<hits, req, passed>> /\ tick \in Nat
      BY <1>1 DEF ClockTicks, RateTypeOK
    <2>2. RateTypeOK' /\ Counting' /\ RateWindowBound'
      BY <2>1 DEF RateTypeOK, Counting, RateWindowBound, Closing
    <2>3. InTime'
      <3> SUFFICES ASSUME NEW r \in Requests, req[r].pc = "sent"
                   PROVE  InWindow(req[r].at, req[r].window) /\ tick + 1 <= req[r].at + Latency
        BY <2>1 DEF InTime, InWindow
      <3>1. InWindow(req[r].at, req[r].window)
        BY DEF InTime
      <3>2. tick - req[r].at < Latency
        BY <1>1 DEF ClockTicks
      <3>3. req[r].at \in Nat /\ Latency \in Nat
        BY LimitsAssumption DEF LimitsAssumption, RateTypeOK
      <3> QED BY <2>1, <3>1, <3>2, <3>3
    <2>4. NotCounting'
      <3> SUFFICES ASSUME NEW i \in Ips, NEW w \in Windows, hits[i][w].count = 0
                   PROVE  passed[i][w] = 0 \/ tick + 1 > Closing(w)
        BY <2>1 DEF NotCounting, Closing
      <3>1. passed[i][w] = 0 \/ tick > Closing(w)
        BY DEF NotCounting
      <3> QED BY <2>1, <3>1, ClosingNat
    <2> QED BY <2>2, <2>3, <2>4
  <1>2. ASSUME NEW r \in Requests, Arrive(r)
        PROVE  RateInv'
    <2> PICK i \in Ips, w \in Windows :
            /\ InWindow(tick, w)
            /\ req' = [req EXCEPT ![r] = [pc |-> "sent", ip |-> i, at |-> tick, window |-> w]]
      BY <1>2 DEF Arrive
    <2>1. UNCHANGED <<tick, hits, passed>>
      BY <1>2 DEF Arrive
    <2>2. RateTypeOK'
      BY <2>1 DEF RateTypeOK
    <2>3. InTime'
      <3> SUFFICES ASSUME NEW s \in Requests, req'[s].pc = "sent"
                   PROVE  InWindow(req'[s].at, req'[s].window) /\ tick <= req'[s].at + Latency
        BY <2>1 DEF InTime, InWindow
      <3>1. CASE s = r
        <4>1. req'[s].at = tick /\ req'[s].window = w
          BY <3>1 DEF RateTypeOK
        <4>2. tick \in Nat /\ Latency \in Nat
          BY LimitsAssumption DEF LimitsAssumption, RateTypeOK
        <4> QED BY <4>1, <4>2
      <3>2. CASE s # r
        <4>1. req'[s] = req[s]
          BY <3>2 DEF RateTypeOK
        <4> QED BY <4>1 DEF InTime
      <3> QED BY <3>1, <3>2
    <2>4. Counting' /\ NotCounting' /\ RateWindowBound'
      BY <2>1 DEF Counting, NotCounting, RateWindowBound, Closing
    <2> QED BY <2>2, <2>3, <2>4
  <1>3. ASSUME NEW r \in Requests, Leaves(r), tick' = tick
        PROVE  /\ req' \in [Requests -> [pc : {"idle", "sent"}, ip : Ips \union {"none"},
                                         at : Nat, window : Windows]]
               /\ \A s \in Requests : req'[s].pc = "sent" => req'[s].ip \in Ips
               /\ InTime'
    <2>1. req' = [req EXCEPT ![r] = NoReq] /\ 0 \in Windows
      BY <1>3, LimitsAssumption DEF Leaves, LimitsAssumption, Windows
    <2>2. req' \in [Requests -> [pc : {"idle", "sent"}, ip : Ips \union {"none"},
                                 at : Nat, window : Windows]]
      BY <2>1 DEF RateTypeOK, NoReq
    <2>3. ASSUME NEW s \in Requests, req'[s].pc = "sent"
          PROVE  req'[s] = req[s]
      BY <2>1, <2>3 DEF RateTypeOK, NoReq
    <2>4. \A s \in Requests : req'[s].pc = "sent" => req'[s].ip \in Ips
      BY <2>3 DEF RateTypeOK
    <2>5. InTime'
      BY <1>3, <2>3 DEF InTime, InWindow
    <2> QED BY <2>2, <2>4, <2>5
  <1>4. ASSUME NEW r \in Requests, Judge(r)
        PROVE  RateInv'
    <2>1. req[r].pc = "sent" /\ Counted(r) /\ Leaves(r) /\ tick' = tick
      BY <1>4 DEF Judge
    <2>2. \/ passed' = passed
          \/ /\ ItemOf(r).count <= MaxRequests
             /\ passed' = [passed EXCEPT ![req[r].ip][req[r].window] = @ + 1]
      BY <1>4 DEF Judge
    <2>3. /\ hits' \in [Ips -> [Windows -> [count : Nat, ttl : Nat]]]
          /\ passed' \in [Ips -> [Windows -> Nat]]
          /\ Counting' /\ NotCounting' /\ RateWindowBound'
      BY <2>1, <2>2, CountKeeps
    <2> QED BY <1>3, <2>1, <2>3 DEF RateTypeOK
  <1>5. ASSUME NEW r \in Requests, AppliedTwice(r)
        PROVE  RateInv'
    <2>1. req[r].pc = "sent" /\ Counted(r) /\ UNCHANGED <<tick, req, passed>>
      BY <1>5 DEF AppliedTwice
    <2>2. /\ hits' \in [Ips -> [Windows -> [count : Nat, ttl : Nat]]]
          /\ passed' \in [Ips -> [Windows -> Nat]]
          /\ Counting' /\ NotCounting' /\ RateWindowBound'
      BY <2>1, CountKeeps
    <2>3. InTime'
      BY <2>1 DEF InTime, InWindow
    <2> QED BY <2>1, <2>2, <2>3 DEF RateTypeOK
  <1>6. ASSUME NEW r \in Requests, Uncounted(r)
        PROVE  RateInv'
    <2>1. Leaves(r) /\ UNCHANGED <<tick, hits, passed>>
      BY <1>6 DEF Uncounted
    <2>2. Counting' /\ NotCounting' /\ RateWindowBound'
      BY <2>1 DEF Counting, NotCounting, RateWindowBound, Closing
    <2> QED BY <1>3, <2>1, <2>2 DEF RateTypeOK
  <1>7. ASSUME NEW i \in Ips, NEW w \in Windows, Expire(i, w)
        PROVE  RateInv'
    <2>1. /\ hits[i][w].count > 0 /\ tick > hits[i][w].ttl
          /\ hits' = [hits EXCEPT ![i][w] = NoHits] /\ UNCHANGED <<tick, req, passed>>
      BY <1>7 DEF Expire
    <2>2. RateTypeOK' /\ InTime' /\ RateWindowBound'
      BY <2>1 DEF RateTypeOK, InTime, InWindow, RateWindowBound, NoHits
    <2>3. ASSUME NEW j \in Ips, NEW v \in Windows
          PROVE  (j = i /\ v = w /\ hits'[j][v].count = 0) \/ hits'[j][v] = hits[j][v]
      BY <2>1 DEF RateTypeOK, NoHits
    <2>4. Counting'
      <3> SUFFICES ASSUME NEW j \in Ips, NEW v \in Windows, hits'[j][v].count > 0
                   PROVE  hits'[j][v].ttl >= Closing(v) /\ passed[j][v] <= hits'[j][v].count
        BY <2>1 DEF Counting, Closing
      <3>1. hits'[j][v] = hits[j][v]
        BY <2>3
      <3> QED BY <3>1 DEF Counting
    <2>5. tick > Closing(w)
      <3>1. hits[i][w].ttl >= Closing(w)
        BY <2>1 DEF Counting
      <3>2. hits[i][w].ttl \in Nat /\ tick \in Nat /\ Closing(w) \in Nat
        BY ClosingNat DEF RateTypeOK
      <3> QED BY <2>1, <3>1, <3>2
    <2>6. NotCounting'
      <3> SUFFICES ASSUME NEW j \in Ips, NEW v \in Windows, hits'[j][v].count = 0
                   PROVE  passed[j][v] = 0 \/ tick > Closing(v)
        BY <2>1 DEF NotCounting, Closing
      <3>1. CASE hits'[j][v] = hits[j][v]
        BY <3>1 DEF NotCounting
      <3>2. CASE j = i /\ v = w
        BY <2>5, <3>2
      <3> QED BY <2>3, <3>1, <3>2
    <2> QED BY <2>2, <2>4, <2>6
  <1>8. CASE UNCHANGED <<tick, hits, req, passed>>
    BY <1>8 DEF RateTypeOK, InTime, InWindow, Counting, NotCounting, RateWindowBound, Closing
  <1>9. ASSUME NEW p \in Processes, Invoke(p)
        PROVE  RateInv'
    BY <1>8, <1>9 DEF Invoke
  <1>10. CASE UNCHANGED limitsVars
    BY <1>8, <1>10 DEF limitsVars
  <1> QED BY <1>1, <1>2, <1>4, <1>5, <1>6, <1>7, <1>9, <1>10 DEF LimitsNext

(* The counter lets at most MaxRequests requests of an IP and window       *)
(* through, for every window length, limit, number of requests and grace   *)
(* that is not shorter than the timeout of the Lambda (checkRateLimit).    *)
THEOREM RateBounded == LimitsSpec => []RateWindowBound
  <1>1. LimitsSpec => []RateInv
    BY RateInit, RateStep, PTL DEF LimitsSpec
  <1>2. RateInv => RateWindowBound
    BY DEF RateInv
  <1> QED BY <1>1, <1>2, PTL

-----------------------------------------------------------------------------
(* The budget of agent runs                                                *)

BudgetTyped ==
    /\ tick \in Windows
    /\ lives \in [Processes -> [alive : BOOLEAN, day : Nat, used : Nat]]
    /\ started \in [Windows -> Nat]

Alive == {p \in Processes : lives[p].alive}

\* A process counts to the limit at most, and never a day that is still to come.
CountsWithin ==
    \A p \in Alive : lives[p].used <= DailyRunLimit /\ lives[p].day <= Today

\* What is used up today: a slot is a process and one of its runs.
SlotsOf(S) == S \X (1..DailyRunLimit)
UsedSlots ==
    {s \in SlotsOf(Alive) : lives[s[1]].day = Today /\ s[2] <= lives[s[1]].used}

\* Only finitely many processes have ever run; each run of today has its slot, and of
\* the days to come there is none.
RunsAreSlots ==
    /\ IsFiniteSet(Alive)
    /\ started[Today] = Cardinality(UsedSlots)
    /\ \A d \in Windows : d > Today => started[d] = 0

BudgetInv == BudgetTyped /\ CountsWithin /\ RunsAreSlots /\ RunsPerDay

(* A day has a number that the clock has reached, and it is the same or    *)
(* the next one after a tick.                                              *)
LEMMA DayOf ==
    ASSUME NEW a \in Nat
    PROVE  /\ a \div Day \in 0..a
           /\ (a + 1) \div Day \in {a \div Day, a \div Day + 1}
  <1>1. Day \in Nat \ {0}
    BY LimitsAssumption DEF LimitsAssumption
  <1>2. a \div Day \in Nat /\ a \div Day <= a
    BY <1>1
  <1>3. (a + 1) \div Day \in {a \div Day, a \div Day + 1}
    BY <1>1
  <1> QED BY <1>2, <1>3

LEMMA TodayType ==
    ASSUME BudgetTyped
    PROVE  Today \in Windows /\ Today \in Nat
  <1>1. tick \in Nat /\ tick <= MaxTick /\ MaxTick \in Nat
    BY LimitsAssumption DEF BudgetTyped, Windows, LimitsAssumption
  <1>2. tick \div Day \in 0..tick
    BY <1>1, DayOf
  <1> QED BY <1>1, <1>2 DEF Today, Windows

(* There are as many slots as processes times the limit.                   *)
LEMMA SlotCount ==
    ASSUME NEW S, IsFiniteSet(S)
    PROVE  /\ Cardinality(S) \in Nat /\ IsFiniteSet(SlotsOf(S))
           /\ Cardinality(SlotsOf(S)) = DailyRunLimit * Cardinality(S)
  <1>1. DailyRunLimit \in Nat \ {0}
    BY LimitsAssumption DEF LimitsAssumption
  <1>2. IsFiniteSet(1..DailyRunLimit) /\ Cardinality(1..DailyRunLimit) = DailyRunLimit
    BY <1>1, FS_Interval
  <1>3. Cardinality(S) \in Nat
    BY FS_CardinalityType
  <1>4. IsFiniteSet(SlotsOf(S)) /\ Cardinality(SlotsOf(S)) = Cardinality(S) * DailyRunLimit
    BY <1>2, FS_Product DEF SlotsOf
  <1> QED BY <1>1, <1>3, <1>4

LEMMA BudgetInit == LimitsInit => BudgetInv
  <1> SUFFICES ASSUME LimitsInit PROVE BudgetInv
    OBVIOUS
  <1>1. BudgetTyped
    BY LimitsAssumption DEF LimitsInit, BudgetTyped, Unborn, Windows, LimitsAssumption
  <1>2. Alive = {}
    BY DEF LimitsInit, Alive, Unborn
  <1>3. UsedSlots = {}
    BY <1>2 DEF UsedSlots, SlotsOf
  <1>4. \A d \in Windows : started[d] = 0
    BY DEF LimitsInit
  <1>5. CountsWithin /\ RunsAreSlots
    BY <1>1, <1>2, <1>3, <1>4, FS_EmptySet, TodayType DEF CountsWithin, RunsAreSlots
  <1>6. RunsPerDay
    <2>1. DailyRunLimit * Cardinality(Alive) = 0
      BY <1>2, FS_EmptySet, LimitsAssumption DEF LimitsAssumption
    <2> QED BY <1>4, <2>1 DEF RunsPerDay, Alive
  <1> QED BY <1>1, <1>5, <1>6 DEF BudgetInv

(* A run of today takes a slot that was free.                              *)
LEMMA RunTakesSlot ==
    ASSUME BudgetInv, NEW p \in Processes, WithinDailyLimit(p), tick' = tick,
           lives' = [lives EXCEPT ![p] = [alive |-> TRUE, day |-> Today, used |-> UsedToday(p) + 1]],
           started' = [started EXCEPT ![Today] = @ + 1]
    PROVE  BudgetInv'
  <1> DEFINE u == UsedToday(p)
             new == <<p, u + 1>>
  <1>1. Today \in Windows /\ Today \in Nat /\ Today' = Today
    BY TodayType DEF BudgetInv, Today
  <1>2. /\ DailyRunLimit \in Nat \ {0} /\ BudgetTyped /\ lives[p].used \in Nat
        /\ \A q \in Processes : lives[q].alive \in BOOLEAN
    BY LimitsAssumption DEF LimitsAssumption, BudgetInv, BudgetTyped
  <1>3. u \in Nat /\ u + 1 \in 1..DailyRunLimit
    BY <1>2 DEF UsedToday, WithinDailyLimit
  <1>4. /\ lives' \in [Processes -> [alive : BOOLEAN, day : Nat, used : Nat]]
        /\ lives'[p].alive = TRUE /\ lives'[p].day = Today /\ lives'[p].used = u + 1
        /\ \A q \in Processes \ {p} : lives'[q] = lives[q]
    <2> HIDE DEF u
    <2> QED BY <1>1, <1>2, <1>3 DEF BudgetTyped, u
  <1>5. started' \in [Windows -> Nat] /\ started'[Today] = started[Today] + 1
        /\ \A d \in Windows \ {Today} : started'[d] = started[d]
    BY <1>1, <1>2 DEF BudgetTyped
  <1>6. Alive' = Alive \union {p}
    BY <1>4 DEF Alive
  <1>7. IsFiniteSet(Alive) /\ IsFiniteSet(Alive')
    BY <1>6, FS_AddElement DEF BudgetInv, RunsAreSlots
  <1>8. UsedSlots' = UsedSlots \union {new} /\ new \notin UsedSlots
    <2>1. \A s \in SlotsOf(Alive') : s[1] \in Alive' /\ s[2] \in 1..DailyRunLimit /\ s = <<s[1], s[2]>>
      BY DEF SlotsOf
    <2>2. new \in SlotsOf(Alive')
      BY <1>3, <1>6 DEF SlotsOf
    <2>3. SlotsOf(Alive) \subseteq SlotsOf(Alive')
      BY <1>6 DEF SlotsOf
    <2>4. \A s \in SlotsOf(Alive) : s[1] \in Alive
      BY DEF SlotsOf
    <2>5. new \notin UsedSlots
      <3> SUFFICES ASSUME new \in UsedSlots PROVE FALSE
        OBVIOUS
      <3>1. lives[p].alive /\ lives[p].day = Today /\ u + 1 <= lives[p].used
        BY <2>4 DEF UsedSlots, Alive
      <3>2. u = lives[p].used
        BY <3>1 DEF UsedToday
      <3> QED BY <1>2, <3>1, <3>2
    <2>6. new \in UsedSlots'
      <3>1. UsedSlots' = {s \in SlotsOf(Alive') : lives'[s[1]].day = Today /\ s[2] <= lives'[s[1]].used}
        BY <1>1 DEF UsedSlots, SlotsOf
      <3>2. new[1] = p /\ new[2] = u + 1
        OBVIOUS
      <3> HIDE DEF new, u
      <3> QED BY <1>3, <1>4, <2>2, <3>1, <3>2
    <2>7. ASSUME NEW s \in UsedSlots PROVE s \in UsedSlots'
      <3>1. s \in SlotsOf(Alive') /\ s[1] \in Alive /\ lives[s[1]].day = Today /\ s[2] <= lives[s[1]].used
        BY <2>3, <2>4 DEF UsedSlots
      <3>2. lives'[s[1]].day = Today /\ s[2] <= lives'[s[1]].used
        <4>1. CASE s[1] = p
          <5>1. u = lives[p].used
            BY <3>1, <4>1 DEF UsedToday, Alive
          <5>2. s[2] \in Nat
            BY <1>2, <2>1, <3>1
          <5> HIDE DEF u
          <5> QED BY <1>2, <1>3, <1>4, <3>1, <4>1, <5>1, <5>2
        <4>2. CASE s[1] # p
          <5>1. s[1] \in Processes \ {p}
            BY <3>1, <4>2 DEF Alive
          <5> QED BY <1>4, <3>1, <5>1
        <4> QED BY <4>1, <4>2
      <3> QED BY <1>1, <3>1, <3>2 DEF UsedSlots
    <2>8. ASSUME NEW s \in UsedSlots', s # new PROVE s \in UsedSlots
      <3>1. /\ s \in SlotsOf(Alive') /\ lives'[s[1]].day = Today /\ s[2] <= lives'[s[1]].used
            /\ s[1] \in Alive' /\ s[2] \in 1..DailyRunLimit /\ s = <<s[1], s[2]>>
        BY <1>1, <2>1 DEF UsedSlots
      <3>2. CASE s[1] = p
        <4>1. s[2] <= u + 1 /\ s[2] # u + 1
          BY <1>4, <2>8, <3>1, <3>2
        <4>2. s[2] <= u /\ u > 0
          <5> HIDE DEF u
          <5> QED BY <1>2, <1>3, <3>1, <4>1
        <4>3. lives[p].alive /\ lives[p].day = Today /\ u = lives[p].used
          BY <4>2 DEF UsedToday
        <4>4. p \in Alive
          BY <4>3 DEF Alive
        <4>5. s \in SlotsOf(Alive)
          BY <3>1, <3>2, <4>4 DEF SlotsOf
        <4> QED BY <3>2, <4>2, <4>3, <4>5 DEF UsedSlots
      <3>3. CASE s[1] # p
        <4>1. s[1] \in Alive /\ lives'[s[1]] = lives[s[1]]
          BY <1>4, <1>6, <3>1, <3>3 DEF Alive
        <4>2. s \in SlotsOf(Alive)
          BY <3>1, <4>1 DEF SlotsOf
        <4> QED BY <3>1, <4>1, <4>2 DEF UsedSlots
      <3> QED BY <3>2, <3>3
    <2> QED BY <2>5, <2>6, <2>7, <2>8
  <1>9. IsFiniteSet(UsedSlots) /\ Cardinality(UsedSlots') = Cardinality(UsedSlots) + 1
    <2>1. UsedSlots \subseteq SlotsOf(Alive) /\ IsFiniteSet(SlotsOf(Alive))
      BY <1>7, SlotCount DEF UsedSlots
    <2>2. IsFiniteSet(UsedSlots)
      BY <2>1, FS_Subset
    <2> HIDE DEF new
    <2> QED BY <1>8, <2>2, FS_AddElement
  <1>10. started'[Today] = Cardinality(UsedSlots')
    BY <1>5, <1>9 DEF BudgetInv, RunsAreSlots
  <1>11. CountsWithin'
    <2> SUFFICES ASSUME NEW q \in Alive' PROVE lives'[q].used <= DailyRunLimit /\ lives'[q].day <= Today
      BY <1>1 DEF CountsWithin
    <2>1. CASE q = p
      <3> HIDE DEF u
      <3> QED BY <1>1, <1>2, <1>3, <1>4, <2>1
    <2>2. CASE q # p
      BY <1>4, <1>6, <2>2 DEF BudgetInv, CountsWithin, Alive
    <2> QED BY <2>1, <2>2
  <1>12. RunsAreSlots'
    BY <1>1, <1>5, <1>7, <1>10 DEF BudgetInv, RunsAreSlots
  <1>13. RunsPerDay'
    <2> SUFFICES ASSUME NEW d \in Windows PROVE started'[d] <= DailyRunLimit * Cardinality(Alive')
      BY DEF RunsPerDay, Alive
    <2>1. /\ Cardinality(Alive) \in Nat /\ Cardinality(Alive') \in Nat
          /\ Cardinality(Alive) <= Cardinality(Alive')
      BY <1>6, <1>7, SlotCount, FS_Subset
    <2>2. DailyRunLimit * Cardinality(Alive) <= DailyRunLimit * Cardinality(Alive')
      BY <1>2, <2>1
    <2>3. CASE d = Today
      <3>1. UsedSlots' \subseteq SlotsOf(Alive')
        BY DEF UsedSlots, SlotsOf
      <3>2. Cardinality(UsedSlots') <= DailyRunLimit * Cardinality(Alive')
        BY <1>7, <3>1, SlotCount, FS_Subset
      <3> QED BY <1>10, <2>3, <3>2
    <2>4. CASE d # Today
      <3>1. started'[d] = started[d] /\ started[d] \in Nat /\ started[d] <= DailyRunLimit * Cardinality(Alive)
        BY <1>2, <1>5, <2>4 DEF BudgetInv, BudgetTyped, RunsPerDay, Alive
      <3>2. DailyRunLimit * Cardinality(Alive) \in Int /\ DailyRunLimit * Cardinality(Alive') \in Int
        BY <1>2, <2>1
      <3> QED BY <2>2, <3>1, <3>2
    <2> QED BY <2>3, <2>4
  <1>14. BudgetTyped'
    BY <1>2, <1>4, <1>5 DEF BudgetTyped, Windows
  <1> QED BY <1>11, <1>12, <1>13, <1>14 DEF BudgetInv

(* The clock moves: the slots stay while the day does, and a new day has   *)
(* none used.                                                              *)
LEMMA TickKeepsBudget ==
    ASSUME BudgetInv, ClockTicks
    PROVE  BudgetInv'
  <1>1. tick' = tick + 1 /\ tick < MaxTick /\ UNCHANGED <<lives, started>> /\ BudgetTyped /\ tick \in Nat
    BY DEF ClockTicks, BudgetInv, BudgetTyped, Windows
  <1>2. BudgetTyped'
    BY <1>1, LimitsAssumption DEF BudgetTyped, Windows, LimitsAssumption
  <1>3. Today \in Nat /\ Today' \in {Today, Today + 1} /\ Today' \in Windows
    <2>1. Today' = (tick + 1) \div Day
      BY <1>1 DEF Today
    <2>2. Today \in Nat /\ (tick + 1) \div Day \in {Today, Today + 1}
      BY <1>1, DayOf, TodayType DEF Today
    <2>3. (tick + 1) \div Day \in 0..tick + 1
      BY <1>1, DayOf
    <2>4. tick + 1 <= MaxTick /\ MaxTick \in Nat
      BY <1>1, LimitsAssumption DEF LimitsAssumption
    <2>5. (tick + 1) \div Day \in Windows
      BY <1>1, <2>3, <2>4 DEF Windows
    <2> QED BY <2>1, <2>2, <2>5
  <1>4. Alive' = Alive /\ RunsPerDay' /\ CountsWithin'
    BY <1>1, <1>3 DEF Alive, BudgetInv, BudgetTyped, RunsPerDay, CountsWithin
  <1>5. RunsAreSlots'
    <2>1. CASE Today' = Today
      <3>1. UsedSlots' = UsedSlots
        BY <1>1, <1>4, <2>1 DEF UsedSlots
      <3> QED BY <1>1, <1>4, <2>1, <3>1 DEF BudgetInv, RunsAreSlots
    <2>2. CASE Today' = Today + 1
      <3>1. \A s \in SlotsOf(Alive) : s[1] \in Alive
        BY DEF SlotsOf
      <3>2. \A p \in Alive : lives[p].day \in Nat /\ lives[p].day <= Today
        BY <1>1 DEF BudgetInv, CountsWithin, BudgetTyped, Alive
      <3>3. UsedSlots' = {}
        BY <1>1, <1>3, <1>4, <2>2, <3>1, <3>2 DEF UsedSlots
      <3>4. started[Today'] = 0
        BY <1>3, <2>2 DEF BudgetInv, RunsAreSlots
      <3>5. \A d \in Windows : d > Today' => d > Today
        BY <1>3, <2>2 DEF Windows
      <3> QED BY <1>1, <1>4, <3>3, <3>4, <3>5, FS_EmptySet DEF BudgetInv, RunsAreSlots
    <2> QED BY <1>3, <2>1, <2>2
  <1> QED BY <1>2, <1>4, <1>5 DEF BudgetInv

LEMMA BudgetStep == BudgetInv /\ [LimitsNext]_limitsVars => BudgetInv'
  <1> SUFFICES ASSUME BudgetInv, [LimitsNext]_limitsVars PROVE BudgetInv'
    OBVIOUS
  <1>1. CASE UNCHANGED <<tick, lives, started>>
    <2>1. Today' = Today /\ Alive' = Alive
      BY <1>1 DEF Today, Alive
    <2>2. UsedSlots' = UsedSlots
      BY <1>1, <2>1 DEF UsedSlots
    <2>3. RunsAreSlots' /\ CountsWithin'
      BY <1>1, <2>1, <2>2 DEF BudgetInv, RunsAreSlots, CountsWithin
    <2>4. BudgetTyped' /\ RunsPerDay'
      BY <1>1 DEF BudgetInv, BudgetTyped, RunsPerDay
    <2> QED BY <2>3, <2>4 DEF BudgetInv
  <1>2. CASE ClockTicks
    BY <1>2, TickKeepsBudget
  <1>3. ASSUME NEW p \in Processes, Invoke(p) PROVE BudgetInv'
    BY <1>1, <1>3, RunTakesSlot DEF Invoke
  <1>4. ASSUME NEW r \in Requests, Arrive(r) \/ Judge(r) \/ AppliedTwice(r) \/ Uncounted(r)
        PROVE  UNCHANGED <<tick, lives, started>>
    BY <1>4 DEF Arrive, Judge, AppliedTwice, Uncounted
  <1>5. ASSUME NEW i \in Ips, NEW w \in Windows, Expire(i, w)
        PROVE  UNCHANGED <<tick, lives, started>>
    BY <1>5 DEF Expire
  <1>6. CASE UNCHANGED limitsVars
    BY <1>1, <1>6 DEF limitsVars
  <1> QED BY <1>1, <1>2, <1>3, <1>4, <1>5, <1>6 DEF LimitsNext

(* The agent runs of a day are at most the limit times the processes that  *)
(* lived, for any number of processes, any length of a day and any limit   *)
(* (evaluateBudget, whose counters live in the memory of each process).    *)
THEOREM RunsBounded == LimitsSpec => []RunsPerDay
  <1>1. BudgetInv => RunsPerDay
    BY DEF BudgetInv
  <1> QED BY <1>1, BudgetInit, BudgetStep, PTL DEF LimitsSpec

-----------------------------------------------------------------------------
(* Types: the clock stops at its bound, and what is left of the bounds     *)
(* stays a number.                                                         *)
CallsLeft == tick \in 0..MaxTick /\ calls \in [arrivals : Nat, retries : Nat, invocations : Nat]

LEMMA CallsSteps == CallsLeft /\ [LimitsNext]_limitsVars => CallsLeft'
  <1> SUFFICES ASSUME CallsLeft, [LimitsNext]_limitsVars PROVE CallsLeft' OBVIOUS
  <1> USE DEF CallsLeft
  <1>1. MaxTick \in Nat BY LimitsAssumption DEF LimitsAssumption
  <1>2. CASE ClockTicks BY <1>1, <1>2 DEF ClockTicks
  <1>3. ASSUME NEW r \in Requests, Arrive(r) PROVE CallsLeft' BY <1>3 DEF Arrive
  <1>4. ASSUME NEW r \in Requests, Judge(r) PROVE CallsLeft' BY <1>4 DEF Judge
  <1>5. ASSUME NEW r \in Requests, AppliedTwice(r) PROVE CallsLeft' BY <1>5 DEF AppliedTwice
  <1>6. ASSUME NEW r \in Requests, Uncounted(r) PROVE CallsLeft' BY <1>6 DEF Uncounted
  <1>7. ASSUME NEW i \in Ips, NEW w \in Windows, Expire(i, w) PROVE CallsLeft' BY <1>7 DEF Expire
  <1>8. ASSUME NEW p \in Processes, Invoke(p) PROVE CallsLeft' BY <1>8 DEF Invoke
  <1>9. CASE UNCHANGED limitsVars BY <1>9 DEF limitsVars
  <1> QED BY <1>2, <1>3, <1>4, <1>5, <1>6, <1>7, <1>8, <1>9 DEF LimitsNext

LEMMA LimitsTypes == LimitsSpec => []LimitsTypeOK
  <1>1. LimitsInit => CallsLeft BY LimitsAssumption DEF LimitsInit, CallsLeft, LimitsAssumption
  <1>2. RateInv /\ CallsLeft => LimitsTypeOK BY DEF RateInv, RateTypeOK, CallsLeft, LimitsTypeOK
  <1> QED BY <1>1, <1>2, CallsSteps, RateInit, RateStep, PTL DEF LimitsSpec
=============================================================================
