------------------------------- MODULE Access -------------------------------
(***************************************************************************)
(* The editor's session in one browser: the login through Google with its  *)
(* two short-lived cookies, the signed token that every server instance    *)
(* judges by the configuration it has loaded, and the write actions of     *)
(* several tabs, which go to the login on a 401.                           *)
(***************************************************************************)
EXTENDS Integers, FiniteSets

CONSTANTS Editors,        \* e-mail addresses
          Tabs, Pages,
          Instances,      \* server processes
          MaxLogins,      \* logins that are started
          MaxWrites,      \* write actions that are sent
          MaxNow,         \* the clock stops here
          SessionTtl,     \* sessionTtlSec
          FlowTtl         \* OAUTH_STATE_TTL_SEC

ASSUME AccessAssumption ==
    /\ {MaxLogins, MaxWrites, MaxNow} \subseteq Nat /\ {SessionTtl, FlowTtl} \subseteq Nat \ {0}

VARIABLES now,        \* the clock
          allowlist,  \* the allowlist in the parameter store
          server,     \* the configuration each instance has cached
          jar,        \* the browser's cookies
          tab,        \* each tab: its page, its login, its request
          stale,      \* history: <<i, e>>: i runs since before e was taken off the list
          applied,    \* history: the write a handler was last called for
          spent       \* logins and writes so far

accessVars == <<now, allowlist, server, jar, tab, stale, applied, spent>>

\* A returnTo is a page, or the address of an API route as the guard's 401 names it.
Routes == Pages \X {"page", "api"}
NoRoute == <<"none", "none">>
NoToken == [who |-> "none", exp |-> 0]
NoFlow == [state |-> 0, back |-> NoRoute, until |-> 0]
NotLoaded == [up |-> FALSE, list |-> {}]
NoWrite == [who |-> "none", on |-> "none", no |-> 0]

\* at: page; google (the consent screen); callback (the request is with a server).
\* state, from: the login this tab has started and where; back: the cookie the request bore.
Tab0 == [at |-> "none", page |-> "none", state |-> 0, from |-> NoRoute, back |-> NoRoute,
         ok |-> FALSE, landed |-> NoRoute]

AccessInit ==
    /\ now = 0 /\ allowlist = Editors /\ server = [i \in Instances |-> NotLoaded]
    /\ jar = [flow |-> NoFlow, token |-> NoToken]
    /\ tab = [t \in Tabs |-> Tab0] /\ stale = {}
    /\ applied = NoWrite /\ spent = [logins |-> 0, writes |-> 0]

-----------------------------------------------------------------------------
(* Servers and time                                                        *)

ServerVars == <<now, allowlist, server, stale>>

\* getAuthConfig: an instance loads the parameters once and keeps them.
InstanceStarts(i) ==
    /\ ~server[i].up /\ server' = [server EXCEPT ![i] = [up |-> TRUE, list |-> allowlist]]
    /\ UNCHANGED <<now, allowlist, jar, tab, stale, applied, spent>>
InstanceStops(i) ==
    /\ server[i].up /\ server' = [server EXCEPT ![i] = NotLoaded]
    /\ stale' = stale \ ({i} \X Editors)
    /\ UNCHANGED <<now, allowlist, jar, tab, applied, spent>>

\* The parameter store is changed; the instances that run keep the list they have.
Revoke(e) ==
    /\ e \in allowlist /\ allowlist' = allowlist \ {e}
    /\ stale' = stale \union ({i \in Instances : server[i].up} \X {e})
    /\ UNCHANGED <<now, server, jar, tab, applied, spent>>
TimePasses ==
    /\ now < MaxNow /\ now' = now + 1
    /\ UNCHANGED <<allowlist, server, jar, tab, stale, applied, spent>>

FlowCookie == IF now < jar.flow.until THEN jar.flow ELSE NoFlow

VerifySignatureOnly(token, i) ==  \* mutant: the allowlist is not asked again
    token # NoToken /\ now < token.exp
\* verifyEditorJWT: signature, expiry, and the allowlist on every request.
VerifyEditorJWT(token, i) ==
    token # NoToken /\ now < token.exp /\ token.who \in server[i].list

-----------------------------------------------------------------------------
(* The login                                                               *)

\* GET start: a fresh state; state and returnTo become the browser's flow cookies.
StartLogin(t, route) ==
    /\ spent.logins < MaxLogins
    /\ jar' = [jar EXCEPT !.flow = [state |-> spent.logins + 1, back |-> route, until |-> now + FlowTtl]]
    /\ tab' = [tab EXCEPT ![t] = [Tab0 EXCEPT !.at = "google", !.page = tab[t].page,
                                     !.state = spent.logins + 1, !.from = route]]

LoginClicked(t) ==
    /\ tab[t].at = "page" /\ StartLogin(t, <<tab[t].page, "page">>)
    /\ spent' = [spent EXCEPT !.logins = @ + 1]
    /\ UNCHANGED <<ServerVars, applied>>

StateMatchesAny(t) == TRUE        \* mutant: any flow cookie will do
StateMatches(t) == FlowCookie.state = tab[t].state

\* Google redirects to the callback, whose request carries the cookies of this moment.
CallbackRequest(t) ==
    /\ tab[t].at = "google"
    /\ tab' = [tab EXCEPT ![t].at = "callback", ![t].back = FlowCookie.back,
                          ![t].ok = FlowCookie # NoFlow /\ StateMatches(t)]
    /\ UNCHANGED <<ServerVars, jar, applied, spent>>

\* The flow cookies are deleted by the answer, whoever has set them meanwhile.
CallbackSucceeds(t) ==
    /\ tab[t].at = "callback" /\ tab[t].ok
    /\ \E i \in Instances : \E e \in server[i].list :
          jar' = [flow |-> NoFlow, token |-> [who |-> e, exp |-> now + SessionTtl]]
    /\ tab' = [tab EXCEPT ![t] = [Tab0 EXCEPT !.at = "page", !.page = tab[t].back[1],
                                     !.from = tab[t].from, !.landed = tab[t].back]]
    /\ UNCHANGED <<ServerVars, applied, spent>>

\* A mismatch, an error of Google's or an address not on the list: no session.  The
\* deletion of the flow cookies may be missing from the redirect.
CallbackFails(t) ==
    /\ tab[t].at = "callback"
    /\ \E flow \in {NoFlow, jar.flow} : jar' = [jar EXCEPT !.flow = flow]
    /\ tab' = [tab EXCEPT ![t] = Tab0]
    /\ UNCHANGED <<ServerVars, applied, spent>>

Logout ==
    /\ jar.token # NoToken /\ jar' = [jar EXCEPT !.token = NoToken]
    /\ UNCHANGED <<ServerVars, tab, applied, spent>>

-----------------------------------------------------------------------------
(* Pages and write actions                                                 *)

\* The tab goes to a page, from wherever it is; a login it had begun is given up.
Load(t) ==
    /\ \E p \in Pages : tab' = [tab EXCEPT ![t] = [Tab0 EXCEPT !.at = "page", !.page = p]]
    /\ UNCHANGED <<ServerVars, jar, applied, spent>>

\* runWriteAction reaches an instance: the handler runs, or a 401 leads to the login
\* with the API route as the place to return to.
Write(t) ==
    /\ tab[t].at = "page" /\ spent.writes < MaxWrites
    /\ \E i \in Instances :
          /\ server[i].up
          /\ IF VerifyEditorJWT(jar.token, i)
             THEN /\ applied' = [who |-> jar.token.who, on |-> i, no |-> spent.writes + 1]
                  /\ spent' = [spent EXCEPT !.writes = @ + 1] /\ UNCHANGED <<jar, tab>>
             ELSE /\ StartLogin(t, <<tab[t].page, "api">>)
                  /\ spent' = [logins |-> spent.logins + 1, writes |-> spent.writes + 1]
                  /\ UNCHANGED applied
    /\ UNCHANGED ServerVars

AccessNext ==
    \/ TimePasses \/ Logout
    \/ \E i \in Instances : InstanceStarts(i) \/ InstanceStops(i)
    \/ \E e \in Editors : Revoke(e)
    \/ \E t \in Tabs : LoginClicked(t) \/ CallbackRequest(t) \/ CallbackSucceeds(t)
                       \/ CallbackFails(t) \/ Load(t) \/ Write(t)

AccessSpec == AccessInit /\ [][AccessNext]_accessVars

-----------------------------------------------------------------------------
(* Properties                                                              *)

AccessTypeOK ==
    /\ now \in 0..MaxNow /\ allowlist \subseteq Editors
    /\ \A i \in Instances : server[i].list \subseteq Editors
    /\ jar.token = NoToken \/ jar.token.who \in Editors
    /\ jar.flow.state \in 0..MaxLogins
    /\ stale \subseteq Instances \X Editors
    /\ \A t \in Tabs : tab[t].landed \in Routes \union {NoRoute}

\* A login that succeeds comes back to where its own tab had started it, whatever
\* logins other tabs of the browser start and finish meanwhile.
ReturnsWhereStarted == \A t \in Tabs : tab[t].landed # NoRoute => tab[t].landed = tab[t].from

\* An editor who was taken off the list writes nothing any more, whoever has signed the
\* token and as long as it is valid, but through an instance that has run since before.
RevocationTakesHold ==
    [][applied' # applied =>
        applied'.who \in allowlist \/ <<applied'.on, applied'.who>> \in stale]_accessVars

=============================================================================
