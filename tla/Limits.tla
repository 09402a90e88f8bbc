------------------------------- MODULE Limits -------------------------------
(***************************************************************************)
(* The guards against overuse: the request counter per IP and window that  *)
(* the middleware keeps in the table (with DynamoDB's deletion of expired  *)
(* items and the SDK's retries), and the daily counter of agent runs that  *)
(* every agent process keeps in its memory.                                *)
(***************************************************************************)
EXTENDS Integers, FiniteSets

CONSTANTS Ips, Requests,
          MaxTick,          \* the clock stops here
          MaxArrivals,      \* requests altogether
          MaxRetries,       \* retries of a counted update by the SDK
          Window,           \* RATE_LIMIT_WINDOW_SEC
          MaxRequests,      \* RATE_LIMIT_MAX_REQUESTS
          Grace,            \* TTL_GRACE_SEC
          Latency,          \* the timeout of the web Lambda
          Processes,        \* agent processes, one after the other or together
          Day,              \* ticks of a day
          DailyRunLimit,    \* DAILY_RUN_LIMIT
          MaxInvocations    \* agent invocations altogether

\* A Lambda is killed long before an expired window may lose its counter.
ASSUME LimitsAssumption ==
    /\ {MaxTick, MaxArrivals, MaxRetries, Grace, Latency, MaxInvocations} \subseteq Nat
    /\ {Window, MaxRequests, Day, DailyRunLimit} \subseteq Nat \ {0}
    /\ Latency <= Grace

VARIABLES tick,      \* the clock
          hits,      \* the RATE#ip items, by IP and window; count 0: none
          req,       \* requests inside the middleware
          passed,    \* history: requests of each IP and window let through by count
          lives,     \* daily counters of each agent process; absent: not started
          started,   \* history: agent runs of each day
          calls      \* what is left of the bounds

rateVars == <<hits, req, passed>>
agentVars == <<lives, started>>
limitsVars == <<tick, hits, req, passed, lives, started, calls>>

Windows == 0..MaxTick
NoHits == [count |-> 0, ttl |-> 0]
NoReq == [pc |-> "idle", ip |-> "none", at |-> 0, window |-> 0]
Unborn == [alive |-> FALSE, day |-> 0, used |-> 0]

LimitsInit ==
    /\ tick = 0 /\ hits = [i \in Ips |-> [w \in Windows |-> NoHits]]
    /\ req = [r \in Requests |-> NoReq] /\ passed = [i \in Ips |-> [w \in Windows |-> 0]]
    /\ lives = [p \in Processes |-> Unborn] /\ started = [d \in Windows |-> 0]
    /\ calls = [arrivals |-> MaxArrivals, retries |-> MaxRetries, invocations |-> MaxInvocations]

\* currentWindow: the number of the window that holds t.
InWindow(t, w) == w * Window <= t /\ t < w * Window + Window

-----------------------------------------------------------------------------
(* The rate limit                                                          *)

\* No request outlives the Lambda that serves it.
ClockTicks ==
    /\ tick < MaxTick
    /\ \A r \in Requests : req[r].pc = "sent" => tick - req[r].at < Latency
    /\ tick' = tick + 1 /\ UNCHANGED <<hits, req, passed, lives, started, calls>>

\* A request reaches the middleware, which takes the time and sends the update.
Arrive(r) ==
    /\ req[r].pc = "idle" /\ calls.arrivals > 0
    /\ \E i \in Ips, w \in Windows :
          /\ InWindow(tick, w)
          /\ req' = [req EXCEPT ![r] = [pc |-> "sent", ip |-> i, at |-> tick, window |-> w]]
    /\ calls' = [calls EXCEPT !.arrivals = @ - 1]
    /\ UNCHANGED <<tick, hits, passed, lives, started>>

TtlShort(r) == req[r].at + Window             \* mutant: no grace
Ttl(r) == req[r].at + Window + Grace

\* ADD 1, and the first request of the window fixes the time to live.
ItemOf(r) ==
    LET item == hits[req[r].ip][req[r].window] IN
    [count |-> item.count + 1, ttl |-> IF item.count = 0 THEN Ttl(r) ELSE item.ttl]

Counted(r) == hits' = [hits EXCEPT ![req[r].ip][req[r].window] = ItemOf(r)]
Leaves(r) == req' = [req EXCEPT ![r] = NoReq]

\* The update comes back: let through if the count is within the limit, 429 if not.
Judge(r) ==
    /\ req[r].pc = "sent" /\ Counted(r) /\ Leaves(r)
    /\ passed' = IF ItemOf(r).count <= MaxRequests
                 THEN [passed EXCEPT ![req[r].ip][req[r].window] = @ + 1] ELSE passed
    /\ UNCHANGED <<tick, lives, started, calls>>

\* The update is applied, its answer is lost, and the SDK sends it again.
AppliedTwice(r) ==
    /\ req[r].pc = "sent" /\ calls.retries > 0 /\ Counted(r)
    /\ calls' = [calls EXCEPT !.retries = @ - 1]
    /\ UNCHANGED <<tick, req, passed, lives, started>>

\* The table fails for good: the request passes without being counted (fail open),
\* or ends with its Lambda.
Uncounted(r) ==
    /\ req[r].pc = "sent" /\ Leaves(r)
    /\ UNCHANGED <<tick, hits, passed, lives, started, calls>>

\* DynamoDB deletes an expired item, at some time.
Expire(i, w) ==
    /\ hits[i][w].count > 0 /\ tick > hits[i][w].ttl
    /\ hits' = [hits EXCEPT ![i][w] = NoHits]
    /\ UNCHANGED <<tick, req, passed, lives, started, calls>>

-----------------------------------------------------------------------------
(* The budget of agent runs                                                *)

Today == tick \div Day
UsedToday(p) == IF lives[p].alive /\ lives[p].day = Today THEN lives[p].used ELSE 0

\* mutant: the limit itself is still let through
WithinDailyLimitLoose(p) == UsedToday(p) <= DailyRunLimit
\* evaluateBudget refuses from the limit on.  Nothing adds to the monthly cost.
WithinDailyLimit(p) == UsedToday(p) < DailyRunLimit

\* An invocation: checked and reserved in one turn of the process's event loop.
Invoke(p) ==
    /\ calls.invocations > 0 /\ calls' = [calls EXCEPT !.invocations = @ - 1]
    /\ IF WithinDailyLimit(p)
       THEN /\ lives' = [lives EXCEPT ![p] = [alive |-> TRUE, day |-> Today, used |-> UsedToday(p) + 1]]
            /\ started' = [started EXCEPT ![Today] = @ + 1]
       ELSE UNCHANGED <<lives, started>>
    /\ UNCHANGED <<tick, hits, req, passed>>

LimitsNext ==
    \/ ClockTicks
    \/ \E r \in Requests : Arrive(r) \/ Judge(r) \/ AppliedTwice(r) \/ Uncounted(r)
    \/ \E i \in Ips, w \in Windows : Expire(i, w)
    \/ \E p \in Processes : Invoke(p)

LimitsSpec == LimitsInit /\ [][LimitsNext]_limitsVars

-----------------------------------------------------------------------------
(* Properties                                                              *)

LimitsTypeOK ==
    /\ tick \in 0..MaxTick
    /\ hits \in [Ips -> [Windows -> [count : Nat, ttl : Nat]]]
    /\ passed \in [Ips -> [Windows -> Nat]]
    /\ req \in [Requests -> [pc : {"idle", "sent"}, ip : Ips \union {"none"}, at : Nat, window : Windows]]
    /\ \A r \in Requests : req[r].pc = "sent" => req[r].ip \in Ips
    /\ calls \in [arrivals : Nat, retries : Nat, invocations : Nat]

\* Of the requests an IP sends in one window at most the maximum is let through by
\* the counter, however late the update of a slow one comes, however often the SDK
\* repeats one, and whenever DynamoDB deletes the expired counter.
RateWindowBound == \A i \in Ips, w \in Windows : passed[i][w] <= MaxRequests

\* The agent runs of a day are bounded by the limit times the processes that lived,
\* across midnight as well; one process alone never exceeds the limit.
RunsPerDay ==
    \A d \in Windows : started[d] <= DailyRunLimit * Cardinality({p \in Processes : lives[p].alive})

=============================================================================
