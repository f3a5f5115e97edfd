--------------------------- MODULE RemoteSession ---------------------------
(***************************************************************************)
(* The remote session of a development server (sandbox/development.ts      *)
(* 566-774): requests share one access token and one refresh of it; each   *)
(* is tried again once after a 401.  A proxied request streams its answer  *)
(* to the page and can be cut off by the page or by close(), through an    *)
(* AbortController that lives from one attempt's start to its end.         *)
(*                                                                         *)
(* Tokens are numbers in the order the server issues them.  A token near   *)
(* its end is one currentToken() no longer gives out without a refresh.    *)
(***************************************************************************)
EXTENDS Naturals, FiniteSets

CONSTANTS Requests,
          Reads,      \* those made by remoteJson(): no page, no controller
          Waits,      \* proxied ones that wait for a token before the first attempt
          MaxToken    \* bound: tokens issued

VARIABLES access,       \* accessToken
          near,         \* has it less than a minute left?
          refused,      \* the server refuses tokens up to this one
          refreshing,   \* is a refresh under way?
          step,         \* of each request
          bearer,       \* request: token of its last attempt
          tried,        \* request: answers of 401 so far
          lastRefused,  \* request: the token the last of them was for
          controllers,  \* requests with a controller in the set
          hungUp,       \* requests whose page has gone
          serving       \* close() has not been called

remoteVars == <<access, near, refused, refreshing, step, bearer, tried, lastRefused,
                controllers, hungUp, serving>>

Proxied == Requests \ Reads

Init ==
    /\ access = 1 /\ near = FALSE /\ refused = 0 /\ refreshing = FALSE
    /\ step = [r \in Requests |-> "idle"] /\ bearer = [r \in Requests |-> 0]
    /\ tried = [r \in Requests |-> 0] /\ lastRefused = [r \in Requests |-> 0]
    /\ controllers = {} /\ hungUp = {} /\ serving = TRUE

Steps(rs, st) == [r \in Requests |-> IF r \in rs THEN st ELSE step[r]]

-----------------------------------------------------------------------------
(* The token                                                               *)

\* The clock: the token enters its last minute.
Age ==
    /\ ~near /\ near' = TRUE
    /\ UNCHANGED <<access, refused, refreshing, step, bearer, tried, lastRefused,
                   controllers, hungUp, serving>>

\* The server stops taking the tokens issued so far.
Expire ==
    /\ refused < access /\ refused' = access
    /\ UNCHANGED <<access, near, refreshing, step, bearer, tried, lastRefused,
                   controllers, hungUp, serving>>

\* refresh(): one for everybody who asks while it is under way.
Renewing == {r \in Requests : step[r] \in {"before", "token", "renewing"}}

\* Mutant: the token is read before the refresh.
RefreshOkStale ==
    /\ refreshing /\ access < MaxToken
    /\ LET cut  == {r \in Proxied : step[r] = "token" /\ r \notin controllers}
           sent == Renewing \ cut
       IN /\ step' = [r \in Requests |-> CASE r \in cut  -> "failed"
                                           [] r \in sent -> "sent"
                                           [] OTHER      -> step[r]]
          /\ bearer' = [r \in Requests |-> IF r \in sent THEN access ELSE bearer[r]]
          /\ controllers' = controllers \cup (sent \cap Proxied)
    /\ access' = access + 1 /\ near' = FALSE /\ refreshing' = FALSE
    /\ UNCHANGED <<refused, tried, lastRefused, hungUp, serving>>

\* Those who waited go on with the new token, but an aborted fetch rejects at
\* once.  A second attempt has a controller of its own, whatever became of the first.
RefreshOk ==
    /\ refreshing /\ access < MaxToken
    /\ LET cut  == {r \in Proxied : step[r] = "token" /\ r \notin controllers}
           sent == Renewing \ cut
       IN /\ step' = [r \in Requests |-> CASE r \in cut  -> "failed"
                                           [] r \in sent -> "sent"
                                           [] OTHER      -> step[r]]
          /\ bearer' = [r \in Requests |-> IF r \in sent THEN access + 1 ELSE bearer[r]]
          /\ controllers' = controllers \cup (sent \cap Proxied)
    /\ access' = access + 1 /\ near' = FALSE /\ refreshing' = FALSE
    /\ UNCHANGED <<refused, tried, lastRefused, hungUp, serving>>

RefreshFails ==
    /\ refreshing
    /\ refreshing' = FALSE
    /\ step' = Steps(Renewing, "failed") /\ controllers' = controllers \ Renewing
    /\ UNCHANGED <<access, near, refused, bearer, tried, lastRefused, hungUp, serving>>

-----------------------------------------------------------------------------
(* A request                                                               *)

\* currentToken(), then the first attempt.
Start(r) ==
    /\ step[r] = "idle" /\ serving
    /\ IF near
       THEN /\ refreshing' = TRUE
            /\ step' = [step EXCEPT ![r] = IF r \in Waits THEN "before" ELSE "token"]
            /\ controllers' = controllers \cup ({r} \cap (Proxied \ Waits))
            /\ UNCHANGED bearer
       ELSE /\ step' = [step EXCEPT ![r] = "sent"]
            /\ bearer' = [bearer EXCEPT ![r] = access]
            /\ controllers' = controllers \cup ({r} \cap Proxied)
            /\ UNCHANGED refreshing
    /\ UNCHANGED <<access, near, refused, tried, lastRefused, hungUp, serving>>

\* Mutant: a refresh is left to the clock.
OnFirst401Waits(r) ==
    /\ step[r] = "sent" /\ bearer[r] <= refused /\ tried[r] = 0
    /\ refreshing' = (refreshing \/ near)
    /\ step' = [step EXCEPT ![r] = "renewing"]
    /\ tried' = [tried EXCEPT ![r] = @ + 1]
    /\ lastRefused' = [lastRefused EXCEPT ![r] = bearer[r]]
    /\ controllers' = controllers \ {r}
    /\ UNCHANGED <<access, near, refused, bearer, hungUp, serving>>

\* The first 401 drops the controller and asks for a refresh.
OnFirst401(r) ==
    /\ step[r] = "sent" /\ bearer[r] <= refused /\ tried[r] = 0
    /\ refreshing' = TRUE
    /\ step' = [step EXCEPT ![r] = "renewing"]
    /\ tried' = [tried EXCEPT ![r] = @ + 1]
    /\ lastRefused' = [lastRefused EXCEPT ![r] = bearer[r]]
    /\ controllers' = controllers \ {r}
    /\ UNCHANGED <<access, near, refused, bearer, hungUp, serving>>

\* The second is the answer: an error for remoteJson(), passed on by the proxy.
OnSecond401(r) ==
    /\ step[r] = "sent" /\ bearer[r] <= refused /\ tried[r] = 1
    /\ step' = [step EXCEPT ![r] = "failed"]
    /\ tried' = [tried EXCEPT ![r] = @ + 1]
    /\ controllers' = controllers \ {r}
    /\ UNCHANGED <<access, near, refused, refreshing, bearer, lastRefused, hungUp, serving>>

\* Anything else is passed on as it comes in.
OnAnswer(r) ==
    /\ step[r] = "sent" /\ bearer[r] > refused
    /\ step' = [step EXCEPT ![r] = IF r \in Reads THEN "done" ELSE "streaming"]
    /\ UNCHANGED <<access, near, refused, refreshing, bearer, tried, lastRefused,
                   controllers, hungUp, serving>>

EndStream(r) ==
    /\ step[r] = "streaming"
    /\ step' = [step EXCEPT ![r] = "done"] /\ controllers' = controllers \ {r}
    /\ UNCHANGED <<access, near, refused, refreshing, bearer, tried, lastRefused,
                   hungUp, serving>>

\* An attempt that is aborted ends, one that waits for its token when it has it.
Abort(rs) ==
    /\ controllers' = controllers \ rs
    /\ step' = Steps({r \in rs \cap controllers : step[r] # "token"}, "failed")

\* The page goes away: the response closes, which aborts the attempt there is.
HangUp(r) ==
    /\ r \in Proxied \ hungUp /\ step[r] \notin {"idle", "done", "failed"}
    /\ hungUp' = hungUp \cup {r}
    /\ Abort({r})
    /\ UNCHANGED <<access, near, refused, refreshing, bearer, tried, lastRefused, serving>>

Close ==
    /\ serving /\ serving' = FALSE
    /\ Abort(controllers)
    /\ UNCHANGED <<access, near, refused, refreshing, bearer, tried, lastRefused, hungUp>>

Next ==
    \/ Age \/ Expire \/ RefreshOk \/ RefreshFails \/ Close
    \/ \E r \in Requests :
          \/ Start(r) \/ OnFirst401(r) \/ OnSecond401(r) \/ OnAnswer(r)
          \/ EndStream(r) \/ HangUp(r)

Spec == Init /\ [][Next]_remoteVars

-----------------------------------------------------------------------------
\* Every variable keeps its type, and a request is never sent a third time.
TypeOK ==
    /\ access \in 1..MaxToken /\ near \in BOOLEAN /\ refused \in 0..access
    /\ refreshing \in BOOLEAN /\ serving \in BOOLEAN
    /\ step \in [Requests -> {"idle", "before", "token", "sent", "renewing",
                              "streaming", "done", "failed"}]
    /\ bearer \in [Requests -> 0..access] /\ lastRefused \in [Requests -> 0..access]
    /\ tried \in [Requests -> 0..2]
    /\ controllers \subseteq Proxied /\ hungUp \subseteq Proxied

\* However many requests share a refresh, whoever started it, a second attempt
\* never carries the token the first was refused with.
RetryIsRenewed ==
    \A r \in Requests : tried[r] > 0 /\ step[r] = "sent" => bearer[r] > lastRefused[r]

\* Nobody waits for a refresh that is not under way: every path that parks a
\* request leaves a refresh to wake it, every end of one wakes all.
WaiterHasRefresh == Renewing # {} => refreshing

\* The set that close() aborts holds the controllers of the attempts under way
\* and no other: none is forgotten while it streams, none is left behind.
ControllersExact ==
    /\ \A r \in Proxied : step[r] \in {"sent", "streaming"} => r \in controllers
    /\ \A r \in controllers : step[r] \in {"token", "sent", "streaming"}

\* What the page or close() has cut off goes no further, but for a request that
\* was between two attempts, or before its first, and had no controller.
CutOff ==
    \A r \in Proxied :
        step[r] \in {"sent", "streaming"} /\ (r \in hungUp \/ ~serving)
            => tried[r] > 0 \/ r \in Waits
=============================================================================
