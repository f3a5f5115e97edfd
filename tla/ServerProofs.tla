---------------------------- MODULE ServerProofs ----------------------------
(***************************************************************************)
(* Theorems about the parts of Sandbox that are the development server's,  *)
(* or a worker's beside it, for all values of the constants: the remote    *)
(* session, what is granted and served, byte ranges, the key-value policy, *)
(* and the worker's cache of images; and the types of all of Sandbox.      *)
(*                                                                         *)
(* Remote: besides each other its invariants need where a request has come *)
(* from: an idle one has been neither refused nor hung up on, one that     *)
(* waits before its first attempt is among Waits, one between two has been *)
(* refused.                                                                *)
(*                                                                         *)
(* Dev: the scopes of a token only grow with a sign-in, so that a page's   *)
(* are always among those of now; and those of now are all served, which   *)
(* takes no invariant but a case for each operation and mode.              *)
(*                                                                         *)
(* Cache: the last of the pushes under way carries the newest token; with  *)
(* none under way the worker has it already, or none.                      *)
(*                                                                         *)
(* Policy: keyMatches() goes from segment to segment.  What it finds from  *)
(* one on is put as a condition on all that follow, shown by a mismatch    *)
(* that has none behind it; the rules of each preset are then looked up.   *)
(***************************************************************************)
EXTENDS SdkProofs, DriveProofs

-----------------------------------------------------------------------------
(* The parts of the composition                                            *)

LEMMA RemotePart == AllSpec => Remote!Spec
<1>1. AllInit => Remote!Init
  BY DEF AllInit
<1>2. [AllNext]_allVars => [Remote!Next]_(Remote!remoteVars)
  BY DEF AllNext, Only, allVars, remoteV, Remote!remoteVars
<1> QED
  BY <1>1, <1>2, PTL DEF AllSpec, Remote!Spec

LEMMA DevPart ==
  AllSpec => (\E written \in Dev!Configs, servers \in BOOLEAN : Dev!InitWith(written, servers))
             /\ [][Dev!Next]_(Dev!vars)
<1>1. AllInit => \E written \in Dev!Configs, servers \in BOOLEAN : Dev!InitWith(written, servers)
  <2>1. [mode |-> "sandbox", notifications |-> "inspect", caps |-> None, viewer |-> None]
          \in Dev!Configs
    BY DEF Dev!Configs
  <2> QED
    BY <2>1 DEF AllInit, Dev!Init
<1>2. [AllNext]_allVars => [Dev!Next]_(Dev!vars)
  BY DEF AllNext, Only, allVars, devV, Dev!vars
<1> QED
  BY <1>1, <1>2, PTL DEF AllSpec

NoQuestion == [first |-> None, last |-> None, size |-> 0]
Asked == Policy!Questions \cup Policy!Ranges \cup {NoQuestion}

LEMMA PolicyPart ==
  AllSpec => (\E question \in Asked : Policy!InitWith(question)) /\ [][Policy!Next]_(Policy!vars)
<1>1. AllInit => \E question \in Asked : Policy!InitWith(question)
  BY DEF AllInit, Policy!Init, Asked, NoQuestion
<1>2. [AllNext]_allVars => [Policy!Next]_(Policy!vars)
  BY DEF AllNext, Only, allVars, rulesV, Policy!vars
<1> QED
  BY <1>1, <1>2, PTL DEF AllSpec

LEMMA CachePart == AllSpec => Cache!Spec
<1>1. AllInit => Cache!Init
  BY DEF AllInit, Cache!Init
<1>2. [AllNext]_allVars => [Cache!Next]_(Cache!cacheVars)
  BY DEF AllNext, Only, allVars, cacheV, Cache!cacheVars
<1> QED
  BY <1>1, <1>2, PTL DEF AllSpec, Cache!Spec

-----------------------------------------------------------------------------
(* The remote session                                                      *)

CameFrom ==
  \A r \in RemoteCalls :
    /\ step[r] = "idle" => tried[r] = 0 /\ r \notin hungUp
    /\ step[r] = "before" => r \in Waits
    /\ step[r] = "renewing" => tried[r] > 0
\* A first attempt whose token is still to come is cut off by taking its controller away.
CutWaiting ==
  \A r \in Remote!Proxied : step[r] = "token" /\ (r \in hungUp \/ ~serving) => r \notin controllers

RemoteInv ==
  /\ Remote!TypeOK /\ CameFrom /\ Remote!RetryIsRenewed /\ Remote!WaiterHasRefresh
  /\ Remote!ControllersExact /\ CutWaiting /\ Remote!CutOff

-----------------------------------------------------------------------------
LEMMA RemoteInit == Remote!Init => RemoteInv
<1> SUFFICES ASSUME Remote!Init PROVE RemoteInv
  OBVIOUS
<1>1. Remote!TypeOK
  <2>1. access = 1 /\ access \in 1..MaxToken /\ 0 \in 0..access /\ refused \in 0..access
    BY SandboxAssumption DEF Remote!Init
  <2>2. near \in BOOLEAN /\ refreshing \in BOOLEAN /\ serving \in BOOLEAN
    BY DEF Remote!Init
  <2>3. /\ bearer \in [RemoteCalls -> 0..access] /\ lastRefused \in [RemoteCalls -> 0..access]
        /\ tried \in [RemoteCalls -> 0..2]
    BY <2>1 DEF Remote!Init
  <2> QED
    BY <2>1, <2>2, <2>3 DEF Remote!Init, Remote!TypeOK
<1>2. CameFrom /\ Remote!RetryIsRenewed /\ Remote!WaiterHasRefresh
  BY DEF Remote!Init, CameFrom, Remote!RetryIsRenewed, Remote!WaiterHasRefresh, Remote!Renewing
<1>3. Remote!ControllersExact /\ CutWaiting /\ Remote!CutOff
  BY DEF Remote!Init, Remote!ControllersExact, CutWaiting, Remote!CutOff, Remote!Proxied
<1> QED
  BY <1>1, <1>2, <1>3 DEF RemoteInv

\* The end of a refresh, request by request.
LEMMA AfterRefresh ==
  ASSUME Remote!TypeOK, Remote!RefreshOk, NEW r \in RemoteCalls
  PROVE  LET cut == r \in Remote!Proxied /\ step[r] = "token" /\ r \notin controllers
             sent == r \in Remote!Renewing /\ ~cut
         IN  /\ cut => step'[r] = "failed" /\ bearer'[r] = bearer[r] /\ r \notin controllers'
             /\ sent => step'[r] = "sent" /\ bearer'[r] = access + 1
                        /\ (r \in Remote!Proxied => r \in controllers')
             /\ ~cut /\ ~sent => step'[r] = step[r] /\ bearer'[r] = bearer[r]
                                 /\ (r \in controllers' <=> r \in controllers)
             /\ r \in controllers' => r \in controllers \/ sent
<1> DEFINE cuts == {q \in Remote!Proxied : step[q] = "token" /\ q \notin controllers}
           sents == Remote!Renewing \ cuts
<1>1. /\ step' = [q \in RemoteCalls |-> CASE q \in cuts  -> "failed"
                                        [] q \in sents -> "sent"
                                        [] OTHER      -> step[q]]
      /\ bearer' = [q \in RemoteCalls |-> IF q \in sents THEN access + 1 ELSE bearer[q]]
      /\ controllers' = controllers \cup (sents \cap Remote!Proxied)
  BY DEF Remote!RefreshOk
<1>2. r \in cuts => r \notin sents
  OBVIOUS
<1> QED
  BY <1>1, <1>2 DEF Remote!Proxied

LEMMA RemoteStepTypes == Remote!TypeOK /\ [Remote!Next]_(Remote!remoteVars) => Remote!TypeOK'
<1> SUFFICES ASSUME Remote!TypeOK, [Remote!Next]_(Remote!remoteVars) PROVE Remote!TypeOK'
  OBVIOUS
<1> USE SandboxAssumption
<1>1. CASE Remote!Age \/ Remote!Expire
  <2>1. near' \in BOOLEAN /\ refreshing' \in BOOLEAN /\ serving' \in BOOLEAN
    BY <1>1, Zenon DEF Remote!Age, Remote!Expire, Remote!TypeOK
  <2>2. access' = access /\ refused' \in 0..access
    BY <1>1 DEF Remote!Age, Remote!Expire, Remote!TypeOK
  <2> QED
    BY <1>1, <2>1, <2>2 DEF Remote!Age, Remote!Expire, Remote!TypeOK
<1>2. CASE Remote!RefreshOk
  <2>1. access' = access + 1 /\ access' \in 1..MaxToken /\ refused' \in 0..access'
    BY <1>2 DEF Remote!RefreshOk, Remote!TypeOK
  <2>5. near' \in BOOLEAN /\ refreshing' \in BOOLEAN /\ serving' \in BOOLEAN
    BY <1>2, Zenon DEF Remote!RefreshOk, Remote!TypeOK
  <2>2. controllers' \subseteq Remote!Proxied /\ hungUp' \subseteq Remote!Proxied
    BY <1>2 DEF Remote!RefreshOk, Remote!TypeOK
  <2>3. /\ step' \in [RemoteCalls -> {"idle", "before", "token", "sent", "renewing",
                                   "streaming", "done", "failed"}]
        /\ bearer' \in [RemoteCalls -> 0..access']
    <3>1. step' = [r \in RemoteCalls |-> step'[r]] /\ bearer' = [r \in RemoteCalls |-> bearer'[r]]
      BY <1>2 DEF Remote!RefreshOk
    <3>2. ASSUME NEW r \in RemoteCalls
          PROVE  /\ step'[r] \in {"idle", "before", "token", "sent", "renewing",
                                  "streaming", "done", "failed"}
                 /\ bearer'[r] \in 0..access'
      <4>1. /\ step'[r] \in {"failed", "sent", step[r]}
            /\ bearer'[r] \in {bearer[r], access + 1}
        BY <1>2, AfterRefresh
      <4>2. /\ step[r] \in {"idle", "before", "token", "sent", "renewing", "streaming", "done", "failed"}
            /\ bearer[r] \in 0..access /\ access \in Nat
        BY DEF Remote!TypeOK
      <4> QED
        BY <2>1, <4>1, <4>2
    <3> QED
      BY <3>1, <3>2
  <2>4. lastRefused' \in [RemoteCalls -> 0..access'] /\ tried' \in [RemoteCalls -> 0..2]
    BY <1>2, <2>1 DEF Remote!RefreshOk, Remote!TypeOK
  <2> QED
    BY <2>1, <2>2, <2>3, <2>4, <2>5 DEF Remote!TypeOK
<1>3. CASE Remote!RefreshFails
  BY <1>3 DEF Remote!RefreshFails, Remote!Steps, Remote!TypeOK
<1>4. ASSUME NEW r \in RemoteCalls, Remote!Start(r) PROVE Remote!TypeOK'
  <2>1. near' \in BOOLEAN /\ refreshing' \in BOOLEAN /\ serving' \in BOOLEAN
    BY <1>4, Zenon DEF Remote!Start, Remote!TypeOK
  <2>2. access' = access /\ access \in 0..access
    BY <1>4 DEF Remote!Start, Remote!TypeOK
  <2>3. bearer' \in [RemoteCalls -> 0..access'] /\ controllers' \subseteq Remote!Proxied
    BY <1>4, <2>2 DEF Remote!Start, Remote!TypeOK
  <2> QED
    BY <1>4, <2>1, <2>2, <2>3 DEF Remote!Start, Remote!TypeOK
<1>5. ASSUME NEW r \in RemoteCalls, Remote!OnFirst401(r) \/ Remote!OnSecond401(r)
  PROVE Remote!TypeOK'
  <2>1. near' \in BOOLEAN /\ refreshing' \in BOOLEAN /\ serving' \in BOOLEAN
    BY <1>5, Zenon DEF Remote!OnFirst401, Remote!OnSecond401, Remote!TypeOK
  <2>2. \E n \in 1..2 : tried' = [tried EXCEPT ![r] = n]
    <3>1. tried' = [tried EXCEPT ![r] = tried[r] + 1] /\ tried[r] + 1 \in 1..2
      BY <1>5 DEF Remote!OnFirst401, Remote!OnSecond401
    <3> QED
      BY <3>1
  <2>3. tried' \in [RemoteCalls -> 0..2]
    BY <2>2 DEF Remote!TypeOK
  <2>4. CASE Remote!OnFirst401(r)
    BY <2>1, <2>3, <2>4 DEF Remote!OnFirst401, Remote!TypeOK
  <2>5. CASE Remote!OnSecond401(r)
    BY <2>1, <2>3, <2>5 DEF Remote!OnSecond401, Remote!TypeOK
  <2> QED
    BY <1>5, <2>4, <2>5
<1>6. ASSUME NEW r \in RemoteCalls, Remote!OnAnswer(r) \/ Remote!EndStream(r) PROVE Remote!TypeOK'
  BY <1>6 DEF Remote!OnAnswer, Remote!EndStream, Remote!TypeOK
<1>7. ASSUME NEW r \in RemoteCalls, Remote!HangUp(r) PROVE Remote!TypeOK'
  BY <1>7 DEF Remote!HangUp, Remote!Abort, Remote!Steps, Remote!TypeOK
<1>8. CASE Remote!Close
  BY <1>8 DEF Remote!Close, Remote!Abort, Remote!Steps, Remote!TypeOK
<1>9. CASE UNCHANGED Remote!remoteVars
  BY <1>9 DEF Remote!remoteVars, Remote!TypeOK
<1> QED
  BY <1>1, <1>2, <1>3, <1>4, <1>5, <1>6, <1>7, <1>8, <1>9 DEF Remote!Next

\* What a request has behind it, and the token it goes on with.
LEMMA StepTokens == RemoteInv /\ [Remote!Next]_(Remote!remoteVars) => (CameFrom /\ Remote!RetryIsRenewed)'
<1> SUFFICES ASSUME RemoteInv, [Remote!Next]_(Remote!remoteVars)
  PROVE (CameFrom /\ Remote!RetryIsRenewed)'
  OBVIOUS
<1> USE DEF RemoteInv
<1>1. CASE Remote!RefreshOk
  <2> SUFFICES ASSUME NEW r \in RemoteCalls
               PROVE  /\ step'[r] = "idle" => tried'[r] = 0 /\ r \notin hungUp'
                      /\ step'[r] = "before" => r \in Waits
                      /\ step'[r] = "renewing" => tried'[r] > 0
                      /\ tried'[r] > 0 /\ step'[r] = "sent" => bearer'[r] > lastRefused'[r]
    BY DEF CameFrom, Remote!RetryIsRenewed
  <2>1. tried' = tried /\ hungUp' = hungUp /\ lastRefused' = lastRefused
    BY <1>1 DEF Remote!RefreshOk
  <2>2. access + 1 > lastRefused[r]
    BY SandboxAssumption DEF Remote!TypeOK
  <2> QED
    BY <1>1, <2>1, <2>2, AfterRefresh DEF CameFrom, Remote!RetryIsRenewed, Remote!Renewing
<1>2. CASE Remote!RefreshFails
  BY <1>2 DEF Remote!RefreshFails, Remote!Steps, CameFrom, Remote!RetryIsRenewed, Remote!TypeOK
<1>3. ASSUME NEW r \in RemoteCalls, Remote!Start(r) PROVE (CameFrom /\ Remote!RetryIsRenewed)'
  BY <1>3 DEF Remote!Start, CameFrom, Remote!RetryIsRenewed, Remote!TypeOK
<1>4. ASSUME NEW r \in RemoteCalls, Remote!OnFirst401(r) \/ Remote!OnSecond401(r)
      PROVE  (CameFrom /\ Remote!RetryIsRenewed)'
  BY <1>4 DEF Remote!OnFirst401, Remote!OnSecond401, CameFrom, Remote!RetryIsRenewed, Remote!TypeOK
<1>5. ASSUME NEW r \in RemoteCalls, Remote!OnAnswer(r) \/ Remote!EndStream(r)
  PROVE (CameFrom /\ Remote!RetryIsRenewed)'
  BY <1>5 DEF Remote!OnAnswer, Remote!EndStream, CameFrom, Remote!RetryIsRenewed, Remote!TypeOK
<1>6. ASSUME NEW r \in RemoteCalls, Remote!HangUp(r) PROVE (CameFrom /\ Remote!RetryIsRenewed)'
  BY <1>6 DEF Remote!HangUp, Remote!Abort, Remote!Steps, CameFrom, Remote!RetryIsRenewed,
    Remote!TypeOK
<1>7. CASE Remote!Close
  BY <1>7 DEF Remote!Close, Remote!Abort, Remote!Steps, CameFrom, Remote!RetryIsRenewed,
    Remote!TypeOK
<1>8. CASE Remote!Age \/ Remote!Expire \/ UNCHANGED Remote!remoteVars
  BY <1>8 DEF Remote!Age, Remote!Expire, Remote!remoteVars, CameFrom, Remote!RetryIsRenewed
<1> QED
  BY <1>1, <1>2, <1>3, <1>4, <1>5, <1>6, <1>7, <1>8 DEF Remote!Next

LEMMA StepWaiters == RemoteInv /\ [Remote!Next]_(Remote!remoteVars) => Remote!WaiterHasRefresh'
<1> SUFFICES ASSUME RemoteInv, [Remote!Next]_(Remote!remoteVars), NEW w \in RemoteCalls,
                    step'[w] \in {"before", "token", "renewing"}
             PROVE  refreshing'
  BY DEF Remote!WaiterHasRefresh, Remote!Renewing
<1> USE DEF RemoteInv, Remote!WaiterHasRefresh, Remote!Renewing
<1>1. CASE Remote!RefreshOk
  BY <1>1, AfterRefresh
<1>2. CASE Remote!RefreshFails
  BY <1>2 DEF Remote!RefreshFails, Remote!Steps
<1>3. ASSUME NEW r \in RemoteCalls, Remote!Start(r) PROVE refreshing'
  BY <1>3 DEF Remote!Start, Remote!TypeOK
<1>4. ASSUME NEW r \in RemoteCalls, Remote!OnFirst401(r) PROVE refreshing'
  BY <1>4 DEF Remote!OnFirst401
<1>5. ASSUME NEW r \in RemoteCalls,
  Remote!OnSecond401(r) \/ Remote!OnAnswer(r) \/ Remote!EndStream(r) PROVE refreshing'
  BY <1>5 DEF Remote!OnSecond401, Remote!OnAnswer, Remote!EndStream, Remote!TypeOK
<1>6. ASSUME NEW r \in RemoteCalls, Remote!HangUp(r) PROVE refreshing'
  BY <1>6 DEF Remote!HangUp, Remote!Abort, Remote!Steps
<1>7. CASE Remote!Close
  BY <1>7 DEF Remote!Close, Remote!Abort, Remote!Steps
<1>8. CASE Remote!Age \/ Remote!Expire \/ UNCHANGED Remote!remoteVars
  BY <1>8 DEF Remote!Age, Remote!Expire, Remote!remoteVars
<1> QED
  BY <1>1, <1>2, <1>3, <1>4, <1>5, <1>6, <1>7, <1>8 DEF Remote!Next

\* Controllers, and what is cut off by means of them.
Cuts == Remote!ControllersExact /\ CutWaiting /\ Remote!CutOff

LEMMA StepCuts == RemoteInv /\ [Remote!Next]_(Remote!remoteVars) => Cuts'
<1> SUFFICES ASSUME RemoteInv, [Remote!Next]_(Remote!remoteVars) PROVE Cuts'
  OBVIOUS
<1> USE DEF RemoteInv, Cuts
<1>1. CASE Remote!RefreshOk
  <2>1. /\ controllers \subseteq Remote!Proxied /\ controllers' \subseteq Remote!Proxied
    /\ Remote!Proxied \subseteq RemoteCalls
        /\ tried' = tried /\ hungUp' = hungUp /\ serving' = serving
    BY <1>1 DEF Remote!RefreshOk, Remote!TypeOK, Remote!Proxied
  <2>2. Remote!ControllersExact'
    BY <1>1, <2>1, AfterRefresh DEF Remote!ControllersExact, Remote!Renewing
  <2>3. CutWaiting'
    BY <1>1, <2>1, AfterRefresh DEF CutWaiting, Remote!Renewing
  <2>4. Remote!CutOff'
    BY <1>1, <2>1, AfterRefresh DEF Remote!CutOff, CutWaiting, CameFrom, Remote!Renewing
  <2> QED
    BY <2>2, <2>3, <2>4
<1>2. CASE Remote!RefreshFails
  BY <1>2 DEF Remote!RefreshFails, Remote!Steps, Remote!Renewing, Remote!ControllersExact,
    CutWaiting, Remote!CutOff, Remote!TypeOK, Remote!Proxied
<1>3. ASSUME NEW r \in RemoteCalls, Remote!Start(r) PROVE Cuts'
  BY <1>3 DEF Remote!Start, Remote!ControllersExact, CutWaiting, Remote!CutOff, CameFrom,
    Remote!TypeOK, Remote!Proxied
<1>4. ASSUME NEW r \in RemoteCalls, Remote!OnFirst401(r) \/ Remote!OnSecond401(r) PROVE Cuts'
  BY <1>4 DEF Remote!OnFirst401, Remote!OnSecond401, Remote!ControllersExact, CutWaiting,
    Remote!CutOff, Remote!TypeOK, Remote!Proxied
<1>5. ASSUME NEW r \in RemoteCalls, Remote!OnAnswer(r) \/ Remote!EndStream(r) PROVE Cuts'
  BY <1>5 DEF Remote!OnAnswer, Remote!EndStream, Remote!ControllersExact, CutWaiting,
    Remote!CutOff, Remote!TypeOK, Remote!Proxied
<1>6. ASSUME NEW r \in RemoteCalls, Remote!HangUp(r) PROVE Cuts'
  BY <1>6 DEF Remote!HangUp, Remote!Abort, Remote!Steps, Remote!ControllersExact, CutWaiting,
    Remote!CutOff, Remote!TypeOK, Remote!Proxied
<1>7. CASE Remote!Close
  BY <1>7 DEF Remote!Close, Remote!Abort, Remote!Steps, Remote!ControllersExact, CutWaiting,
    Remote!CutOff, Remote!TypeOK, Remote!Proxied
<1>8. CASE Remote!Age \/ Remote!Expire \/ UNCHANGED Remote!remoteVars
  BY <1>8 DEF Remote!Age, Remote!Expire, Remote!remoteVars, Remote!ControllersExact, CutWaiting,
    Remote!CutOff
<1> QED
  BY <1>1, <1>2, <1>3, <1>4, <1>5, <1>6, <1>7, <1>8 DEF Remote!Next

LEMMA RemoteInvariant == Remote!Spec => []RemoteInv
<1>1. RemoteInv /\ [Remote!Next]_(Remote!remoteVars) => RemoteInv'
  BY RemoteStepTypes, StepTokens, StepWaiters, StepCuts DEF RemoteInv, Cuts
<1> QED
  BY <1>1, RemoteInit, PTL DEF Remote!Spec

-----------------------------------------------------------------------------
\* Every variable keeps its type; no request of RemoteAppSession is refused a third time.
THEOREM RemoteTypes == AllSpec => []Remote!TypeOK
<1>1. RemoteInv => Remote!TypeOK
  BY DEF RemoteInv
<1> QED
  BY <1>1, RemoteInvariant, RemotePart, PTL

\* However many requests share a refresh(), a second attempt has a token newer than the refused one.
THEOREM SecondAttemptRenewed == AllSpec => []RetryIsRenewed
<1>1. RemoteInv => RetryIsRenewed
  BY DEF RemoteInv, RetryIsRenewed
<1> QED
  BY <1>1, RemoteInvariant, RemotePart, PTL

\* Nobody awaits a refresh() that is not under way.
THEOREM NobodyForgotten == AllSpec => []WaiterHasRefresh
<1>1. RemoteInv => WaiterHasRefresh
  BY DEF RemoteInv, WaiterHasRefresh
<1> QED
  BY <1>1, RemoteInvariant, RemotePart, PTL

\* close() finds the controller of every attempt under way and of no other request.
THEOREM CloseFindsAll == AllSpec => []Remote!ControllersExact
<1>1. RemoteInv => Remote!ControllersExact
  BY DEF RemoteInv
<1> QED
  BY <1>1, RemoteInvariant, RemotePart, PTL

\* A first attempt whose page has gone, or that close() has cut off, is never sent on.
THEOREM CutOffStays == AllSpec => []Remote!CutOff
<1>1. RemoteInv => Remote!CutOff
  BY DEF RemoteInv
<1> QED
  BY <1>1, RemoteInvariant, RemotePart, PTL

-----------------------------------------------------------------------------
(* What is granted and what is served                                      *)

\* What createMaypopSandboxRuntime() has made sure of before it serves.
Validated ==
  /\ Dev!ValidConfig(devConfig)
  /\ devConfig.mode # "sandbox" => "group:read" \in remote
Opened ==
  /\ devConfig.mode = "connected" \/ "mcp" \in Dev!Borrowed => ~fixtures

DevInv ==
  /\ devConfig \in Dev!Configs /\ fixtures \in BOOLEAN
  /\ stage = "minted" => Validated
  /\ stage = "serving" => /\ Validated /\ Opened
                          /\ page.scopes \subseteq Dev!DevelopmentScopes(page.lent)
                          /\ initial.scopes \subseteq Dev!DevelopmentScopes(initial.lent)
  /\ stage # "serving" => page = Dev!NoToken

LEMMA BorrowedScopes ==
  ASSUME NEW granted, granted \in UNION {Dev!LentBy(c) : c \in Dev!Borrowed}
  PROVE  \/ granted = "ai:use" /\ "ai" \in Dev!Borrowed
         \/ granted = "group:read" /\ Dev!Borrowed \cap {"members", "multiplayer"} # {}
         \/ granted \in {"mp:list", "mp:create", "mp:join"} /\ "multiplayer" \in Dev!Borrowed
         \/ granted = "mcp:use" /\ "mcp" \in Dev!Borrowed
<1>1. PICK c \in Dev!Borrowed : granted \in Dev!LentBy(c)
  OBVIOUS
<1> QED
  BY <1>1 DEF Dev!LentBy

\* A server that is all remote grants what the remote session may, and captured notifications.
LEMMA ConnectedServes ==
  ASSUME DevInv, stage = "serving", devConfig.mode = "connected",
         NEW op \in Dev!Operations, Dev!ScopeFor(op) \in Dev!DevelopmentScopes(remote)
  PROVE  Dev!Served(op)
<1>1. ~fixtures
  BY DEF DevInv, Opened
<1>2. Dev!ScopeFor(op) \in remote \/ (Dev!ScopeFor(op) = "notify:send" /\ devConfig.notifications = "inspect")
  BY <1>1 DEF Dev!DevelopmentScopes, Dev!If
<1>3. op = "notify" => devConfig.notifications # "disabled"
  BY <1>1 DEF Dev!DevelopmentScopes, Dev!If, Dev!ScopeFor
<1>4. Dev!ScopeFor(op) = "notify:send" => op = "notify"
  BY DEF Dev!ScopeFor, Dev!Operations
<1> QED
  BY <1>2, <1>3, <1>4 DEF Dev!Served, Dev!Route, Dev!RequireDevelopmentScope

\* One that is all local grants what its viewer's role may do here.
LEMMA SandboxServes ==
  ASSUME DevInv, stage = "serving", devConfig.mode = "sandbox",
         NEW op \in Dev!Operations, Dev!ScopeFor(op) \in Dev!DevelopmentScopes(remote)
  PROVE  Dev!Served(op)
<1>1. Dev!Borrowed = {} /\ devConfig.notifications # "live"
  BY DEF DevInv, Validated, Dev!ValidConfig, Dev!Borrowed
<1>2. \/ Dev!ScopeFor(op) \in {"identity:read", "group:read", "kv:read", "drive:read", "kv:write", "drive:write"}
      \/ Dev!ScopeFor(op) = "notify:send" /\ devConfig.notifications = "inspect"
      \/ Dev!ScopeFor(op) = "mcp:use" /\ fixtures
  BY DEF Dev!DevelopmentScopes, Dev!If, Dev!SandboxScopes
<1>3. op \in {"kvRead", "kvWrite", "driveRead", "driveWrite", "members", "notify", "mcp"}
  BY <1>2 DEF Dev!ScopeFor, Dev!Operations
<1>4. CASE op \in {"kvRead", "driveRead", "members"}
  BY <1>1, <1>4 DEF Dev!Served, Dev!Route, Dev!Forwarded
<1>5. CASE op \in {"kvWrite", "driveWrite"}
  BY <1>1, <1>5 DEF Dev!Served, Dev!Route, Dev!Forwarded, Dev!RequireDevelopmentScope
<1>6. CASE op = "notify"
  <2>1. devConfig.notifications = "inspect"
    BY <1>2, <1>6 DEF Dev!ScopeFor
  <2> QED
    BY <1>6, <2>1 DEF Dev!Served, Dev!Route, Dev!RequireDevelopmentScope
<1>7. CASE op = "mcp"
  <2>1. fixtures
    BY <1>2, <1>7 DEF Dev!ScopeFor
  <2> QED
    BY <1>1, <1>7, <2>1 DEF Dev!Served, Dev!Route, Dev!Forwarded, Dev!RequireDevelopmentScope
<1> QED
  BY <1>3, <1>4, <1>5, <1>6, <1>7

\* One that borrows grants an administrator's scopes here, and what the remote session has of the
\* capabilities that are borrowed.
LEMMA HybridServes ==
  ASSUME DevInv, stage = "serving", devConfig.mode = "hybrid",
         NEW op \in Dev!Operations, Dev!ScopeFor(op) \in Dev!DevelopmentScopes(remote)
  PROVE  Dev!Served(op)
<1>1. devConfig.notifications # "live" /\ "group:read" \in remote
  BY DEF DevInv, Validated, Dev!ValidConfig
<1> DEFINE lent == UNION {Dev!LentBy(c) : c \in Dev!Borrowed}
<1>2. \/ Dev!ScopeFor(op) \in {"identity:read", "group:read", "kv:read", "drive:read", "kv:write", "drive:write"}
      \/ Dev!ScopeFor(op) \in remote \cap lent
      \/ Dev!ScopeFor(op) = "notify:send" /\ devConfig.notifications = "inspect"
      \/ Dev!ScopeFor(op) = "mcp:use" /\ fixtures
  BY DEF Dev!DevelopmentScopes, Dev!If, Dev!SandboxScopes
<1> HIDE DEF lent
<1>3. CASE op \in {"kvRead", "driveRead"}
  BY <1>3 DEF Dev!Served, Dev!Route, Dev!Forwarded
<1>4. CASE op \in {"kvWrite", "driveWrite"}
  BY <1>4 DEF Dev!Served, Dev!Route, Dev!Forwarded, Dev!RequireDevelopmentScope
<1>5. CASE op = "members"
  BY <1>1, <1>5 DEF Dev!Served, Dev!Route, Dev!Forwarded, Dev!ScopeFor
<1>6. CASE op = "notify"
  <2>1. Dev!ScopeFor(op) = "notify:send"
    BY <1>6 DEF Dev!ScopeFor
  <2>2. "notify:send" \notin lent
    BY BorrowedScopes DEF lent
  <2>3. devConfig.notifications = "inspect"
    BY <1>2, <2>1, <2>2
  <2> QED
    BY <1>6, <2>3 DEF Dev!Served, Dev!Route, Dev!RequireDevelopmentScope
<1>7. CASE op \in {"ai", "multiplayer"}
  <2>1. Dev!ScopeFor(op) \in {"ai:use", "mp:list"}
    BY <1>7 DEF Dev!ScopeFor
  <2>2. Dev!ScopeFor(op) \in remote \cap lent
    BY <1>2, <2>1
  <2>3. op \in Dev!Borrowed
    BY <1>7, <2>2, BorrowedScopes DEF lent, Dev!ScopeFor
  <2> QED
    BY <1>7, <2>2, <2>3 DEF Dev!Served, Dev!Route, Dev!Forwarded
<1>8. CASE op = "mcp"
  <2>1. Dev!ScopeFor(op) = "mcp:use"
    BY <1>8 DEF Dev!ScopeFor
  <2>2. CASE fixtures
    <3>1. "mcp" \notin Dev!Borrowed
      BY <2>2 DEF DevInv, Opened
    <3> QED
      BY <1>8, <2>2, <3>1 DEF Dev!Served, Dev!Route, Dev!Forwarded, Dev!RequireDevelopmentScope
  <2>3. CASE ~fixtures
    <3>1. Dev!ScopeFor(op) \in remote \cap lent
      BY <1>2, <2>1, <2>3
    <3>2. op \in Dev!Borrowed
      BY <1>8, <2>1, <3>1, BorrowedScopes DEF lent
    <3> QED
      BY <1>8, <3>1, <3>2 DEF Dev!Served, Dev!Route, Dev!Forwarded
  <2> QED
    BY <2>2, <2>3
<1> QED
  BY <1>3, <1>4, <1>5, <1>6, <1>7, <1>8 DEF Dev!Operations

\* What a session lent and lends no more is all that a refresh can take from the scopes, and only
\* what is passed on needs it.
LEMMA LentIsPassedOn ==
  ASSUME DevInv, stage = "serving", NEW lent,
         NEW op \in Dev!Operations, Dev!ScopeFor(op) \in Dev!DevelopmentScopes(lent),
         Dev!ScopeFor(op) \notin Dev!DevelopmentScopes(remote)
  PROVE  Dev!Route(op) = "remote" /\ Dev!ScopeFor(op) \in lent \ remote
<1> DEFINE needed == Dev!ScopeFor(op)
           borrowed == UNION {Dev!LentBy(c) : c \in Dev!Borrowed}
<1>1. devConfig.mode \in {"sandbox", "hybrid", "connected"}
  BY DEF DevInv, Dev!Configs
<1>2. /\ devConfig.mode # "sandbox" /\ needed \in lent \ remote
      /\ devConfig.mode = "hybrid" => needed \in borrowed
      /\ needed = "notify:send" => devConfig.notifications \notin {"disabled", "inspect"}
  BY <1>1 DEF Dev!DevelopmentScopes, Dev!If
<1>3. op = "notify" <=> needed = "notify:send"
  BY DEF Dev!ScopeFor, Dev!Operations
<1>4. devConfig.mode = "hybrid" => Dev!Forwarded(op)
  <2> SUFFICES ASSUME devConfig.mode = "hybrid" PROVE Dev!Forwarded(op)
    OBVIOUS
  <2>1. needed \in borrowed
    BY <1>2
  <2>2. \/ needed = "ai:use" /\ "ai" \in Dev!Borrowed
        \/ needed = "group:read" /\ Dev!Borrowed \cap {"members", "multiplayer"} # {}
        \/ needed \in {"mp:list", "mp:create", "mp:join"} /\ "multiplayer" \in Dev!Borrowed
        \/ needed = "mcp:use" /\ "mcp" \in Dev!Borrowed
    BY <2>1, BorrowedScopes
  <2> QED
    BY <2>2 DEF Dev!Forwarded, Dev!ScopeFor, Dev!Operations
<1>5. Dev!Route(op) = "remote"
  BY <1>1, <1>2, <1>3, <1>4 DEF Dev!Route
<1> QED
  BY <1>2, <1>5

LEMMA ScopesAreServed == DevInv => Dev!GrantedIsServed
<1> SUFFICES ASSUME DevInv, NEW op \in Dev!Operations, Dev!ScopeFor(op) \in page.scopes
             PROVE  Dev!Served(op) \/ Dev!Withdrawn(op)
  BY DEF Dev!GrantedIsServed
<1>1. stage = "serving" /\ Dev!ScopeFor(op) \in Dev!DevelopmentScopes(page.lent)
  BY DEF DevInv, Dev!NoToken
<1>2. devConfig.mode \in {"sandbox", "hybrid", "connected"}
  BY DEF DevInv, Dev!Configs
<1>3. CASE Dev!ScopeFor(op) \in Dev!DevelopmentScopes(remote)
  BY <1>1, <1>2, <1>3, ConnectedServes, SandboxServes, HybridServes
<1>4. CASE Dev!ScopeFor(op) \notin Dev!DevelopmentScopes(remote)
  BY <1>1, <1>4, LentIsPassedOn DEF Dev!Withdrawn
<1> QED
  BY <1>3, <1>4

\* The scopes depend on nothing else that changes, and a sign-in only adds to them.
LEMMA SameScopes ==
  ASSUME UNCHANGED <<devConfig, fixtures, devSignedIn>>
  PROVE  \A lent : Dev!DevelopmentScopes(lent)' = Dev!DevelopmentScopes(lent)
BY DEF Dev!DevelopmentScopes, Dev!SandboxScopes, Dev!ActiveViewer, Dev!Borrowed

LEMMA SignInGrants ==
  ASSUME DevInv, Dev!SignIn
  PROVE  \A lent : Dev!DevelopmentScopes(lent) \subseteq Dev!DevelopmentScopes(lent)'
<1>1. UNCHANGED <<devConfig, fixtures>> /\ devConfig.mode = "sandbox" /\ devSignedIn' = TRUE
  BY DEF Dev!SignIn
<1>2. devConfig.viewer # None /\ devConfig.viewer.anonymous /\ ~devSignedIn
  BY DEF Dev!SignIn, Dev!ActiveViewer
<1>3. ~Dev!MayWrite(Dev!ActiveViewer.role, Dev!ActiveViewer.anonymous)
  BY <1>2 DEF Dev!ActiveViewer, Dev!MayWrite
<1> QED
  BY <1>1, <1>3 DEF Dev!DevelopmentScopes, Dev!SandboxScopes, Dev!If

LEMMA DevStep == DevInv /\ [Dev!Next]_(Dev!vars) => DevInv'
<1> SUFFICES ASSUME DevInv, [Dev!Next]_(Dev!vars) PROVE DevInv'
  OBVIOUS
<1>1. CASE Dev!Refuse
  BY <1>1 DEF Dev!Refuse, DevInv
<1>2. CASE Dev!Mint
  <2>1. stage' = "refused" \/ (stage' = "minted" /\ remote' \in RemoteGrants)
    BY <1>2 DEF Dev!Mint
  <2>2. UNCHANGED <<devConfig, fixtures, page>> /\ Dev!ValidConfig(devConfig) /\ stage = "starting"
    BY <1>2 DEF Dev!Mint
  <2>3. stage' = "minted" => Validated'
    BY <2>1, <2>2, SandboxAssumption DEF Validated, Dev!ValidConfig, Dev!ValidViewer
  <2> QED
    BY <2>1, <2>2, <2>3 DEF DevInv
<1>3. CASE Dev!Open
  <2>1. /\ UNCHANGED <<devConfig, remote, page>> /\ page = Dev!NoToken
        /\ fixtures' = (fixtures /\ devConfig.mode # "connected") /\ fixtures \in BOOLEAN
        /\ Validated
    BY <1>3 DEF Dev!Open, DevInv, Validated
  <2>2. Validated'
    BY <2>1 DEF Validated, Dev!ValidConfig, Dev!ValidViewer
  <2>3. CASE "mcp" \in Dev!Borrowed /\ fixtures
    BY <1>3, <2>1, <2>2, <2>3 DEF Dev!Open, DevInv
  <2>4. CASE ~("mcp" \in Dev!Borrowed /\ fixtures)
    <3>1. stage' = "serving" /\ initial' = Dev!Token'
      BY <1>3, <2>4 DEF Dev!Open
    <3>2. Opened'
      BY <2>1, <2>4 DEF Opened, Dev!Borrowed
    <3>3. page.scopes = {} /\ UNCHANGED page
      BY <2>1 DEF Dev!NoToken
    <3>4. (initial.scopes \subseteq Dev!DevelopmentScopes(initial.lent))'
      BY <3>1 DEF Dev!Token
    <3> QED
      BY <2>1, <2>2, <3>1, <3>2, <3>3, <3>4 DEF DevInv
  <2> QED
    BY <2>3, <2>4
<1>4. CASE Dev!Session \/ Dev!LoadWithoutSession \/ Dev!Renew
  <2>1. /\ UNCHANGED <<devConfig, fixtures, stage, devSignedIn, initial>>
        /\ remote' \in RemoteGrants \/ remote' = remote
    BY <1>4 DEF Dev!Session, Dev!LoadWithoutSession, Dev!Renew, Dev!CurrentToken
  <2>2. \A lent : Dev!DevelopmentScopes(lent)' = Dev!DevelopmentScopes(lent)
    BY <2>1, SameScopes
  <2>3. stage \in {"minted", "serving"} => Validated'
    <3>1. stage \in {"minted", "serving"} => Validated
      BY DEF DevInv
    <3> QED
      BY <2>1, <3>1, SandboxAssumption DEF Validated, Dev!ValidConfig, Dev!ValidViewer
  <2>4. stage = "serving" => (Opened /\ initial.scopes \subseteq Dev!DevelopmentScopes(initial.lent))'
    BY <2>1, <2>2 DEF DevInv, Opened, Dev!Borrowed
  <2>5. stage = "serving" => (page.scopes \subseteq Dev!DevelopmentScopes(page.lent))'
    <3>1. CASE Dev!Session
      BY <3>1 DEF Dev!Session, Dev!Token
    <3>2. CASE Dev!LoadWithoutSession
      BY <2>2, <3>2 DEF Dev!LoadWithoutSession, DevInv
    <3>3. CASE Dev!Renew
      BY <2>2, <3>3 DEF Dev!Renew, DevInv
    <3> QED
      BY <1>4, <3>1, <3>2, <3>3
  <2>6. stage # "serving" => page' = Dev!NoToken
    BY <1>4 DEF Dev!Session, Dev!LoadWithoutSession, Dev!Renew, DevInv
  <2> QED
    BY <2>1, <2>3, <2>4, <2>5, <2>6 DEF DevInv, Dev!NoToken
<1>5. CASE Dev!SignIn \/ Dev!Notify \/ Dev!ClearNotes \/ UNCHANGED Dev!vars
  <2>1. UNCHANGED <<devConfig, fixtures, stage, remote, initial, page>>
    BY <1>5 DEF Dev!SignIn, Dev!Notify, Dev!ClearNotes, Dev!vars
  <2>2. \A lent : Dev!DevelopmentScopes(lent) \subseteq Dev!DevelopmentScopes(lent)'
    <3>1. CASE Dev!SignIn
      BY <3>1, SignInGrants
    <3>2. CASE Dev!Notify \/ Dev!ClearNotes \/ UNCHANGED Dev!vars
      BY <3>2, SameScopes DEF Dev!Notify, Dev!ClearNotes, Dev!vars
    <3> QED
      BY <1>5, <3>1, <3>2
  <2>3. stage = "serving" => /\ (page.scopes \subseteq Dev!DevelopmentScopes(page.lent))'
                             /\ (initial.scopes \subseteq Dev!DevelopmentScopes(initial.lent))'
    BY <2>1, <2>2 DEF DevInv
  <2> QED
    BY <2>1, <2>3 DEF DevInv, Validated, Opened, Dev!ValidConfig, Dev!ValidViewer, Dev!Borrowed, Dev!NoToken
<1> QED
  BY <1>1, <1>2, <1>3, <1>4, <1>5 DEF Dev!Next

\* Whatever dev.json says, whatever scopes the remote session has, now and after any refresh, and
\* whoever has signed in since the page loaded: a request for which the page's token has the scope is
\* answered, here or by the remote server, unless the scope is one the remote session lent and has lost
\* since; developmentScopes() and handle() of src/src/sandbox/runtime.ts agree.
THEOREM WhatIsGrantedIsServed == AllSpec => []GrantedIsServed
<1>1. (\E written \in Dev!Configs, servers \in BOOLEAN : Dev!InitWith(written, servers)) => DevInv
  BY DEF Dev!InitWith, DevInv
<1>2. DevInv => GrantedIsServed
  BY ScopesAreServed DEF GrantedIsServed
<1> QED
  BY <1>1, <1>2, DevStep, DevPart, PTL

-----------------------------------------------------------------------------
(* Byte ranges                                                             *)

\* A Range header and a file, of any size.
Header(first, last, size) ==
  first \in Numbers \cup {None} /\ last \in Numbers \cup {None} /\ size \in Nat

RangesInv ==
  Policy!IsRange =>
    /\ Header(input.first, input.last, input.size)
    /\ verdict # Policy!Open => verdict = Policy!ParseByteRange(input.first, input.last, input.size)

\* The bytes of a file that a header asks for.
BytesOf(first, last, size) ==
  {b \in 0..size - 1 :
     IF first = None THEN last # None /\ b >= size - last
     ELSE b >= first /\ (last # None => b <= last)}

LEMMA NumbersAndSizes == Numbers \subseteq Nat /\ Sizes \subseteq Nat
<1>1. MaxSafe \in Nat /\ Sizes \subseteq 0..MaxSafe
  BY SandboxAssumption
<1>2. 0..MaxSafe \subseteq Nat
  BY <1>1
<1> QED
  BY <1>1, <1>2, SandboxAssumption

LEMMA SentIsRange ==
  ASSUME NEW start, NEW end
  PROVE  /\ Policy!Send(start, end) # Policy!NoRange
         /\ Policy!Send(start, end).start = start /\ Policy!Send(start, end).end = end
<1>1. Policy!Send(start, end).is = "range" /\ Policy!NoRange.is = "unsatisfiable"
  BY DEF Policy!Send, Policy!NoRange
<1> QED
  BY <1>1 DEF Policy!Send

\* parseByteRange(), by its cases.
LEMMA ByteRanges ==
  ASSUME NEW first, NEW last, NEW size, Header(first, last, size)
  PROVE  LET range == Policy!ParseByteRange(first, last, size)
         IN  IF range = Policy!NoRange
             THEN BytesOf(first, last, size) = {} \/ Policy!Unsafe(first) \/ Policy!Unsafe(last)
             ELSE /\ BytesOf(first, last, size) # {}
                  /\ BytesOf(first, last, size) = range.start..range.end
<1> DEFINE range == Policy!ParseByteRange(first, last, size)
           bytes == BytesOf(first, last, size)
<1> SUFFICES ASSUME ~(range = Policy!NoRange /\ (Policy!Unsafe(first) \/ Policy!Unsafe(last)))
             PROVE  IF range = Policy!NoRange THEN bytes = {}
                    ELSE bytes # {} /\ bytes = range.start..range.end
  OBVIOUS
<1>0. ~Policy!Unsafe(first) /\ ~Policy!Unsafe(last)
  BY DEF Policy!ParseByteRange
<1>1. /\ size \in Nat
      /\ first # None => first \in Nat
      /\ last # None => last \in Nat
  BY SandboxAssumption DEF Header
<1>2. CASE size = 0
  BY <1>2 DEF Policy!ParseByteRange, BytesOf
<1>3. CASE size # 0 /\ first = None /\ (last = None \/ last = 0)
  <2>1. \A b \in bytes : b \in 0..size - 1 /\ last # None /\ b >= size - last
    BY <1>3 DEF BytesOf
  <2>2. bytes = {}
    <3>1. CASE last = None
      BY <2>1, <3>1
    <3>2. CASE last = 0
      BY <1>1, <2>1, <3>2
    <3> QED
      BY <1>3, <3>1, <3>2
  <2>3. range = Policy!NoRange
    BY <1>0, <1>3 DEF Policy!ParseByteRange
  <2> QED
    BY <2>2, <2>3
<1>4. CASE size # 0 /\ first = None /\ last # None /\ last # 0
  <2> DEFINE from == IF size - last > 0 THEN size - last ELSE 0
  <2>1. range = Policy!Send(from, size - 1)
    BY <1>0, <1>4 DEF Policy!ParseByteRange
  <2>2. from \in 0..size - 1 /\ bytes = from..size - 1
    <3>1. \A b : b \in bytes <=> b \in 0..size - 1 /\ b >= size - last
      BY <1>4 DEF BytesOf
    <3>2. last \in Nat /\ last # 0 /\ size \in Nat /\ size # 0
      BY <1>1, <1>4
    <3>3. from \in 0..size - 1 /\ \A b \in 0..size - 1 : b >= size - last <=> b >= from
      BY <3>2
    <3>4. \A b : b \in from..size - 1 <=> b \in 0..size - 1 /\ b >= from
      BY <3>2, <3>3
    <3> QED
      BY <3>1, <3>3, <3>4
  <2>3. range # Policy!NoRange /\ range.start = from /\ range.end = size - 1
    BY <2>1, SentIsRange
  <2> QED
    BY <1>1, <2>2, <2>3
<1>5. CASE size # 0 /\ first # None
  <2> DEFINE requested == IF last = None THEN size - 1 ELSE last
             upTo == IF requested < size - 1 THEN requested ELSE size - 1
  <2>1. CASE first >= size \/ requested < first
    <3>1. \A b \in bytes : b \in 0..size - 1 /\ b >= first /\ (last # None => b <= last)
      BY <1>5 DEF BytesOf
    <3>2. bytes = {}
      <4>1. first \in Nat /\ size \in Nat
        BY <1>1, <1>5
      <4>2. CASE last = None
        BY <2>1, <3>1, <4>1, <4>2
      <4>3. CASE last # None
        BY <1>1, <2>1, <3>1, <4>1, <4>3
      <4> QED
        BY <4>2, <4>3
    <3>3. range = Policy!NoRange
      BY <1>0, <1>5, <2>1 DEF Policy!ParseByteRange
    <3> QED
      BY <3>2, <3>3
  <2>2. CASE ~(first >= size \/ requested < first)
    <3>1. range = Policy!Send(first, upTo)
      BY <1>0, <1>5, <2>2 DEF Policy!ParseByteRange
    <3>2. first \in Int /\ upTo \in Int /\ first <= upTo /\ bytes = first..upTo
      <4>1. \A b : b \in bytes <=> b \in 0..size - 1 /\ b >= first /\ (last # None => b <= last)
        BY <1>5 DEF BytesOf
      <4>2. first \in Nat /\ size \in Nat /\ first < size
        BY <1>1, <1>5, <2>2
      <4>3. requested \in Nat /\ first <= requested
        BY <1>1, <2>2, <4>2
      <4>0. requested = IF last = None THEN size - 1 ELSE last
        OBVIOUS
      <4> HIDE DEF requested
      <4>4. \A b : b \in bytes <=> b \in 0..size - 1 /\ b >= first /\ b <= requested
        <5>1. CASE last = None
          <6>1. requested = size - 1
            BY <4>0, <5>1
          <6>2. \A b \in 0..size - 1 : b <= requested
            BY <4>2, <6>1
          <6> QED
            BY <4>1, <5>1, <6>2
        <5>2. CASE last # None
          <6>1. requested = last
            BY <4>0, <5>2
          <6> QED
            BY <4>1, <5>2, <6>1
        <5> QED
          BY <5>1, <5>2
      <4>5. upTo \in Int /\ first <= upTo
        BY <4>2, <4>3
      <4>6. \A b : b \in first..upTo <=> b \in 0..size - 1 /\ b >= first /\ b <= requested
        BY <4>2, <4>3
      <4>7. bytes = first..upTo
        BY <4>4, <4>6
      <4> QED
        BY <4>2, <4>5, <4>7
    <3>3. range # Policy!NoRange /\ range.start = first /\ range.end = upTo
      BY <3>1, SentIsRange
    <3> HIDE DEF upTo
    <3>4. first \in first..upTo
      BY <3>2
    <3> QED
      BY <3>2, <3>3, <3>4
  <2> QED
    BY <2>1, <2>2
<1> QED
  BY <1>1, <1>2, <1>3, <1>4, <1>5

LEMMA RangesInit == ASSUME NEW question \in Asked, Policy!InitWith(question) PROVE RangesInv
<1> SUFFICES ASSUME "size" \in DOMAIN question PROVE Header(question.first, question.last, question.size)
  BY DEF Policy!InitWith, Policy!IsRange, RangesInv
<1>1. question \notin Policy!Questions
  BY DEF Policy!Questions
<1>2. CASE question \in Policy!Ranges
  BY <1>2, NumbersAndSizes DEF Policy!Ranges, Header
<1>3. CASE question = NoQuestion
  BY <1>3 DEF NoQuestion, Header
<1> QED
  BY <1>1, <1>2, <1>3 DEF Asked

LEMMA RangesStep == RangesInv /\ [Policy!Next]_(Policy!vars) => RangesInv'
BY DEF RangesInv, Policy!Next, Policy!AskPolicy, Policy!AskRange, Policy!vars, Policy!IsRange

\* The bytes that parseByteRange() of src/src/sandbox/runtime.ts has the server send are those the
\* header asks for, for files of every size and whatever numbers there are in the header; it refuses
\* a header only if the file has no such byte or a number in it is not a safe integer.
THEOREM RangesAreExact == AllSpec => []RangeExact
<1>1. (\E question \in Asked : Policy!InitWith(question)) => RangesInv
  BY RangesInit
<1>2. RangesInv => RangeExact
  BY ByteRanges DEF RangesInv, RangeExact, Policy!RangeExact, BytesOf
<1> QED
  BY <1>1, <1>2, RangesStep, PolicyPart, PTL
-----------------------------------------------------------------------------
(* The worker's cache                                                      *)

CacheMessage == [what : {"config", "answer"}, token : Nat]

\* Nothing is sent to a worker, and it asks for nothing, before it is in control.
CacheStages ==
  /\ token \in Nat /\ wire \in Seq(CacheMessage)
  /\ worker = "none" => token = 0
  /\ worker # "up" => wire = <<>> /\ config = 0 /\ ~pulled /\ pull = "none"

IsPush(i) == wire[i].what = "config"
LastPush(i) == IsPush(i) /\ \A j \in DOMAIN wire : j > i => ~IsPush(j)
LastIsNewest == \A i \in DOMAIN wire : LastPush(i) => wire[i].token = token
NoneLeft == (\A i \in DOMAIN wire : ~IsPush(i)) /\ ~pulled => config \in {0, token}
CacheInv == CacheStages /\ LastIsNewest /\ NoneLeft

\* What is under way once message i is taken out: one less, the messages before i
\* where they were, the ones after i one place further to the front.
LEMMA TakenOut ==
  ASSUME wire \in Seq(CacheMessage), NEW i \in 1..Len(wire)
  PROVE  /\ Cache!Without(i) \in Seq(CacheMessage)
         /\ DOMAIN Cache!Without(i) = 1..(Len(wire) - 1)
         /\ \A k \in 1..(Len(wire) - 1) :
              Cache!Without(i)[k] = IF k < i THEN wire[k] ELSE wire[k + 1]
<1> DEFINE a == SubSeq(wire, 1, i - 1)
           b == SubSeq(wire, i + 1, Len(wire))
<1>1. i \in 1..Len(wire) /\ Len(wire) \in Nat
  OBVIOUS
<1>2. a \in Seq(CacheMessage) /\ Len(a) = i - 1 /\ \A k \in 1..(i - 1) : a[k] = wire[k]
  BY <1>1
<1>3. /\ b \in Seq(CacheMessage) /\ Len(b) = Len(wire) - i
      /\ \A k \in 1..(Len(wire) - i) : b[k] = wire[k + i]
  BY <1>1
<1>4. Cache!Without(i) = a \o b
  BY DEF Cache!Without
<1> HIDE DEF a, b
<1>5. /\ a \o b \in Seq(CacheMessage)
      /\ Len(a \o b) = Len(wire) - 1
      /\ \A k \in 1..(Len(wire) - 1) : (a \o b)[k] = IF k <= i - 1 THEN a[k] ELSE b[k - (i - 1)]
  <2> HIDE DEF CacheMessage
  <2>1. a \o b \in Seq(CacheMessage) /\ Len(a \o b) = Len(wire) - 1
    <3>1. a \o b \in Seq(CacheMessage) /\ Len(a \o b) = Len(a) + Len(b)
      BY <1>2, <1>3, ConcatProperties
    <3> QED
      BY <1>1, <1>2, <1>3, <3>1
  <2>2. ASSUME NEW k \in 1..(Len(wire) - 1)
        PROVE  (a \o b)[k] = IF k <= i - 1 THEN a[k] ELSE b[k - (i - 1)]
    <3>1. k \in 1..(Len(a) + Len(b))
      BY <1>1, <1>2, <1>3
    <3>2. (a \o b)[k] = IF k <= Len(a) THEN a[k] ELSE b[k - Len(a)]
      BY <1>2, <1>3, <3>1, ConcatProperties
    <3> QED
      BY <1>2, <3>2
  <2> QED
    BY <2>1, <2>2
<1>6. ASSUME NEW k \in 1..(Len(wire) - 1)
      PROVE  (a \o b)[k] = IF k < i THEN wire[k] ELSE wire[k + 1]
  <2>1. CASE k < i
    BY <2>1, <1>1, <1>2, <1>5
  <2>2. CASE ~(k < i)
    <3>1. k - (i - 1) \in 1..(Len(wire) - i) /\ (k - (i - 1)) + i = k + 1
      BY <2>2, <1>1
    <3> QED
      BY <3>1, <2>2, <1>1, <1>3, <1>5
  <2> QED
    BY <2>1, <2>2
<1>7. DOMAIN (a \o b) = 1..(Len(wire) - 1)
  BY <1>5
<1> QED
  BY <1>4, <1>5, <1>6, <1>7

\* A message that is sent is the last one under way.
LEMMA Sent ==
  ASSUME wire \in Seq(CacheMessage), NEW m \in CacheMessage
  PROVE  /\ Append(wire, m) \in Seq(CacheMessage)
         /\ DOMAIN Append(wire, m) = 1..(Len(wire) + 1) /\ DOMAIN wire = 1..Len(wire)
         /\ Append(wire, m)[Len(wire) + 1] = m
         /\ \A k \in 1..Len(wire) : Append(wire, m)[k] = wire[k]
  OBVIOUS

\* A push of the newest token is the last of the pushes.
LEMMA Pushed ==
  ASSUME CacheInv, token' \in Nat, worker' = "up",
         wire' = Append(wire, [what |-> "config", token |-> token'])
  PROVE  CacheInv'
<1> DEFINE m == [what |-> "config", token |-> token']
<1>1. m \in CacheMessage /\ m.what = "config" /\ m.token = token'
  BY DEF CacheMessage
<1> HIDE DEF m
<1>2. wire' = Append(wire, m) /\ wire \in Seq(CacheMessage) /\ Len(wire) \in Nat
  BY DEF m, CacheInv, CacheStages
<1>3. /\ wire' \in Seq(CacheMessage) /\ DOMAIN wire' = 1..(Len(wire) + 1)
      /\ wire'[Len(wire) + 1] = m
  BY <1>1, <1>2, Sent
<1>4. CacheStages'
  BY <1>3 DEF CacheStages
<1>5. LastIsNewest'
  <2> SUFFICES ASSUME NEW i \in 1..(Len(wire) + 1), LastPush(i)' PROVE wire'[i].token = token'
    BY <1>3 DEF LastIsNewest
  <2>1. i = Len(wire) + 1
    BY <1>1, <1>2, <1>3 DEF LastPush, IsPush
  <2> QED
    BY <1>1, <1>3, <2>1
<1>6. NoneLeft'
  BY <1>1, <1>2, <1>3 DEF NoneLeft, IsPush
<1> QED
  BY <1>4, <1>5, <1>6 DEF CacheInv

\* An answer sent changes nothing about the pushes.
LEMMA Answered ==
  ASSUME CacheInv, UNCHANGED <<token, worker, config, pulled>>, worker = "up",
         NEW tok \in Nat, wire' = Append(wire, [what |-> "answer", token |-> tok])
  PROVE  CacheInv'
<1> DEFINE m == [what |-> "answer", token |-> tok]
<1>1. m \in CacheMessage /\ m.what # "config"
  BY DEF CacheMessage
<1> HIDE DEF m
<1>2. wire' = Append(wire, m) /\ wire \in Seq(CacheMessage) /\ Len(wire) \in Nat
  BY DEF m, CacheInv, CacheStages
<1>3. /\ wire' \in Seq(CacheMessage) /\ DOMAIN wire' = 1..(Len(wire) + 1)
      /\ DOMAIN wire = 1..Len(wire)
      /\ wire'[Len(wire) + 1] = m /\ \A k \in 1..Len(wire) : wire'[k] = wire[k]
  BY <1>1, <1>2, Sent
<1>4. CacheStages'
  BY <1>3 DEF CacheInv, CacheStages
<1>5. LastIsNewest'
  <2> SUFFICES ASSUME NEW i \in 1..(Len(wire) + 1), LastPush(i)' PROVE wire'[i].token = token
    BY <1>3 DEF LastIsNewest
  <2>1. i \in 1..Len(wire)
    BY <1>1, <1>2, <1>3 DEF LastPush, IsPush
  <2>2. LastPush(i)
    BY <1>2, <1>3, <2>1 DEF LastPush, IsPush
  <2> QED
    BY <1>3, <2>1, <2>2 DEF CacheInv, LastIsNewest
<1>6. NoneLeft'
  BY <1>2, <1>3 DEF CacheInv, NoneLeft, IsPush
<1> QED
  BY <1>4, <1>5, <1>6 DEF CacheInv

\* Nor does an answer that is taken, or drops out.
LEMMA AnswerTaken ==
  ASSUME CacheInv, NEW i \in 1..Len(wire), wire[i].what = "answer", wire' = Cache!Without(i),
         UNCHANGED <<token, worker>>, pulled' \/ (~pulled /\ UNCHANGED config)
  PROVE  CacheInv'
<1>1. wire \in Seq(CacheMessage) /\ Len(wire) \in Nat \ {0} /\ DOMAIN wire = 1..Len(wire)
  BY DEF CacheInv, CacheStages
<1>2. /\ wire' \in Seq(CacheMessage) /\ DOMAIN wire' = 1..(Len(wire) - 1)
      /\ \A k \in 1..(Len(wire) - 1) : wire'[k] = IF k < i THEN wire[k] ELSE wire[k + 1]
  BY <1>1, TakenOut
<1> DEFINE at(k) == IF k < i THEN k ELSE k + 1
           back(j) == IF j < i THEN j ELSE j - 1
<1>3. \A k \in 1..(Len(wire) - 1) : at(k) \in 1..Len(wire) /\ wire'[k] = wire[at(k)]
  BY <1>1, <1>2
<1>4. \A j \in 1..Len(wire) : IsPush(j) => back(j) \in 1..(Len(wire) - 1) /\ at(back(j)) = j
  BY <1>1 DEF IsPush
<1>5. wire # <<>>
  BY <1>1
<1>6. CacheStages'
  BY <1>2, <1>5 DEF CacheInv, CacheStages
<1>7. LastIsNewest'
  <2> SUFFICES ASSUME NEW k \in 1..(Len(wire) - 1), LastPush(k)' PROVE wire'[k].token = token
    BY <1>2 DEF LastIsNewest
  <2>1. wire'[k] = wire[at(k)] /\ at(k) \in 1..Len(wire) /\ IsPush(at(k))
    BY <1>3 DEF LastPush, IsPush
  <2>2. ASSUME NEW j \in 1..Len(wire), j > at(k), IsPush(j) PROVE FALSE
    <3>1. back(j) \in 1..(Len(wire) - 1) /\ at(back(j)) = j
      BY <1>4, <2>2
    <3>2. back(j) > k
      BY <1>1, <2>2, <3>1
    <3>3. IsPush(back(j))'
      BY <1>3, <2>2, <3>1 DEF IsPush
    <3> QED
      BY <1>2, <3>1, <3>2, <3>3 DEF LastPush
  <2>3. LastPush(at(k))
    BY <1>1, <2>1, <2>2 DEF LastPush
  <2> QED
    BY <1>1, <2>1, <2>3 DEF CacheInv, LastIsNewest
<1>8. NoneLeft'
  <2> SUFFICES ASSUME \A k \in 1..(Len(wire) - 1) : ~IsPush(k)', ~pulled' PROVE config' \in {0, token}
    BY <1>2 DEF NoneLeft
  <2>1. ASSUME NEW j \in 1..Len(wire), IsPush(j) PROVE FALSE
    <3>1. back(j) \in 1..(Len(wire) - 1) /\ at(back(j)) = j
      BY <1>4, <2>1
    <3>2. wire'[back(j)] = wire[j]
      BY <1>3, <3>1
    <3> QED
      BY <2>1, <3>1, <3>2 DEF IsPush
  <2> QED
    BY <1>1, <2>1 DEF CacheInv, NoneLeft
<1> QED
  BY <1>6, <1>7, <1>8 DEF CacheInv

\* The push that is taken is the first; if no other follows, it carries the newest token.
LEMMA PushTaken ==
  ASSUME CacheInv, NEW i \in 1..Len(wire), Cache!OnConfig(i)
  PROVE  CacheInv'
<1>1. wire \in Seq(CacheMessage) /\ Len(wire) \in Nat \ {0} /\ DOMAIN wire = 1..Len(wire)
  BY DEF CacheInv, CacheStages
<1>2. /\ wire' = Cache!Without(i) /\ config' = wire[i].token /\ pulled' = FALSE
      /\ UNCHANGED <<token, worker>> /\ IsPush(i)
      /\ \A j \in 1..i - 1 : ~IsPush(j)
  BY DEF Cache!OnConfig, Cache!Arrived, Cache!tokenVars, IsPush
<1>3. /\ wire' \in Seq(CacheMessage) /\ DOMAIN wire' = 1..(Len(wire) - 1)
      /\ \A k \in 1..(Len(wire) - 1) : wire'[k] = IF k < i THEN wire[k] ELSE wire[k + 1]
  BY <1>1, <1>2, TakenOut
<1>4. wire # <<>>
  BY <1>1
<1>5. CacheStages'
  BY <1>2, <1>3, <1>4 DEF CacheInv, CacheStages
<1>6. \A j \in 1..Len(wire) : j > i => j - 1 \in 1..(Len(wire) - 1) /\ wire'[j - 1] = wire[j]
  BY <1>1, <1>3
<1>7. LastIsNewest'
  <2> SUFFICES ASSUME NEW k \in 1..(Len(wire) - 1), LastPush(k)' PROVE wire'[k].token = token
    BY <1>2, <1>3 DEF LastIsNewest
  <2>1. k + 1 \in 1..Len(wire) /\ k + 1 > i /\ wire'[k] = wire[k + 1]
    <3>1. ~(k < i)
      BY <1>1, <1>2, <1>3 DEF LastPush, IsPush
    <3> QED
      BY <1>1, <1>3, <3>1
  <2>2. ASSUME NEW j \in 1..Len(wire), j > k + 1, IsPush(j) PROVE FALSE
    <3>1. j - 1 \in 1..(Len(wire) - 1) /\ wire'[j - 1] = wire[j] /\ j - 1 > k
      BY <1>1, <1>6, <2>1, <2>2
    <3> QED
      BY <1>3, <2>2, <3>1 DEF LastPush, IsPush
  <2>3. IsPush(k + 1)
    BY <2>1 DEF LastPush, IsPush
  <2>4. LastPush(k + 1)
    BY <1>1, <2>2, <2>3 DEF LastPush
  <2> QED
    BY <1>1, <2>1, <2>4 DEF CacheInv, LastIsNewest
<1>8. NoneLeft'
  <2> SUFFICES ASSUME \A k \in 1..(Len(wire) - 1) : ~IsPush(k)' PROVE config' = token
    BY <1>2, <1>3 DEF NoneLeft
  <2>1. \A j \in 1..Len(wire) : j > i => ~IsPush(j)
    BY <1>6 DEF IsPush
  <2>2. LastPush(i)
    BY <1>1, <1>2, <2>1 DEF LastPush
  <2> QED
    BY <1>1, <1>2, <2>2 DEF CacheInv, LastIsNewest
<1> QED
  BY <1>5, <1>7, <1>8 DEF CacheInv

LEMMA CacheStays ==
  ASSUME CacheInv, UNCHANGED <<token, wire, config, pulled, worker>>,
         worker # "up" => pull' = "none"
  PROVE  CacheInv'
BY DEF CacheInv, CacheStages, LastIsNewest, LastPush, IsPush, NoneLeft

LEMMA CacheStep == CacheInv /\ [Cache!Next]_(Cache!cacheVars) => CacheInv'
<1> SUFFICES ASSUME CacheInv, [Cache!Next]_(Cache!cacheVars) PROVE CacheInv'
  OBVIOUS
<1>1. CASE Cache!SetToken
  <2>1. token \in Nat /\ token' = token + 1 /\ UNCHANGED <<config, pulled, pull>>
    BY <1>1 DEF Cache!SetToken, Cache!workerVars, CacheInv, CacheStages
  <2>2. token' \in Nat
    BY <2>1
  <2>3. CASE worker = "up"
    <3>1. worker' = "up" /\ wire' = Append(wire, [what |-> "config", token |-> token'])
      BY <1>1, <2>3 DEF Cache!SetToken, Cache!Push
    <3> QED
      BY <2>2, <3>1, Pushed
  <2>4. CASE worker # "up"
    <3>1. wire' = <<>> /\ wire = <<>> /\ worker' \notin {"none", "up"} /\ config' = 0 /\ ~pulled' /\ pull' = "none"
      BY <1>1, <2>1, <2>4 DEF Cache!SetToken, Cache!Push, CacheInv, CacheStages
    <3> QED
      BY <2>2, <3>1 DEF CacheInv, CacheStages, LastIsNewest, NoneLeft
  <2> QED
    BY <2>3, <2>4
<1>2. CASE Cache!Revoke \/ Cache!Expire
  BY <1>2, CacheStays DEF Cache!Revoke, Cache!Expire, Cache!workerVars, CacheInv, CacheStages
<1>3. ASSUME NEW ok \in BOOLEAN, Cache!Registered(ok) PROVE CacheInv'
  <2>1. UNCHANGED <<token, config, pulled, pull>> /\ worker = "registering"
        /\ wire = <<>> /\ config = 0 /\ ~pulled /\ pull = "none" /\ token \in Nat
    BY <1>3 DEF Cache!Registered, Cache!tokenVars, Cache!workerVars, CacheInv, CacheStages
  <2>2. CASE ok /\ ~revoked
    <3>1. worker' = "up" /\ wire' = Append(wire, [what |-> "config", token |-> token'])
      BY <1>3, <2>1, <2>2 DEF Cache!Registered
    <3> QED
      BY <2>1, <3>1, Pushed
  <2>3. CASE ~(ok /\ ~revoked)
    <3>1. wire' = <<>> /\ worker' # "none"
      BY <1>3, <2>1, <2>3 DEF Cache!Registered
    <3> QED
      BY <2>1, <3>1 DEF CacheInv, CacheStages, LastIsNewest, NoneLeft
  <2> QED
    BY <2>2, <2>3
<1>4. CASE Cache!AnswerPull
  <2>1. /\ UNCHANGED <<token, worker, config, pulled>> /\ pull = "asked"
        /\ wire' = Append(wire, [what |-> "answer", token |-> IF revoked THEN 0 ELSE token])
    BY <1>4 DEF Cache!AnswerPull, Cache!tokenVars
  <2>2. worker = "up" /\ (IF revoked THEN 0 ELSE token) \in Nat
    BY <2>1 DEF CacheInv, CacheStages
  <2> QED
    BY <2>1, <2>2, Answered
<1>5. ASSUME NEW i \in 1..Len(wire), Cache!OnConfig(i) PROVE CacheInv'
  BY <1>5, PushTaken
<1>6. ASSUME NEW i \in 1..Len(wire), Cache!OnPulled(i) PROVE CacheInv'
  <2>1. /\ wire[i].what = "answer" /\ wire' = Cache!Without(i) /\ UNCHANGED <<token, worker>>
        /\ pulled' \/ (~pulled /\ UNCHANGED config)
    <3>1. /\ wire[i].what = "answer" /\ wire' = Cache!Without(i) /\ Cache!Pulled(wire[i].token)
      BY <1>6 DEF Cache!OnPulled
    <3>2. UNCHANGED <<token, worker>>
      BY <3>1 DEF Cache!Pulled, Cache!tokenVars
    <3>3. CASE wire[i].token = 0
      <4>1. config' = config /\ (pulled' <=> pulled)
        BY <3>1, <3>3 DEF Cache!Pulled
      <4> QED
        BY <3>1, <3>2, <4>1
    <3>4. CASE wire[i].token # 0
      <4>1. pulled' = (TRUE \/ pulled)
        BY <3>1, <3>4 DEF Cache!Pulled
      <4> QED
        BY <3>1, <3>2, <4>1
    <3> QED
      BY <3>3, <3>4
  <2> QED
    BY <2>1, AnswerTaken
<1>7. CASE Cache!PullTimeout
  <2>1. UNCHANGED <<token, worker, config>> /\ (pulled' <=> pulled) /\ pull' = "none"
    BY <1>7 DEF Cache!PullTimeout, Cache!Pulled, Cache!tokenVars
  <2>2. CASE UNCHANGED wire
    BY <2>1, <2>2 DEF CacheInv, CacheStages, LastIsNewest, LastPush, IsPush, NoneLeft
  <2>3. ASSUME NEW i \in 1..Len(wire), wire[i].what = "answer", wire' = Cache!Without(i)
        PROVE  CacheInv'
    BY <2>1, <2>3, AnswerTaken
  <2> QED
    BY <1>7, <2>2, <2>3 DEF Cache!PullTimeout
<1>8. CASE Cache!Evict
  BY <1>8 DEF Cache!Evict, Cache!tokenVars, CacheInv, CacheStages, LastIsNewest, LastPush, IsPush, NoneLeft
<1>9. ASSUME NEW u \in ImageUrls,
             Cache!CallUrl(u) \/ Cache!ResolveUrl(u) \/ Cache!Download(u) \/ Cache!FailDownload(u)
      PROVE  CacheInv'
  BY <1>9, CacheStays
  DEF Cache!CallUrl, Cache!ResolveUrl, Cache!Download, Cache!FailDownload, Cache!tokenVars,
      Cache!workerVars, CacheInv, CacheStages
<1>10. ASSUME NEW f \in Fetches, NEW seek \in BOOLEAN, Cache!Get(f, seek) PROVE CacheInv'
  BY <1>10, CacheStays DEF Cache!Get, Cache!tokenVars
<1>11. ASSUME NEW f \in Fetches, NEW b, Cache!OnBytes(f, b) PROVE CacheInv'
  BY <1>11, CacheStays DEF Cache!OnBytes, Cache!tokenVars, CacheInv, CacheStages
<1>12. CASE UNCHANGED Cache!cacheVars
  BY <1>12, CacheStays DEF Cache!cacheVars, CacheInv, CacheStages
<1> QED
  BY <1>1, <1>2, <1>3, <1>4, <1>5, <1>6, <1>7, <1>8, <1>9, <1>10, <1>11, <1>12 DEF Cache!Next

\* The worker of src/src/app-cache-sw.ts ends up with the page's newest token, or with none, once
\* everything pushed to it has arrived, for any number of tokens, pulls, timeouts and evictions.
THEOREM WorkerCatchesUp == AllSpec => []ConfigCatchesUp
<1>1. Cache!Init => CacheInv
  BY DEF Cache!Init, Cache!InitWith, CacheInv, CacheStages, LastIsNewest, NoneLeft
<1>2. CacheInv => ConfigCatchesUp
  BY DEF CacheInv, NoneLeft, ConfigCatchesUp, Cache!ConfigCatchesUp
<1> QED
  BY <1>1, <1>2, CacheStep, CachePart, PTL DEF Cache!Spec

-----------------------------------------------------------------------------
(* Key-value policy: who may do what with which key                        *)

LEMMA SameTruth == ASSUME NEW p \in BOOLEAN, NEW q \in BOOLEAN, p <=> q PROVE p = q
OBVIOUS

\* Segment i of a key is what the pattern has there.
Fit(pattern, key, member, i) ==
  \/ pattern[i] = "*"
  \/ pattern[i] = "{memberId}" /\ key[i] = member
  \/ pattern[i] \notin Policy!Wild /\ pattern[i] = key[i]
Unbounded(pattern) == pattern # <<>> /\ pattern[Len(pattern)] = "**"
\* What keyMatches() has yet to find out once it has come to segment i.
FitsFrom(pattern, key, member, i) ==
  LET n == Len(pattern)
  IN  IF Unbounded(pattern) /\ i <= n
      THEN i = n \/ (Len(key) >= n - 1 /\ \A j \in i..n - 1 : Fit(pattern, key, member, j))
      ELSE Len(key) = n /\ \A j \in i..n : Fit(pattern, key, member, j)

\* keyMatches() goes from segment to segment; what it finds is what FitsFrom says of them all at once.
LEMMA KeyMatching ==
  ASSUME NEW S, NEW pattern \in Seq(S), NEW key \in Seq(STRING), NEW member,
         \A i \in 1..Len(pattern) : pattern[i] = "**" => i = Len(pattern)
  PROVE  Policy!KeyMatches(pattern, key, member) <=> FitsFrom(pattern, key, member, 1)
<1> DEFINE n == Len(pattern)
           Fits(i) == FitsFrom(pattern, key, member, i)
           Ends(i) == i > n /\ Len(key) = n
           Goes(i) == i <= n /\ i <= Len(key) /\ pattern[i] # "**" /\ Fit(pattern, key, member, i)
           Body(g, i) == IF i > n THEN Len(key) = n
                         ELSE IF pattern[i] = "**" THEN TRUE
                         ELSE IF i > Len(key) THEN FALSE
                         ELSE Fit(pattern, key, member, i) /\ g[i + 1]
           Eq(g) == g = [i \in 1..n + 1 |-> Body(g, i)]
           f == CHOOSE g : Eq(g)
<1>0. n \in Nat /\ Len(key) \in Nat
  OBVIOUS
<1>1. Policy!KeyMatches(pattern, key, member) = f[1]
  BY Zenon DEF Policy!KeyMatches, Fit
<1>2. ASSUME NEW i \in 1..n + 1
      PROVE  Fits(i) <=> \/ i > n /\ Len(key) = n
                         \/ i <= n /\ pattern[i] = "**"
                         \/ i <= n /\ pattern[i] # "**" /\ i <= Len(key)
                            /\ Fit(pattern, key, member, i) /\ Fits(i + 1)
  <2>1. CASE i > n
    BY <1>0, <2>1 DEF FitsFrom
  <2>2. CASE i <= n /\ pattern[i] = "**"
    <3>1. i = n
      BY <2>2
    <3> QED
      BY <3>1, <2>2, <1>0 DEF FitsFrom, Unbounded
  <2>3. CASE i <= n /\ pattern[i] # "**"
    <3>1. CASE Unbounded(pattern)
      <4>1. i < n /\ i \in 1..n - 1
        BY <2>3, <3>1, <1>0 DEF Unbounded
      <4>2. i..n - 1 = {i} \cup (i + 1..n - 1)
        BY <4>1, <1>0
      <4>3. Fits(i) <=> Len(key) >= n - 1 /\ \A j \in i..n - 1 : Fit(pattern, key, member, j)
        BY <3>1, <4>1, <1>0 DEF FitsFrom
      <4>4. CASE i + 1 = n
        <5>1. Fits(i + 1)
          BY <3>1, <4>4, <1>0 DEF FitsFrom
        <5>2. i..n - 1 = {i}
          BY <4>4, <1>0
        <5> QED
          BY <4>3, <5>1, <5>2, <2>3, <4>4, <1>0
      <4>5. CASE i + 1 < n
        <5>1. Fits(i + 1) <=> Len(key) >= n - 1 /\ \A j \in i + 1..n - 1 : Fit(pattern, key, member, j)
          BY <3>1, <4>5, <1>0 DEF FitsFrom
        <5> QED
          BY <4>2, <4>3, <5>1, <2>3, <4>5, <1>0
      <4> QED
        BY <4>1, <4>4, <4>5, <1>0
    <3>2. CASE ~Unbounded(pattern)
      <4>1. Fits(i) <=> Len(key) = n /\ \A j \in i..n : Fit(pattern, key, member, j)
        BY <3>2 DEF FitsFrom
      <4>2. Fits(i + 1) <=> Len(key) = n /\ \A j \in i + 1..n : Fit(pattern, key, member, j)
        BY <3>2 DEF FitsFrom
      <4>3. i..n = {i} \cup (i + 1..n)
        BY <2>3, <1>0
      <4> QED
        BY <4>1, <4>2, <4>3, <2>3, <1>0
    <3> QED
      BY <3>1, <3>2
  <2> QED
    BY <2>1, <2>2, <2>3, <1>0
<1>3. Eq(f)
  <2> DEFINE g == [i \in 1..n + 1 |-> Fits(i)]
  <2>1. ASSUME NEW i \in 1..n + 1
        PROVE  Fits(i) = Body(g, i)
    <3>1. i <= n => i + 1 \in 1..n + 1
      BY <1>0
    <3>2. i <= n => g[i + 1] = Fits(i + 1)
      BY <3>1
    <3>3. Fits(i) <=> Body(g, i)
      <4> HIDE DEF Fits, g
      <4> QED
        BY <1>0, <1>2, <3>2
    <3>4. Fits(i) \in BOOLEAN
      BY Zenon DEF FitsFrom
    <3>5. Body(g, i) \in BOOLEAN
      <4>1. i <= n => g[i + 1] \in BOOLEAN
        BY <3>2, Zenon DEF FitsFrom
      <4>2. Fit(pattern, key, member, i) \in BOOLEAN
        BY Zenon DEF Fit
      <4>3. (Len(key) = n) \in BOOLEAN /\ (Fit(pattern, key, member, i) /\ g[i + 1]) \in BOOLEAN
        BY Zenon
      <4> QED
        BY <4>3, Zenon
    <3> HIDE DEF Fits, Body, g
    <3> QED
      BY <3>3, <3>4, <3>5, SameTruth
  <2> HIDE DEF Fits, Body
  <2>2. g = [i \in 1..n + 1 |-> Body(g, i)]
    BY <2>1, Zenon
  <2>3. Eq(g)
    BY <2>2
  <2> HIDE DEF g, Eq
  <2> QED
    BY <2>3, Zenon
<1> HIDE DEF f
<1>4. ASSUME NEW i \in 1..n + 1
      PROVE  f[i] = Body(f, i)
  BY <1>3, Zenon
<1>5. \A k \in 0..n : f[n + 1 - k] <=> Fits(n + 1 - k)
  <2> DEFINE Wrong == {k \in 0..n : ~(f[n + 1 - k] <=> Fits(n + 1 - k))}
  <2> SUFFICES ASSUME Wrong # {} PROVE FALSE
    OBVIOUS
  <2>1. Wrong \subseteq Nat
    BY <1>0
  <2>2. PICK k \in Wrong : \A m \in Wrong : k <= m
    BY <2>1, LeastNumber
  <2>3. k \in 0..n /\ ~(f[n + 1 - k] <=> Fits(n + 1 - k))
    OBVIOUS
  <2> DEFINE i == n + 1 - k
  <2>4. i \in 1..n + 1
    BY <2>3, <1>0
  <2>5. f[i] = Body(f, i)
    BY <1>4, <2>4
  <2>6. i <= n => (f[i + 1] <=> Fits(i + 1))
    <3>1. ASSUME i <= n PROVE f[i + 1] <=> Fits(i + 1)
      <4>0. k - 1 \in 0..n
        BY <2>3, <3>1, <1>0
      <4>1. k - 1 \notin Wrong
        <5> HIDE DEF Wrong
        <5> QED
          BY <2>2, <2>3, <4>0
      <4>2. n + 1 - (k - 1) = i + 1
        BY <2>3, <1>0
      <4> QED
        BY <4>0, <4>1, <4>2
    <3> QED
      BY <3>1
  <2>7. Body(f, i) <=> Fits(i)
    <3> HIDE DEF Fits
    <3> QED
      BY <1>2, <2>4, <2>6, <1>0
  <2> QED
    BY <2>3, <2>5, <2>7
<1> QED
  <2>1. n \in 0..n /\ n + 1 - n = 1
    BY <1>0
  <2> QED
    BY <1>1, <1>5, <2>1

LEMMA ShortSequences ==
  ASSUME NEW S, NEW a \in S, NEW b \in S, NEW c \in S
  PROVE  /\ <<a>> \in Seq(S) /\ Len(<<a>>) = 1 /\ <<a>>[1] = a /\ <<a>> # <<>>
         /\ <<a, b, c>> \in Seq(S) /\ Len(<<a, b, c>>) = 3 /\ <<a, b, c>> # <<>>
         /\ <<a, b, c>>[1] = a /\ <<a, b, c>>[2] = b /\ <<a, b, c>>[3] = c
OBVIOUS

LEMMA AnyKeyMatches ==
  ASSUME NEW key \in Seq(STRING), NEW member
  PROVE  Policy!KeyMatches(<<"**">>, key, member)
<1> DEFINE p == <<"**">>
<1>1. p \in Seq({"**"}) /\ Len(p) = 1 /\ p[1] = "**" /\ p # <<>>
  BY ShortSequences, Zenon
<1> HIDE DEF p
<1>2. Policy!KeyMatches(p, key, member) <=> FitsFrom(p, key, member, 1)
  <2>1. Len(p) = 1
    BY <1>1
  <2>2. \A i \in 1..Len(p) : p[i] = "**" => i = Len(p)
    BY <2>1
  <2> QED
    BY <1>1, <2>2, KeyMatching
<1>3. FitsFrom(p, key, member, 1)
  BY <1>1 DEF FitsFrom, Unbounded
<1> QED
  BY <1>2, <1>3 DEF p

Private == <<"private", "{memberId}", "**">>
LEMMA PrivateKeyMatches ==
  ASSUME NEW key \in Seq(STRING), NEW member
  PROVE  Policy!KeyMatches(Private, key, member)
           <=> Len(key) >= 2 /\ key[1] = "private" /\ key[2] = member
<1>1. /\ Private \in Seq({"private", "{memberId}", "**"}) /\ Len(Private) = 3 /\ Private # <<>>
      /\ Private[1] = "private" /\ Private[2] = "{memberId}" /\ Private[3] = "**"
  BY ShortSequences, Zenon DEF Private
<1> HIDE DEF Private
<1>2. Policy!KeyMatches(Private, key, member) <=> FitsFrom(Private, key, member, 1)
  <2>0. Len(Private) = 3
    BY <1>1
  <2>1. \A i \in 1..Len(Private) : i = 1 \/ i = 2 \/ i = 3
    BY <2>0
  <2>2. \A i \in 1..Len(Private) : Private[i] = "**" => i = Len(Private)
    BY <1>1, <2>0, <2>1
  <2> QED
    BY <1>1, <2>2, KeyMatching
<1>3. FitsFrom(Private, key, member, 1)
        <=> Len(key) >= 2 /\ \A j \in 1..2 : Fit(Private, key, member, j)
  <2>0. Len(Private) = 3 /\ Private # <<>>
    BY <1>1
  <2>2. Private[Len(Private)] = "**"
    BY <1>1, <2>0
  <2>1. Len(Private) = 3 /\ Unbounded(Private) /\ 1 <= Len(Private)
    BY <2>0, <2>2 DEF Unbounded
  <2> QED
    BY <2>1 DEF FitsFrom
<1>4. /\ Fit(Private, key, member, 1) <=> key[1] = "private"
      /\ Fit(Private, key, member, 2) <=> key[2] = member
  BY <1>1 DEF Fit, Policy!Wild
<1>5. 1..2 = {1, 2}
  OBVIOUS
<1> QED
  BY <1>2, <1>3, <1>4, <1>5

LEMMA MatchingMeans ==
  ASSUME NEW pattern \in Seq(STRING), NEW key \in Seq(STRING),
         \A i \in 1..Len(pattern) : pattern[i] = "**" => i = Len(pattern),
         Policy!KeyMatches(pattern, key, Viewer)
  PROVE  Policy!Means(pattern, key)
<1> DEFINE n == IF Unbounded(pattern) THEN Len(pattern) - 1 ELSE Len(pattern)
<1>1. FitsFrom(pattern, key, Viewer, 1)
  BY KeyMatching
<1>2. /\ IF Unbounded(pattern) THEN Len(key) >= n ELSE Len(key) = n
      /\ \A i \in 1..n : Fit(pattern, key, Viewer, i)
  <2>1. CASE Unbounded(pattern)
    <3>1. Len(pattern) >= 1 /\ n = Len(pattern) - 1
      BY <2>1 DEF Unbounded
    <3>2. 1 = Len(pattern) \/ (Len(key) >= Len(pattern) - 1
                              /\ \A i \in 1..Len(pattern) - 1 : Fit(pattern, key, Viewer, i))
      BY <1>1, <2>1, <3>1 DEF FitsFrom
    <3>3. n \in Nat /\ Len(key) \in Nat
      BY <3>1
    <3>4. CASE Len(pattern) = 1
      <4>1. n = 0 /\ \A i \in 1..0 : FALSE
        BY <3>1, <3>4
      <4> HIDE DEF n
      <4> QED
        BY <2>1, <3>3, <4>1
    <3>5. CASE Len(pattern) # 1
      BY <2>1, <3>1, <3>2, <3>5
    <3> QED
      BY <3>4, <3>5
  <2>2. CASE ~Unbounded(pattern)
    BY <1>1, <2>2 DEF FitsFrom
  <2> QED
    BY <2>1, <2>2
<1>3. ASSUME NEW i, Fit(pattern, key, Viewer, i)
      PROVE  pattern[i] \in {"*", IF key[i] = Viewer THEN "{memberId}" ELSE key[i], key[i]}
  BY <1>3 DEF Fit
<1>4. Unbounded(pattern) <=> pattern # <<>> /\ Policy!Last(pattern) = "**"
  BY DEF Unbounded, Policy!Last
<1> QED
  BY <1>2, <1>3, <1>4 DEF Policy!Means

Question(q) == q \in Policy!Questions /\ Policy!ValidManifest(q.manifest)
Allows(q) ==
  Policy!KvPolicyAllows(Policy!RulesOf(q.manifest), q.action, q.key, q.role, q.current, q.proposed)

\* What every decision is.
PolicyInv ==
  /\ ~Policy!IsRange => input \in Policy!Questions
  /\ verdict.is \in {"allowed", "denied"} =>
       Question(input) /\ (verdict.is = "allowed" <=> Allows(input))

LEMMA PolicyRoles ==
  ASSUME NEW role \in Policy!Roles
  PROVE  LET as == Policy!PolicyRole(role)
         IN  /\ as \in {"user", "admin", "owner"} <=> role # "reader"
             /\ as \in {"guest"} <=> role = "reader"
             /\ as \in {"admin", "owner"} <=> role \in {"editor", "admin"}
BY DEF Policy!Roles, Policy!PolicyRole

\* The rule lets the question pass.
Passes(q, rule) ==
  /\ q.action \in rule.actions /\ Policy!PolicyRole(q.role) \in rule.roles
  /\ Policy!KeyMatches(rule.key, q.key, Viewer)
  /\ Policy!OwnerMatches(rule.owner, q.action, q.current, q.proposed)

\* A question a preset answers: a rule of it that fits decides.
LEMMA PresetAllows ==
  ASSUME NEW q, Question(q), NEW rules, rules # None, Policy!RulesOf(q.manifest) = rules
  PROVE  Allows(q) <=> \E rule \in rules : Passes(q, rule)
BY Zenon DEF Allows, Passes, Policy!KvPolicyAllows

LEMMA AppliesToAll ==
  ASSUME NEW q, Question(q), NEW actions, NEW roles
  PROVE  LET rule == Policy!Rule(actions, roles, <<"**">>)
         IN  Passes(q, rule) <=> q.action \in actions /\ Policy!PolicyRole(q.role) \in roles
<1>1. q.key \in Seq(STRING)
  BY PolicyAssumption DEF Question, Policy!Questions
<1>2. Policy!KeyMatches(<<"**">>, q.key, Viewer)
  BY <1>1, AnyKeyMatches
<1>3. Policy!OwnerMatches(None, q.action, q.current, q.proposed)
  BY DEF Policy!OwnerMatches
<1> QED
  BY <1>2, <1>3 DEF Policy!Rule, Passes

LEMMA SharedData ==
  ASSUME NEW q, Question(q), q.manifest # None, q.manifest.mode = "shared_group_data"
  PROVE  Allows(q) <=> q.role # "reader" \/ q.action \in {"read", "sync"}
<1> DEFINE all == Policy!Rule(Policy!Actions, {"user", "admin", "owner"}, <<"**">>)
           guest == Policy!Rule({"read", "sync"}, {"guest"}, <<"**">>)
<1>0. q.manifest.mode \in Policy!PresetModes
  BY DEF Policy!PresetModes
<1>1. Policy!RulesOf(q.manifest) = {all, guest}
  BY <1>0, PolicyAssumption DEF Policy!RulesOf, Policy!Preset, Policy!PresetKvRules
<1>2. {all, guest} # None
  BY <1>0, PolicyAssumption DEF Policy!PresetKvRules
<1>3. /\ Passes(q, all) <=> q.action \in Policy!Actions /\ Policy!PolicyRole(q.role) \in {"user", "admin", "owner"}
      /\ Passes(q, guest) <=> q.action \in {"read", "sync"} /\ Policy!PolicyRole(q.role) \in {"guest"}
  BY AppliesToAll
<1> HIDE DEF all, guest
<1>4. Allows(q) <=> Passes(q, all) \/ Passes(q, guest)
  BY <1>1, <1>2, PresetAllows
<1>5. q.role \in Policy!Roles /\ q.action \in Policy!Actions
  BY DEF Question, Policy!Questions
<1> QED
  BY <1>3, <1>4, <1>5, PolicyRoles

LEMMA ReadByMembers ==
  ASSUME NEW q, Question(q), q.manifest # None, q.manifest.mode \in {"group_read_admin_write", "governed"}
  PROVE  Allows(q) <=> q.action \in {"read", "sync"} \/ q.role \in {"editor", "admin"}
<1> DEFINE reads == {"read", "sync"}
           writes == {"create", "update", "delete"}
           member == Policy!Rule(reads, {"user", "admin", "owner"}, <<"**">>)
           admin == Policy!Rule(writes, {"admin", "owner"}, <<"**">>)
           guest == Policy!Rule(reads, {"guest"}, <<"**">>)
<1>0. q.manifest.mode \in Policy!PresetModes
  BY DEF Policy!PresetModes
<1>1. Policy!RulesOf(q.manifest) = {member, admin, guest}
  BY <1>0, PolicyAssumption DEF Policy!RulesOf, Policy!Preset, Policy!PresetKvRules
<1>2. {member, admin, guest} # None
  BY <1>0, PolicyAssumption DEF Policy!PresetKvRules
<1>3. /\ Passes(q, member) <=> q.action \in reads /\ Policy!PolicyRole(q.role) \in {"user", "admin", "owner"}
      /\ Passes(q, admin) <=> q.action \in writes /\ Policy!PolicyRole(q.role) \in {"admin", "owner"}
      /\ Passes(q, guest) <=> q.action \in reads /\ Policy!PolicyRole(q.role) \in {"guest"}
  BY AppliesToAll
<1> HIDE DEF member, admin, guest
<1>4. Allows(q) <=> Passes(q, member) \/ Passes(q, admin) \/ Passes(q, guest)
  BY <1>1, <1>2, PresetAllows
<1>5. q.role \in Policy!Roles /\ q.action \in reads \cup writes
  BY DEF Question, Policy!Questions, Policy!Actions
<1>6. q.role \in {"editor", "admin"} => q.role # "reader"
  OBVIOUS
<1> QED
  BY <1>3, <1>4, <1>5, <1>6, PolicyRoles

LEMMA OwnerPrivate ==
  ASSUME NEW q, Question(q), q.manifest # None, q.manifest.mode = "owner_private"
  PROVE  Allows(q) <=> q.role # "reader" /\ Len(q.key) >= 2 /\ q.key[1] = "private" /\ q.key[2] = Viewer
<1> DEFINE own == Policy!Rule(Policy!Actions, {"user", "admin", "owner"}, Private)
<1>0. q.manifest.mode \in Policy!PresetModes
  BY DEF Policy!PresetModes
<1>1. Policy!RulesOf(q.manifest) = {own}
  BY <1>0, PolicyAssumption DEF Policy!RulesOf, Policy!Preset, Policy!PresetKvRules, Private
<1>2. {own} # None
  BY <1>0, PolicyAssumption DEF Policy!PresetKvRules, Private
<1>3. Allows(q) <=> Passes(q, own)
  <2> HIDE DEF own
  <2> QED
    BY <1>1, <1>2, PresetAllows
<1>4. Passes(q, own) <=> /\ q.action \in Policy!Actions
                         /\ Policy!PolicyRole(q.role) \in {"user", "admin", "owner"}
                         /\ Policy!KeyMatches(Private, q.key, Viewer)
  <2>1. Policy!OwnerMatches(None, q.action, q.current, q.proposed)
    BY DEF Policy!OwnerMatches
  <2> HIDE DEF Private
  <2> QED
    BY <2>1 DEF Passes, Policy!Rule
<1>5. q.role \in Policy!Roles /\ q.action \in Policy!Actions /\ q.key \in Seq(STRING)
  BY PolicyAssumption DEF Question, Policy!Questions
<1> QED
  BY <1>3, <1>4, <1>5, PolicyRoles, PrivateKeyMatches

LEMMA OwnRules ==
  ASSUME NEW q, Question(q), q.manifest # None, q.manifest.mode \notin Policy!PresetModes, Allows(q)
  PROVE  LET rules == Policy!RulesOf(q.manifest)
         IN  /\ \E rule \in rules : Policy!Means(rule.key, q.key) /\ q.action \in rule.actions
             /\ q.action = "update"
                  /\ (\A rule \in rules : rule.owner # None /\ rule.owner.source = "jsonPointer") =>
                \E rule \in rules :
                  /\ q.current # None /\ q.proposed # None
                  /\ Policy!JsonPointer(q.current.value, rule.owner.pointer) = Policy!Leaf(Viewer)
                  /\ Policy!JsonPointer(q.proposed.value, rule.owner.pointer) = Policy!Leaf(Viewer)
<1> DEFINE rules == q.manifest.rules
<1>0. q.manifest \in Manifests \ {None} /\ q.key \in Seq(STRING)
  BY PolicyAssumption DEF Question, Policy!Questions
<1>1. q.manifest.mode \in {"advanced", None}
  BY <1>0, PolicyAssumption
<1>2. rules # None /\ \A rule \in rules : rule.key \in Seq(STRING)
  BY <1>0, PolicyAssumption
<1>3. ~Policy!Preset(q.manifest) /\ Policy!RulesOf(q.manifest) = rules
  BY <1>1 DEF Policy!RulesOf, Policy!Preset
<1>4. \A rule \in rules : Policy!ValidRule(rule)
  BY <1>3 DEF Question, Policy!ValidManifest
<1>5. PICK rule \in rules : Passes(q, rule)
  BY <1>2, <1>3, PresetAllows
<1>6. Policy!Means(rule.key, q.key)
  <2>1. \A i \in 1..Len(rule.key) : rule.key[i] = "**" => i = Len(rule.key)
    BY <1>4 DEF Policy!ValidRule
  <2> QED
    BY <1>0, <1>2, <1>5, <2>1, MatchingMeans DEF Passes
<1>7. ASSUME q.action = "update", rule.owner # None, rule.owner.source = "jsonPointer"
      PROVE  /\ q.current # None /\ q.proposed # None
             /\ Policy!JsonPointer(q.current.value, rule.owner.pointer) = Policy!Leaf(Viewer)
             /\ Policy!JsonPointer(q.proposed.value, rule.owner.pointer) = Policy!Leaf(Viewer)
  BY <1>5, <1>7 DEF Passes, Policy!OwnerMatches
<1> QED
  BY <1>3, <1>5, <1>6, <1>7 DEF Passes

LEMMA PolicyInit == ASSUME NEW question \in Asked, Policy!InitWith(question) PROVE PolicyInv
<1>1. question \in Policy!Ranges \/ question = NoQuestion => "size" \in DOMAIN question
  BY DEF Policy!Ranges, NoQuestion
<1> QED
  BY <1>1 DEF Asked, Policy!InitWith, Policy!IsRange, PolicyInv, Policy!Open

LEMMA PolicyStep == PolicyInv /\ [Policy!Next]_(Policy!vars) => PolicyInv'
<1> SUFFICES ASSUME PolicyInv, [Policy!Next]_(Policy!vars), verdict'.is \in {"allowed", "denied"}
             PROVE  Question(input)' /\ (verdict'.is = "allowed" <=> Allows(input)')
  <2>1. [Policy!Next]_(Policy!vars) => input' = input
    BY DEF Policy!Next, Policy!AskPolicy, Policy!AskRange, Policy!vars
  <2> QED
    BY <2>1 DEF PolicyInv, Policy!IsRange
<1>1. CASE UNCHANGED Policy!vars
  BY <1>1 DEF PolicyInv, Policy!vars
<1>2. CASE Policy!AskPolicy
  <2>1. input' = input /\ input \in Policy!Questions
    BY <1>2 DEF Policy!AskPolicy, PolicyInv
  <2>2. verdict' = [is |-> IF ~Policy!ValidManifest(input.manifest) THEN "invalid"
                           ELSE IF Allows(input) THEN "allowed" ELSE "denied"]
    BY <1>2, Zenon DEF Policy!AskPolicy, Allows
  <2>3. Policy!ValidManifest(input.manifest) /\ (verdict'.is = "allowed" <=> Allows(input))
    BY <2>2
  <2> QED
    BY <2>1, <2>3 DEF Question, Allows
<1>3. CASE Policy!AskRange
  BY <1>3 DEF Policy!AskRange, Policy!ParseByteRange, Policy!Send, Policy!NoRange
<1> QED
  BY <1>1, <1>2, <1>3 DEF Policy!Next

\* kvPolicyAllows() and keyMatches() of sandbox/runtime.ts: a preset allows what its name promises each
\* role, and an app's own rules allow only an action one of them names for a key it means, and an
\* update under owner rules only of the caller's own value.
THEOREM PolicyIsRight == AllSpec => []PolicyRight
<1>1. (\E question \in Asked : Policy!InitWith(question)) => PolicyInv
  BY PolicyInit
<1>2. ASSUME PolicyInv PROVE PolicyRight
  <2> SUFFICES ASSUME verdict.is \in {"allowed", "denied"} PROVE PolicyRight
    BY DEF PolicyRight, Policy!PolicyRight
  <2> DEFINE mode == input.manifest.mode
  <2>0. Question(input) /\ (verdict.is = "allowed" <=> Allows(input))
    BY <1>2 DEF PolicyInv
  <2>1. CASE input.manifest = None
    <3>1. Allows(input)
      <4>1. Policy!RulesOf(input.manifest) = None
        BY <2>1 DEF Policy!RulesOf, Policy!Preset
      <4> QED
        BY <4>1, Zenon DEF Allows, Policy!KvPolicyAllows
    <3> QED
      BY <2>0, <2>1, <3>1 DEF PolicyRight, Policy!PolicyRight
  <2>2. CASE input.manifest # None /\ mode = "shared_group_data"
    BY <2>0, <2>2, SharedData DEF PolicyRight, Policy!PolicyRight
  <2>3. CASE input.manifest # None /\ mode = "owner_private"
    BY <2>0, <2>3, OwnerPrivate DEF PolicyRight, Policy!PolicyRight
  <2>4. CASE input.manifest # None /\ mode \in {"group_read_admin_write", "governed"}
    BY <2>0, <2>4, ReadByMembers DEF PolicyRight, Policy!PolicyRight
  <2>5. CASE input.manifest # None /\ mode \notin Policy!PresetModes
    BY <2>0, <2>5, OwnRules DEF PolicyRight, Policy!PolicyRight, Policy!PresetModes
  <2> QED
    BY <2>1, <2>2, <2>3, <2>4, <2>5 DEF Policy!PresetModes
<1> QED
  BY <1>1, <1>2, PolicyStep, PolicyPart, PTL

-----------------------------------------------------------------------------
(* The types of the parts                                                  *)

MessageUpTo(n) == [what : {"config", "answer"}, token : 0..n]

LEMMA LargerSequences ==
  ASSUME NEW S, NEW T, S \subseteq T, NEW s \in Seq(S)
  PROVE  s \in Seq(T)
OBVIOUS

LEMMA WireShortened ==
  ASSUME NEW S, NEW s \in Seq(S), NEW i \in 1..Len(s)
  PROVE  SubSeq(s, 1, i - 1) \o SubSeq(s, i + 1, Len(s)) \in Seq(S)
<1>1. SubSeq(s, 1, i - 1) \in Seq(S) /\ SubSeq(s, i + 1, Len(s)) \in Seq(S)
  OBVIOUS
<1> QED
  BY <1>1

\* What is under way carries tokens the page has had, and nothing else becomes of it than that a
\* message is sent or taken out.
LEMMA WireTypes ==
  Cache!TypeOK /\ [Cache!Next]_(Cache!cacheVars) =>
    /\ token' \in 0..MaxToken /\ token <= token'
    /\ wire' \in Seq(MessageUpTo(token'))
<1> SUFFICES ASSUME Cache!TypeOK, [Cache!Next]_(Cache!cacheVars)
             PROVE  /\ token' \in 0..MaxToken /\ token <= token'
                    /\ wire' \in Seq(MessageUpTo(token'))
  OBVIOUS
<1>1. /\ token \in Nat /\ MaxToken \in Nat /\ token <= MaxToken
      /\ wire \in Seq(MessageUpTo(token))
  BY SandboxAssumption DEF Cache!TypeOK, MessageUpTo
<1>2. token' = token \/ (token < MaxToken /\ token' = token + 1)
  BY DEF Cache!Next, Cache!cacheVars, Cache!SetToken, Cache!Revoke, Cache!Expire, Cache!Registered,
         Cache!AnswerPull, Cache!OnConfig, Cache!OnPulled, Cache!Pulled, Cache!PullTimeout,
         Cache!Evict, Cache!CallUrl, Cache!ResolveUrl, Cache!Download, Cache!FailDownload, Cache!Get,
         Cache!OnBytes, Cache!tokenVars
<1>3. token' \in 0..MaxToken /\ token <= token' /\ token' \in Nat
  BY <1>1, <1>2
<1>4. wire \in Seq(MessageUpTo(token'))
  <2>1. MessageUpTo(token) \subseteq MessageUpTo(token')
    BY <1>1, <1>3 DEF MessageUpTo
  <2> QED
    BY <1>1, <2>1, LargerSequences
<1>5. \/ wire' = wire
      \/ \E what \in {"config", "answer"}, tok \in {0, token, token'} :
           wire' = Append(wire, [what |-> what, token |-> tok])
      \/ \E i \in 1..Len(wire) : wire' = Cache!Without(i)
  <2>1. CASE Cache!SetToken \/ (\E ok \in BOOLEAN : Cache!Registered(ok)) \/ Cache!AnswerPull
    BY <2>1 DEF Cache!SetToken, Cache!Push, Cache!Registered, Cache!AnswerPull
  <2>2. CASE Cache!Revoke \/ Cache!Expire \/ Cache!Evict \/ UNCHANGED Cache!cacheVars
    BY <2>2 DEF Cache!Revoke, Cache!Expire, Cache!Evict, Cache!cacheVars
  <2>3. CASE (\E i \in 1..Len(wire) : Cache!OnConfig(i) \/ Cache!OnPulled(i)) \/ Cache!PullTimeout
    BY <2>3 DEF Cache!OnConfig, Cache!OnPulled, Cache!PullTimeout
  <2>4. CASE \E u \in ImageUrls : Cache!CallUrl(u) \/ Cache!ResolveUrl(u) \/ Cache!Download(u)
                                  \/ Cache!FailDownload(u)
    BY <2>4 DEF Cache!CallUrl, Cache!ResolveUrl, Cache!Download, Cache!FailDownload
  <2>5. CASE \E f \in Fetches : (\E seek \in BOOLEAN : Cache!Get(f, seek))
                                \/ \E b \in {"whole", "part", "error"} : Cache!OnBytes(f, b)
    BY <2>5 DEF Cache!Get, Cache!OnBytes
  <2> QED
    BY <2>1, <2>2, <2>3, <2>4, <2>5 DEF Cache!Next
<1>6. ASSUME NEW what \in {"config", "answer"}, NEW tok \in {0, token, token'},
             wire' = Append(wire, [what |-> what, token |-> tok])
      PROVE  wire' \in Seq(MessageUpTo(token'))
  <2>1. [what |-> what, token |-> tok] \in MessageUpTo(token')
    BY <1>1, <1>3 DEF MessageUpTo
  <2> HIDE DEF MessageUpTo
  <2> QED
    BY <1>4, <1>6, <2>1
<1>7. ASSUME NEW i \in 1..Len(wire), wire' = Cache!Without(i)
      PROVE  wire' \in Seq(MessageUpTo(token'))
  BY <1>4, <1>7, WireShortened DEF Cache!Without
<1> QED
  BY <1>3, <1>4, <1>5, <1>6, <1>7

LEMMA CacheTypesInit == Cache!Init => Cache!TypeOK
<1> SUFFICES ASSUME NEW kept \in BOOLEAN, Cache!InitWith(kept) PROVE Cache!TypeOK
  BY DEF Cache!Init
<1>1. 0 \in 0..MaxToken /\ 0 \in 0..0 /\ <<>> \in Seq(MessageUpTo(0))
  BY SandboxAssumption
<1> QED
  BY <1>1 DEF Cache!InitWith, Cache!TypeOK, MessageUpTo

\* What the page and the worker have, of what they have had.
HeldUpTo(n) ==
  /\ expired \in 0..n /\ config \in 0..n /\ using \in [Fetches -> 0..n]
  /\ worker \in {"none", "registering", "up", "off"} /\ pull \in {"none", "asked", "answered"}
  /\ fetch \in [Fetches -> {"idle", "pulling", "signing", "served", "401", "502", "error"}]
  /\ seeks \subseteq Fetches /\ cache \subseteq {"whole"}
WorkerTypes == HeldUpTo(token)
ImageTypes ==
  /\ urls \in [ImageUrls -> {"idle", "asked", "cold", "path", "failed"} \cup ImageUrls]
  /\ object \in {"none"} \cup ImageUrls
Flags == pulled \in BOOLEAN /\ revoked \in BOOLEAN /\ stored \in BOOLEAN

LEMMA FlagTypes == Flags /\ [Cache!Next]_(Cache!cacheVars) => Flags'
<1> USE DEF Flags
<1> SUFFICES ASSUME Flags, [Cache!Next]_(Cache!cacheVars) PROVE Flags'
  OBVIOUS
<1>1. CASE Cache!SetToken \/ Cache!Revoke \/ Cache!Expire \/ UNCHANGED Cache!cacheVars
  BY <1>1, Zenon DEF Cache!SetToken, Cache!Revoke, Cache!Expire, Cache!cacheVars, Cache!workerVars,
    Cache!imageVars
<1>2. CASE (\E ok \in BOOLEAN : Cache!Registered(ok)) \/ Cache!AnswerPull \/ Cache!Evict
  BY <1>2, Zenon DEF Cache!Registered, Cache!AnswerPull, Cache!Evict, Cache!tokenVars,
    Cache!workerVars, Cache!imageVars
<1>3. CASE \E i \in 1..Len(wire) : Cache!OnConfig(i)
  BY <1>3, Zenon DEF Cache!OnConfig, Cache!tokenVars, Cache!imageVars
<1>4. ASSUME NEW tok, Cache!Pulled(tok) PROVE Flags'
  BY <1>4, Zenon DEF Cache!Pulled, Cache!tokenVars, Cache!imageVars
<1>5. CASE (\E i \in 1..Len(wire) : Cache!OnPulled(i)) \/ Cache!PullTimeout
  BY <1>4, <1>5, Zenon DEF Cache!OnPulled, Cache!PullTimeout
<1>6. CASE \E u \in ImageUrls : Cache!CallUrl(u) \/ Cache!ResolveUrl(u) \/ Cache!Download(u)
                                \/ Cache!FailDownload(u)
  BY <1>6, Zenon DEF Cache!CallUrl, Cache!ResolveUrl, Cache!Download, Cache!FailDownload,
    Cache!tokenVars, Cache!workerVars
<1>7. CASE \E f \in Fetches : (\E seek \in BOOLEAN : Cache!Get(f, seek))
                              \/ \E b \in {"whole", "part", "error"} : Cache!OnBytes(f, b)
  BY <1>7, Zenon DEF Cache!Get, Cache!OnBytes, Cache!tokenVars, Cache!imageVars
<1> QED
  BY <1>1, <1>2, <1>3, <1>5, <1>6, <1>7 DEF Cache!Next

LEMMA CacheStepTypes == Cache!TypeOK /\ [Cache!Next]_(Cache!cacheVars) => Cache!TypeOK'
<1> SUFFICES ASSUME Cache!TypeOK, [Cache!Next]_(Cache!cacheVars) PROVE Cache!TypeOK'
  OBVIOUS
<1>1. /\ token' \in 0..MaxToken /\ token <= token' /\ wire' \in Seq(MessageUpTo(token'))
  BY WireTypes
<1>2. Flags'
  BY FlagTypes DEF Cache!TypeOK, Flags
<1>3. token \in Nat /\ token' \in Nat /\ wire \in Seq(MessageUpTo(token))
      /\ HeldUpTo(token) /\ ImageTypes
  BY <1>1, SandboxAssumption DEF Cache!TypeOK, HeldUpTo, ImageTypes, MessageUpTo
<1>4. 0..token \subseteq 0..token'
  BY <1>1, <1>3
<1>5. HeldUpTo(token')
  BY <1>3, <1>4 DEF HeldUpTo
<1>0. ASSUME NEW i \in 1..Len(wire) PROVE wire[i].token \in 0..token
  <2>1. wire[i] \in MessageUpTo(token)
    BY <1>3
  <2> QED
    BY <2>1 DEF MessageUpTo
<1> USE DEF WorkerTypes, HeldUpTo, ImageTypes
<1>6. ASSUME NEW tok \in 0..token, Cache!Pulled(tok) PROVE WorkerTypes' /\ ImageTypes'
  <2>1. /\ UNCHANGED <<expired, worker, seeks, cache, urls, object>> /\ pull' = "none"
        /\ config' = IF tok = 0 THEN config ELSE tok
    BY <1>6 DEF Cache!Pulled, Cache!tokenVars, Cache!imageVars
  <2>2. config' \in 0..token'
    BY <1>4, <1>5, <2>1
  <2>3. /\ using' \in [Fetches -> 0..token']
        /\ fetch' \in [Fetches -> {"idle", "pulling", "signing", "served", "401", "502", "error"}]
    BY <1>5, <1>6, <2>2 DEF Cache!Pulled
  <2> QED
    BY <1>3, <1>5, <2>1, <2>2, <2>3
<1>7. WorkerTypes' /\ ImageTypes'
  <2>1. CASE Cache!SetToken \/ Cache!Revoke \/ UNCHANGED Cache!cacheVars
    BY <2>1, <1>3, <1>5 DEF Cache!SetToken, Cache!Revoke, Cache!cacheVars, Cache!workerVars,
      Cache!imageVars
  <2>2. CASE Cache!Expire
    BY <2>2, <1>1, <1>3, <1>5 DEF Cache!Expire, Cache!workerVars, Cache!imageVars
  <2>11. ASSUME NEW ok \in BOOLEAN, Cache!Registered(ok) PROVE WorkerTypes' /\ ImageTypes'
    <3>1. worker' \in {"up", "off"}
      BY <2>11 DEF Cache!Registered
    <3> QED
      BY <2>11, <3>1, <1>3 DEF Cache!Registered, Cache!tokenVars, Cache!workerVars, Cache!imageVars
  <2>12. CASE Cache!AnswerPull
    BY <2>12, <1>3 DEF Cache!AnswerPull, Cache!tokenVars, Cache!imageVars
  <2>3. ASSUME NEW i \in 1..Len(wire), Cache!OnConfig(i) PROVE WorkerTypes' /\ ImageTypes'
    <3>1. wire[i].token \in 0..token'
      BY <1>0, <1>4
    <3> QED
      BY <2>3, <1>3, <1>5, <3>1 DEF Cache!OnConfig, Cache!tokenVars, Cache!imageVars
  <2>4. ASSUME NEW i \in 1..Len(wire), Cache!OnPulled(i) PROVE WorkerTypes' /\ ImageTypes'
    <3>1. wire[i].token \in 0..token
      BY <1>0
    <3> QED
      BY <2>4, <1>6, <3>1 DEF Cache!OnPulled
  <2>5. CASE Cache!PullTimeout
    BY <2>5, <1>3, <1>6 DEF Cache!PullTimeout
  <2>6. CASE Cache!Evict
    BY <2>6, <1>3, <1>5 DEF Cache!Evict, Cache!tokenVars, Cache!imageVars
  <2>7. ASSUME NEW u \in ImageUrls, Cache!CallUrl(u) \/ Cache!Download(u) \/ Cache!FailDownload(u)
        PROVE  WorkerTypes' /\ ImageTypes'
    <3>1. /\ UNCHANGED <<token, expired, config, using, worker, pull, fetch, seeks, cache>>
          /\ object' \in {object, u}
          /\ \E to \in {"asked", "failed", u} : urls' = [urls EXCEPT ![u] = to]
      BY <2>7 DEF Cache!CallUrl, Cache!Download, Cache!FailDownload, Cache!tokenVars,
        Cache!workerVars
    <3> QED
      BY <1>3, <3>1
  <2>8. ASSUME NEW u \in ImageUrls, Cache!ResolveUrl(u) PROVE WorkerTypes' /\ ImageTypes'
    BY <2>8, <1>3, <1>5 DEF Cache!ResolveUrl, Cache!tokenVars, Cache!workerVars
  <2>9. ASSUME NEW f \in Fetches, NEW seek \in BOOLEAN, Cache!Get(f, seek)
        PROVE  WorkerTypes' /\ ImageTypes'
    BY <2>9, <1>3, <1>5 DEF Cache!Get, Cache!tokenVars, Cache!imageVars
  <2>10. ASSUME NEW f \in Fetches, NEW b \in {"whole", "part", "error"}, Cache!OnBytes(f, b)
         PROVE  WorkerTypes' /\ ImageTypes'
    BY <2>10, <1>3, <1>5 DEF Cache!OnBytes, Cache!tokenVars, Cache!imageVars
  <2> QED
    BY <2>1, <2>2, <2>3, <2>4, <2>5, <2>6, <2>7, <2>8, <2>9, <2>10, <2>11, <2>12 DEF Cache!Next
<1> QED
  BY <1>1, <1>2, <1>7 DEF Cache!TypeOK, Flags, MessageUpTo

LEMMA CacheTypes == AllSpec => []Cache!TypeOK
  BY CacheTypesInit, CacheStepTypes, CachePart, PTL DEF Cache!Spec

-----------------------------------------------------------------------------
LEMMA SameFinite == ASSUME NEW S PROVE Dev!IsFiniteSet(S) <=> IsFiniteSet(S)
BY Zenon DEF Dev!IsFiniteSet, IsFiniteSet

\* The scopes the server names.
Named ==
  ({"identity:read", "group:read", "kv:read"} \cup {"drive:read", "kv:write", "drive:write"})
  \cup {"notify:send", "mcp:use"}

LEMMA NamedFinite == IsFiniteSet(Named)
<1>1. ASSUME NEW a, NEW b PROVE IsFiniteSet({a, b})
  <2>1. IsFiniteSet({a}) /\ {a, b} = {a} \cup {b}
    BY FS_Singleton
  <2> QED
    BY <2>1, FS_AddElement
<1>2. ASSUME NEW a, NEW b, NEW c PROVE IsFiniteSet({a, b, c})
  <2>1. IsFiniteSet({a, b}) /\ {a, b, c} = {a, b} \cup {c}
    BY <1>1
  <2> QED
    BY <2>1, FS_AddElement
<1>3. IsFiniteSet({"identity:read", "group:read", "kv:read"} \cup {"drive:read", "kv:write", "drive:write"})
  BY <1>2, FS_Union
<1>4. IsFiniteSet({"notify:send", "mcp:use"})
  BY <1>1
<1> QED
  BY <1>3, <1>4, FS_Union DEF Named

\* Nothing is granted but what the remote session has and the server names.
LEMMA GrantFinite ==
  ASSUME NEW granted, NEW had, Dev!IsFiniteSet(had), granted \subseteq had \cup Named
  PROVE  Dev!IsFiniteSet(granted)
<1>1. IsFiniteSet(had \cup Named)
  BY SameFinite, NamedFinite, FS_Union
<1>2. IsFiniteSet(granted)
  BY <1>1, FS_Subset
<1> QED
  BY <1>2, SameFinite

LEMMA NoneFinite == Dev!IsFiniteSet({})
  BY FS_EmptySet, SameFinite

LEMMA DevInitTypes ==
  ASSUME NEW written \in Dev!Configs, NEW servers \in BOOLEAN, Dev!InitWith(written, servers)
  PROVE  Dev!TypeOK
<1>1. 0 \in 0..MaxNotes
  BY SandboxAssumption
<1>2. Dev!IsFiniteSet(Dev!NoToken.scopes) /\ Dev!NoToken.lent = {}
  BY NoneFinite DEF Dev!NoToken
<1>3. page = Dev!NoToken /\ initial = Dev!NoToken
  BY DEF Dev!InitWith
<1> QED
  BY <1>1, <1>2, <1>3 DEF Dev!InitWith, Dev!TypeOK

LEMMA DevStepTypes == Dev!TypeOK /\ [Dev!Next]_(Dev!vars) => Dev!TypeOK'
<1> SUFFICES ASSUME Dev!TypeOK, [Dev!Next]_(Dev!vars) PROVE Dev!TypeOK'
  OBVIOUS
<1>1. devConfig' = devConfig
  BY DEF Dev!Next, Dev!vars, Dev!Refuse, Dev!Mint, Dev!Open, Dev!Renew, Dev!Session, Dev!LoadWithoutSession,
         Dev!SignIn, Dev!Notify, Dev!ClearNotes
<1>2. remote' = remote \/ remote' \in RemoteGrants
  BY DEF Dev!Next, Dev!vars, Dev!Refuse, Dev!Mint, Dev!Open, Dev!Renew, Dev!Session,
         Dev!LoadWithoutSession, Dev!SignIn, Dev!Notify, Dev!ClearNotes, Dev!CurrentToken
<1>3. remote' \in RemoteGrants \cup {{}} /\ Dev!IsFiniteSet(remote')
  BY <1>2, SandboxAssumption, NoneFinite, SameFinite DEF Dev!TypeOK
<1>4. (Dev!DevelopmentScopes(remote) \subseteq remote \cup Named)'
  BY DEF Dev!DevelopmentScopes, Dev!SandboxScopes, Dev!If, Named
<1>5. Dev!IsFiniteSet(Dev!Token'.scopes) /\ Dev!Token'.lent \in RemoteGrants \cup {{}}
  BY <1>3, <1>4, GrantFinite DEF Dev!Token
<1>6. page' \in {page, initial, Dev!Token'} /\ initial' \in {initial, Dev!Token'}
  BY DEF Dev!Next, Dev!vars, Dev!Refuse, Dev!Mint, Dev!Open, Dev!Renew, Dev!Session,
         Dev!LoadWithoutSession, Dev!SignIn, Dev!Notify, Dev!ClearNotes
<1>7. fixtures' \in BOOLEAN /\ devSignedIn' \in BOOLEAN
  <2>1. CASE Dev!Open
    BY <2>1, Zenon DEF Dev!Open, Dev!TypeOK
  <2>2. CASE ~Dev!Open
    BY <2>2, Zenon DEF Dev!Next, Dev!vars, Dev!Refuse, Dev!Mint, Dev!Renew, Dev!Session,
         Dev!LoadWithoutSession, Dev!SignIn, Dev!Notify, Dev!ClearNotes, Dev!TypeOK
  <2> QED
    BY <2>1, <2>2
<1>8. stage' \in {"starting", "refused", "minted", "serving"} /\ notes' \in 0..MaxNotes
  BY SandboxAssumption
  DEF Dev!Next, Dev!vars, Dev!Refuse, Dev!Mint, Dev!Open, Dev!Renew, Dev!Session, Dev!LoadWithoutSession,
      Dev!SignIn, Dev!Notify, Dev!ClearNotes, Dev!TypeOK
<1>9. savedFor' \in Servers \cup {None}
  <2>1. CASE Dev!Mint
    <3>1. PICK profiles \in [Logins -> Servers \cup {None}], default \in Logins,
               requested \in Logins \cup {None} :
            savedFor' = savedFor
            \/ \E p \in Dev!SelectProfile(profiles, default, requested) : savedFor' = profiles[p]
      BY <2>1 DEF Dev!Mint
    <3>2. Dev!SelectProfile(profiles, default, requested) \subseteq Logins
      BY DEF Dev!SelectProfile
    <3> QED
      BY <3>1, <3>2 DEF Dev!TypeOK
  <2>2. CASE ~Dev!Mint
    BY <2>2 DEF Dev!Next, Dev!vars, Dev!Refuse, Dev!Open, Dev!Renew, Dev!Session, Dev!LoadWithoutSession,
      Dev!SignIn, Dev!Notify, Dev!ClearNotes, Dev!TypeOK
  <2> QED
    BY <2>1, <2>2
<1> QED
  BY <1>1, <1>2, <1>3, <1>5, <1>6, <1>7, <1>8, <1>9 DEF Dev!TypeOK

LEMMA DevTypes == AllSpec => []Dev!TypeOK
<1>1. (\E written \in Dev!Configs, servers \in BOOLEAN : Dev!InitWith(written, servers)) => Dev!TypeOK
  BY DevInitTypes
<1> QED
  BY <1>1, DevStepTypes, DevPart, PTL

-----------------------------------------------------------------------------
\* A decision about a range is none, or a range of bytes.
LEMMA RangeTypes ==
  ASSUME NEW first, NEW last, NEW size, Header(first, last, size)
  PROVE  Policy!ParseByteRange(first, last, size)
           \in {Policy!NoRange} \cup [is : {"range"}, start : Nat, end : Nat]
<1> DEFINE ranges == {Policy!NoRange} \cup [is : {"range"}, start : Nat, end : Nat]
<1> SUFFICES Policy!ParseByteRange(first, last, size) \in ranges
  OBVIOUS
<1>1. size \in Nat /\ (first # None => first \in Nat) /\ (last # None => last \in Nat)
  BY SandboxAssumption DEF Header
<1>2. \A start, end \in Nat : Policy!Send(start, end) \in ranges
  BY DEF Policy!Send
<1> HIDE DEF ranges
<1>3. Policy!NoRange \in ranges
  BY DEF ranges
<1> DEFINE hopeless == size = 0 \/ Policy!Unsafe(first) \/ Policy!Unsafe(last)
<1>4. CASE hopeless
  BY <1>3, <1>4 DEF Policy!ParseByteRange
<1>5. CASE ~hopeless /\ first = None
  <2> DEFINE from == IF size - last > 0 THEN size - last ELSE 0
  <2>1. last # None => from \in Nat /\ size - 1 \in Nat
    BY <1>1, <1>5
  <2> HIDE DEF from
  <2>2. CASE last = None \/ last = 0
    BY <1>3, <1>5, <2>2 DEF Policy!ParseByteRange
  <2>3. CASE ~(last = None \/ last = 0)
    <3>1. Policy!ParseByteRange(first, last, size) = Policy!Send(from, size - 1)
      BY <1>5, <2>3 DEF from, Policy!ParseByteRange
    <3> QED
      BY <1>2, <2>1, <2>3, <3>1
  <2> QED
    BY <2>2, <2>3
<1>6. CASE ~hopeless /\ first # None
  <2> DEFINE requested == IF last = None THEN size - 1 ELSE last
             to == IF requested < size - 1 THEN requested ELSE size - 1
  <2>1. first \in Nat /\ requested \in Nat /\ size - 1 \in Nat
    BY <1>1, <1>6
  <2>4. to \in Nat
    BY <2>1
  <2> HIDE DEF to
  <2>2. CASE first >= size \/ requested < first
    BY <1>3, <1>6, <2>2 DEF Policy!ParseByteRange
  <2>3. CASE ~(first >= size \/ requested < first)
    <3>1. Policy!ParseByteRange(first, last, size) = Policy!Send(first, to)
      BY <1>6, <2>3 DEF to, Policy!ParseByteRange
    <3> QED
      BY <1>2, <2>1, <2>4, <3>1
  <2> QED
    BY <2>2, <2>3
<1> QED
  BY <1>4, <1>5, <1>6

LEMMA PolicyStepTypes == Policy!TypeOK /\ [Policy!Next]_(Policy!vars) => Policy!TypeOK'
<1> SUFFICES ASSUME Policy!TypeOK, [Policy!Next]_(Policy!vars) PROVE Policy!TypeOK'
  OBVIOUS
<1>1. CASE UNCHANGED Policy!vars
  BY <1>1 DEF Policy!vars, Policy!TypeOK, Policy!IsRange
<1>2. CASE Policy!AskPolicy
  <2>1. verdict' \in [is : {"open", "invalid", "allowed", "denied"}]
    BY <1>2 DEF Policy!AskPolicy
  <2> QED
    BY <1>2, <2>1 DEF Policy!AskPolicy, Policy!TypeOK, Policy!IsRange
<1>3. CASE Policy!AskRange
  <2>1. input \in Policy!Ranges
    BY <1>3 DEF Policy!AskRange, Policy!IsRange, Policy!TypeOK, Policy!Questions
  <2>2. Header(input.first, input.last, input.size)
    BY <2>1, NumbersAndSizes DEF Policy!Ranges, Header
  <2>3. verdict' \in {Policy!NoRange} \cup [is : {"range"}, start : Nat, end : Nat]
    BY <1>3, <2>2, RangeTypes DEF Policy!AskRange
  <2> QED
    BY <1>3, <2>3 DEF Policy!AskRange, Policy!TypeOK, Policy!IsRange
<1> QED
  BY <1>1, <1>2, <1>3 DEF Policy!Next

\* Where the two decisions are the subject, what is asked is one of the questions and ranges.
LEMMA PolicyTypes == AllSpec => [](subject = "rules" => Policy!TypeOK)
<1>1. AllInit => (subject = "rules" => Policy!TypeOK)
  BY DEF AllInit, Policy!Init, Policy!InitWith, Policy!TypeOK, Policy!Open
<1>2. (subject = "rules" => Policy!TypeOK) /\ [AllNext]_allVars => (subject = "rules" => Policy!TypeOK)'
  <2>1. [AllNext]_allVars => subject' = subject /\ [Policy!Next]_(Policy!vars)
    BY DEF AllNext, Only, allVars, rulesV, Policy!vars
  <2> QED
    BY <2>1, PolicyStepTypes
<1> QED
  BY <1>1, <1>2, PTL DEF AllSpec

-----------------------------------------------------------------------------
LEMMA DrivePart == AllSpec => Spec
<1>1. AllInit => Init
  BY DEF AllInit
<1>2. [AllNext]_allVars => [Next]_vars
  BY DEF AllNext, Only, allVars, vars
<1> QED
  BY <1>1, <1>2, PTL DEF AllSpec, Spec

\* Every variable of every part of the composition keeps its type, in all failures, restarts and
\* orders of messages.
THEOREM SandboxTypes == AllSpec => []AllTypes
<1> DEFINE OfSubject ==
      /\ subject \in {"drive", "react", "remote", "cache", "kv", "server", "rules", "ai", "links"}
<1>1. AllInit => OfSubject
  BY SandboxAssumption DEF AllInit
<1>2. OfSubject /\ [AllNext]_allVars => OfSubject'
  BY DEF AllNext, Only, allVars
<1>3. /\ OfSubject /\ TypeOK /\ React!TypeOK /\ Remote!TypeOK /\ Cache!TypeOK /\ KvClient!TypeOK
      /\ Dev!TypeOK /\ Link!TypeOK /\ (subject = "rules" => Policy!TypeOK)
      /\ (subject = "ai" => Ai!TypeOK)
      => AllTypes
  BY DEF AllTypes
<1> HIDE DEF OfSubject
<1>4. AllSpec => []OfSubject
  BY <1>1, <1>2, PTL DEF AllSpec
<1> QED
  BY <1>3, <1>4, DrivePart, DriveTypes, ReactTypes, RemoteTypes, CacheTypes, ClientTypes, DevTypes,
     LinkTypesHold, PolicyTypes, AiTypes, PTL

=============================================================================
