------------------------------- MODULE Session -------------------------------
(***************************************************************************)
(* The session of one embedded app: the SDK inside the iframe (the guest,  *)
(* src/src/runtime.ts) and the shell page around it (the host,             *)
(* src/src/host.ts).                                                       *)
(*                                                                         *)
(* The host posts "maypop:init" window messages, each with one end of a    *)
(* fresh MessageChannel and its current access token, again and again.     *)
(* The guest adopts every init it sees, acks it with "maypop:ready" on the *)
(* new port, and asks for fresh tokens with "maypop:refresh".  The host    *)
(* answers a refresh by trading its cookie at the server for a token.      *)
(* API calls of the app that are refused with 401 wait for a token and     *)
(* retry once.                                                             *)
(*                                                                         *)
(* Time is abstracted: a timer that is armed may fire at any moment.       *)
(* Tokens are numbered in the order the server mints them; 0 is "none".    *)
(***************************************************************************)
EXTENDS Naturals, Sequences

CONSTANTS
  Calls,        \* the app's API calls, Me included
  Me,           \* the SDK's own first call, GET /me
  Channels,     \* names of MessageChannels; a name is reused once its channel is garbage
  Fetches,      \* slots for the host's concurrent cookie-to-token requests
  MaxToken,     \* bound: tokens the server mints
  Grant,        \* Grant[t]: the mode the scopes of token t amount to
  MaxReloads,   \* bound: reloads of the iframe
  MaxHellos,    \* bound: hellos on their way to the host
  MaxQueue,     \* bound: messages on their way to the guest's port
  Ordered,      \* do messages sent on different ports arrive in the order sent?
  Paced,        \* do timers leave a handshake the time to finish?
  None          \* no channel

Tokens == 1..MaxToken
Modes  == {"read-only", "read-write"}

ASSUME SessionAssumption ==
  /\ Me \in Calls
  /\ None \notin Channels
  /\ MaxToken \in Nat \ {0}
  /\ Grant \in [Tokens -> Modes]
  /\ MaxReloads \in Nat
  /\ MaxHellos \in Nat
  /\ MaxQueue \in Nat
  /\ Ordered \in BOOLEAN
  /\ Paced \in BOOLEAN

VARIABLES
  \* the guest (the document in the iframe)
  doc,          \* "loading": no SDK listener yet; "live": the SDK is installed
  port,         \* the channel it adopted last
  token,        \* its access token
  refreshArmed, \* its proactive refresh timer is running
  calls,        \* the app's API calls
  appMode,      \* the mode the app last had reason to read
  appRevoked,   \* the last lifecycle event the app saw was "revoked"
  \* messages under way
  inits,        \* window messages to the guest
  hellos,       \* number of window messages "maypop:hello" to the host
  toHost,       \* port messages to the host
  toGuest,      \* port messages to the guest, on the port it has open
  \* the host
  hostPort,     \* the channel whose ready it adopted last
  hostClosed,   \* channels the host has closed
  hostTok,      \* session.token
  fetches,      \* its requests for a token
  \* the server
  minted,       \* tokens minted so far
  dead,         \* tokens 1..dead have expired
  revoked,      \* the session has been revoked
  \* history
  blip,         \* some token request has failed without an answer
  reloads

guestVars  == <<doc, port, token, refreshArmed, calls, appMode, appRevoked>>
wireVars   == <<inits, hellos, toHost, toGuest>>
hostVars   == <<hostPort, hostClosed, hostTok, fetches>>
serverVars == <<minted, dead, revoked>>
histVars   == <<blip, reloads>>
vars == <<guestVars, wireVars, hostVars, serverVars, histVars>>

(***************************************************************************)
(* Messages and the states of calls and token requests                     *)
(***************************************************************************)
InitMsg   == [chan : Channels, tok : Tokens]
HostMsg   == [chan : Channels, type : {"ready", "refresh"}]
GuestMsg  == [type : {"token"}, tok : Tokens] \cup [type : {"revoked"}, tok : {0}]

\* tok is the token of the request under way, was the token the first attempt
\* was refused with (0: this is the first attempt).
Settled   == {"done", "revoked", "no-token"}
CallState == [st  : {"idle", "sent", "401", "waiting"} \cup Settled,
              tok : Tokens \cup {0},
              was : Tokens \cup {0}]
\* Only a fetch that ended well carries a token.
Fetch     == [st : {"idle"}, chan : {None}, tok : {0}]
             \cup [st : {"sent", "revoked"}, chan : Channels, tok : {0}]
             \cup [st : {"ok"}, chan : Channels, tok : Tokens]

IdleCall  == [st |-> "idle", tok |-> 0, was |-> 0]
IdleFetch == [st |-> "idle", chan |-> None, tok |-> 0]
Ended(how) == [st |-> how, tok |-> 0, was |-> 0]

TypeOK ==
  /\ doc \in {"loading", "live"}
  /\ port \in Channels \cup {None}
  /\ token \in Tokens \cup {0}
  /\ refreshArmed \in BOOLEAN
  /\ calls \in [Calls -> CallState]
  /\ appMode \in Modes
  /\ appRevoked \in BOOLEAN
  /\ inits \in Seq(InitMsg)
  /\ hellos \in 0..MaxHellos
  /\ toHost \in Seq(HostMsg)
  /\ toGuest \in Seq(GuestMsg)
  /\ hostPort \in Channels \cup {None}
  /\ hostClosed \in SUBSET Channels
  /\ hostTok \in Tokens
  /\ fetches \in [Fetches -> Fetch]
  /\ minted \in Tokens
  /\ dead \in 0..minted
  /\ revoked \in BOOLEAN
  /\ blip \in BOOLEAN
  /\ reloads \in 0..MaxReloads

\* The host boots with a token in hand (boot() in host.ts) before it shows the
\* iframe and starts the handshake.
Init ==
  /\ doc = "loading"
  /\ port = None
  /\ token = 0
  /\ refreshArmed = FALSE
  /\ calls = [c \in Calls |-> IdleCall]
  /\ appMode = "read-only"
  /\ appRevoked = FALSE
  /\ inits = <<>>
  /\ hellos = 0
  /\ toHost = <<>>
  /\ toGuest = <<>>
  /\ hostPort = None
  /\ hostClosed = {}
  /\ hostTok = 1
  /\ fetches = [f \in Fetches |-> IdleFetch]
  /\ minted = 1
  /\ dead = 0
  /\ revoked = FALSE
  /\ blip = FALSE
  /\ reloads = 0

(***************************************************************************)
(* The guest                                                               *)
(***************************************************************************)

\* mode(): what the held token's scopes amount to; no token reads as read-only.
ModeOf(t) == IF t = 0 THEN "read-only" ELSE Grant[t]

\* api(): a request with the token at hand, or the refusal when there is none.
Send(t, refusedWith) ==
  IF t = 0 THEN Ended("revoked")
           ELSE [st |-> "sent", tok |-> t, was |-> refusedWith]

\* Mutant: the waiters are forgotten.
FlushedNot(t) == calls

\* flushTokenWaiters(): every waiter goes on to its one retry, with token t.
Flushed(t) ==
  [c \in Calls |-> IF calls[c].st = "waiting" THEN Send(t, calls[c].tok) ELSE calls[c]]

\* The SDK script runs: the init listener is registered, then hello.
LoadSdk ==
  /\ doc = "loading"
  /\ doc' = "live"
  /\ hellos' = IF hellos < MaxHellos THEN hellos + 1 ELSE hellos
  /\ UNCHANGED <<port, token, refreshArmed, calls, appMode, appRevoked>>
  /\ UNCHANGED <<inits, toHost, toGuest, hostVars, serverVars, histVars>>

\* A bfcache restore, or the page turning visible before any init, says hello again.
SayHello ==
  /\ doc = "live"
  /\ hellos < MaxHellos
  /\ hellos' = hellos + 1
  /\ UNCHANGED <<guestVars, inits, toHost, toGuest, hostVars, serverVars, histVars>>

\* An init that is dispatched before the SDK listens is gone.
LoseInit ==
  /\ doc = "loading"
  /\ inits # <<>>
  /\ inits' = Tail(inits)
  /\ UNCHANGED <<guestVars, hellos, toHost, toGuest, hostVars, serverVars, histVars>>

\* The window listener for maypop:init, as a whole: the old port is closed, the
\* new one adopted and acked, the token replaced, a mode change announced,
\* waiters flushed, and GET /me started by the first init of the document.
AdoptInit ==
  /\ doc = "live"
  /\ inits # <<>>
  /\ LET m      == Head(inits)
         reinit == port # None
         moved  == reinit /\ ModeOf(m.tok) # ModeOf(token)
         freed  == IF reinit THEN Flushed(m.tok) ELSE calls
     IN
     /\ port' = m.chan
     /\ token' = m.tok
     /\ refreshArmed' = TRUE
     /\ toHost' = Append(toHost, [chan |-> m.chan, type |-> "ready"])
     /\ appMode' = IF moved \/ ~reinit THEN ModeOf(m.tok) ELSE appMode
     /\ appRevoked' = (appRevoked /\ ~moved)
     /\ calls' = IF calls[Me].st = "idle" THEN [freed EXCEPT ![Me] = Send(m.tok, 0)]
                                          ELSE freed
  /\ inits' = Tail(inits)
  /\ toGuest' = <<>>
  /\ UNCHANGED <<doc, hellos, hostVars, serverVars, histVars>>

\* Mutant: a new token is taken without comparing the modes.
OnTokenSilent ==
  /\ toGuest # <<>>
  /\ Head(toGuest).type = "token"
  /\ token' = Head(toGuest).tok
  /\ calls' = Flushed(token')
  /\ refreshArmed' = TRUE
  /\ toGuest' = Tail(toGuest)
  /\ UNCHANGED <<doc, port, appMode, appRevoked, inits, hellos, toHost>>
  /\ UNCHANGED <<hostVars, serverVars, histVars>>

\* port.onmessage, "maypop:token".
OnToken ==
  /\ toGuest # <<>>
  /\ Head(toGuest).type = "token"
  /\ LET t     == Head(toGuest).tok
         moved == ModeOf(t) # ModeOf(token)
     IN
     /\ token' = t
     /\ appMode' = IF moved THEN ModeOf(t) ELSE appMode
     /\ appRevoked' = (appRevoked /\ ~moved)
     /\ calls' = Flushed(t)
  /\ refreshArmed' = TRUE
  /\ toGuest' = Tail(toGuest)
  /\ UNCHANGED <<doc, port, inits, hellos, toHost, hostVars, serverVars, histVars>>

\* port.onmessage, "maypop:revoked": waiters and timers are left as they are.
OnRevoked ==
  /\ toGuest # <<>>
  /\ Head(toGuest).type = "revoked"
  /\ token' = 0
  /\ appMode' = "read-only"
  /\ appRevoked' = TRUE
  /\ toGuest' = Tail(toGuest)
  /\ UNCHANGED <<doc, port, refreshArmed, calls>>
  /\ UNCHANGED <<inits, hellos, toHost, hostVars, serverVars, histVars>>

\* requestRefresh()
AskRefresh ==
  toHost' = IF port = None THEN toHost
                           ELSE Append(toHost, [chan |-> port, type |-> "refresh"])

\* The timer set by setToken() fires.
RefreshTimer ==
  /\ refreshArmed
  /\ refreshArmed' = FALSE
  /\ AskRefresh
  /\ UNCHANGED <<doc, port, token, calls, appMode, appRevoked>>
  /\ UNCHANGED <<inits, hellos, toGuest, hostVars, serverVars, histVars>>

\* The app makes an API call.
StartCall(c) ==
  /\ doc = "live"
  /\ c # Me
  /\ calls[c].st = "idle"
  /\ calls[Me].st = "done"
  /\ calls' = [calls EXCEPT ![c] = Send(token, 0)]
  /\ UNCHANGED <<doc, port, token, refreshArmed, appMode, appRevoked>>
  /\ UNCHANGED <<wireVars, hostVars, serverVars, histVars>>

\* A first 401 asks for a fresh token and waits for it: freshToken().
OnFirst401(c) ==
  /\ calls[c].st = "401"
  /\ calls[c].was = 0
  /\ calls' = [calls EXCEPT ![c].st = "waiting"]
  /\ AskRefresh
  /\ UNCHANGED <<doc, port, token, refreshArmed, appMode, appRevoked>>
  /\ UNCHANGED <<inits, hellos, toGuest, hostVars, serverVars, histVars>>

\* Mutant: a second 401 waits for one more token.
OnSecond401Again(c) ==
  /\ calls[c].st = "401"
  /\ calls[c].was # 0
  /\ calls' = [calls EXCEPT ![c].st = "waiting"]
  /\ AskRefresh
  /\ UNCHANGED <<doc, port, token, refreshArmed, appMode, appRevoked>>
  /\ UNCHANGED <<inits, hellos, toGuest, hostVars, serverVars, histVars>>

\* A second 401 ends the call with maypop/revoked.
OnSecond401(c) ==
  /\ calls[c].st = "401"
  /\ calls[c].was # 0
  /\ calls' = [calls EXCEPT ![c] = Ended("revoked")]
  /\ UNCHANGED <<doc, port, token, refreshArmed, appMode, appRevoked>>
  /\ UNCHANGED <<wireVars, hostVars, serverVars, histVars>>

\* The ten seconds of freshToken() pass: maypop/no-token.
WaiterTimeout(c) ==
  /\ calls[c].st = "waiting"
  /\ calls' = [calls EXCEPT ![c] = Ended("no-token")]
  /\ UNCHANGED <<doc, port, token, refreshArmed, appMode, appRevoked>>
  /\ UNCHANGED <<wireVars, hostVars, serverVars, histVars>>

\* The iframe is reloaded: the document and all it held are gone.
Reload ==
  /\ doc = "live"
  /\ reloads < MaxReloads
  /\ reloads' = reloads + 1
  /\ doc' = "loading"
  /\ port' = None
  /\ token' = 0
  /\ refreshArmed' = FALSE
  /\ calls' = [c \in Calls |-> IdleCall]
  /\ appMode' = "read-only"
  /\ appRevoked' = FALSE
  /\ inits' = <<>>
  /\ toGuest' = <<>>
  /\ UNCHANGED <<hellos, toHost, hostVars, serverVars, blip>>

(***************************************************************************)
(* The host                                                                *)
(***************************************************************************)

\* A channel nothing refers to any more.
Garbage(ch) ==
  /\ ch # port
  /\ ch # hostPort
  /\ \A i \in DOMAIN inits : inits[i].chan # ch
  /\ \A i \in DOMAIN toHost : toHost[i].chan # ch
  /\ \A f \in Fetches : fetches[f].chan # ch

\* postInit(): always a new channel, always the token session.token holds.
PostInit(ch) ==
  /\ Garbage(ch)
  /\ inits' = Append(inits, [chan |-> ch, tok |-> hostTok])
  /\ hostClosed' = hostClosed \ {ch}

\* The timer of schedule(), which nothing stops, or the iframe's load event.
\* Under Paced it fires only once the handshake before it is over.
Keepalive ==
  /\ Paced => inits = <<>> /\ \A i \in DOMAIN toHost : toHost[i].type # "ready"
  /\ \E ch \in Channels : PostInit(ch)
  /\ UNCHANGED <<guestVars, hellos, toHost, toGuest>>
  /\ UNCHANGED <<hostPort, hostTok, fetches, serverVars, histVars>>

\* "maypop:hello" from the iframe's window.
OnHello ==
  /\ hellos > 0
  /\ hellos' = hellos - 1
  /\ \E ch \in Channels : PostInit(ch)
  /\ UNCHANGED <<guestVars, toHost, toGuest>>
  /\ UNCHANGED <<hostPort, hostTok, fetches, serverVars, histVars>>

\* Message i of toHost may be next: ports are first-in first-out each, and
\* across ports only if Ordered.
Deliverable(i) ==
  /\ Ordered => i = 1
  /\ \A j \in 1..(i - 1) : toHost[j].chan # toHost[i].chan

Without(s, i) == SubSeq(s, 1, i - 1) \o SubSeq(s, i + 1, Len(s))

\* A message on a port the host has closed is never dispatched.
DropClosed ==
  /\ \E i \in DOMAIN toHost :
       /\ Deliverable(i)
       /\ toHost[i].chan \in hostClosed
       /\ toHost' = Without(toHost, i)
  /\ UNCHANGED <<guestVars, inits, hellos, toGuest, hostVars, serverVars, histVars>>

\* Mutant: the first ack wins; later ones are ignored.
OnReadyFirstWins ==
  /\ \E i \in DOMAIN toHost :
       /\ Deliverable(i)
       /\ toHost[i].type = "ready"
       /\ hostPort' = IF hostPort = None THEN toHost[i].chan ELSE hostPort
       /\ toHost' = Without(toHost, i)
  /\ UNCHANGED <<guestVars, inits, hellos, toGuest>>
  /\ UNCHANGED <<hostClosed, hostTok, fetches, serverVars, histVars>>

\* "maypop:ready": close the port adopted before, adopt the one that acked.
OnReady ==
  /\ \E i \in DOMAIN toHost :
       /\ Deliverable(i)
       /\ toHost[i].chan \notin hostClosed
       /\ toHost[i].type = "ready"
       /\ hostPort' = toHost[i].chan
       /\ hostClosed' = IF hostPort \notin {None, toHost[i].chan}
                        THEN hostClosed \cup {hostPort} ELSE hostClosed
       /\ toHost' = Without(toHost, i)
  /\ UNCHANGED <<guestVars, inits, hellos, toGuest, hostTok, fetches, serverVars, histVars>>

\* handleRefresh() up to its await.
BeginFetch(ch) ==
  \E f \in Fetches :
    /\ fetches[f].st = "idle"
    /\ fetches' = [fetches EXCEPT ![f] = [st |-> "sent", chan |-> ch, tok |-> 0]]

\* "maypop:refresh", on an adopted port or on one that has not acked yet.
OnRefresh ==
  /\ \E i \in DOMAIN toHost :
       /\ Deliverable(i)
       /\ toHost[i].chan \notin hostClosed
       /\ toHost[i].type = "refresh"
       /\ BeginFetch(toHost[i].chan)
       /\ toHost' = Without(toHost, i)
  /\ UNCHANGED <<guestVars, inits, hellos, toGuest>>
  /\ UNCHANGED <<hostPort, hostClosed, hostTok, serverVars, histVars>>

\* The host's own refresh timer, armed when a port is adopted.  It is armed again after
\* every fetch, for the same port, though another may have been adopted meanwhile.
ProactiveRefresh ==
  /\ hostPort # None
  /\ \E ch \in {hostPort} \cup hostClosed : BeginFetch(ch)
  /\ UNCHANGED <<guestVars, wireVars, hostPort, hostClosed, hostTok, serverVars, histVars>>

\* A message posted on ch reaches the guest only if both ends are open.
PostToGuest(ch, m) ==
  /\ Len(toGuest) < MaxQueue
  /\ toGuest' = IF ch = port /\ ch \notin hostClosed THEN Append(toGuest, m) ELSE toGuest

\* handleRefresh() after its await, result "ok": remember the token, pass it on.
OnAccess(f) ==
  /\ fetches[f].st = "ok"
  /\ hostTok' = fetches[f].tok
  /\ PostToGuest(fetches[f].chan, [type |-> "token", tok |-> fetches[f].tok])
  /\ fetches' = [fetches EXCEPT ![f] = IdleFetch]
  /\ UNCHANGED <<guestVars, inits, hellos, toHost, hostPort, hostClosed, serverVars, histVars>>

\* Result "revoked": tell the guest; session.token and the timers stay.
OnDenied(f) ==
  /\ fetches[f].st = "revoked"
  /\ PostToGuest(fetches[f].chan, [type |-> "revoked", tok |-> 0])
  /\ fetches' = [fetches EXCEPT ![f] = IdleFetch]
  /\ UNCHANGED <<guestVars, inits, hellos, toHost>>
  /\ UNCHANGED <<hostPort, hostClosed, hostTok, serverVars, histVars>>

(***************************************************************************)
(* The server, as the two pages use it                                     *)
(***************************************************************************)
Valid(t) == t > dead /\ ~revoked

\* Mutant: the answer is passed on without its token.
MintTokenEmpty(f) ==
  /\ fetches[f].st = "sent"
  /\ ~revoked
  /\ minted < MaxToken
  /\ minted' = minted + 1
  /\ fetches' = [fetches EXCEPT ![f].st = "ok"]
  /\ UNCHANGED <<guestVars, wireVars, hostPort, hostClosed, hostTok, dead, revoked, histVars>>

MintToken(f) ==
  /\ fetches[f].st = "sent"
  /\ ~revoked
  /\ minted < MaxToken
  /\ minted' = minted + 1
  /\ fetches' = [fetches EXCEPT ![f].st = "ok", ![f].tok = minted + 1]
  /\ UNCHANGED <<guestVars, wireVars, hostPort, hostClosed, hostTok, dead, revoked, histVars>>

DenyToken(f) ==
  /\ fetches[f].st = "sent"
  /\ revoked
  /\ fetches' = [fetches EXCEPT ![f].st = "revoked"]
  /\ UNCHANGED <<guestVars, wireVars, hostPort, hostClosed, hostTok, serverVars, histVars>>

\* The request fails, or is answered with a 5xx: accessFromCookie() says
\* "transient" and handleRefresh() does nothing.
LoseFetch(f) ==
  /\ fetches[f].st = "sent"
  /\ fetches' = [fetches EXCEPT ![f] = IdleFetch]
  /\ blip' = TRUE
  /\ UNCHANGED <<guestVars, wireVars, hostPort, hostClosed, hostTok, serverVars, reloads>>

\* An API request is answered: any answer but a 401 ends the call, with a result
\* or an error of its own; the guest has yet to see a 401.
AnswerCall(c) ==
  /\ calls[c].st = "sent"
  /\ calls' = [calls EXCEPT ![c] = IF Valid(@.tok) THEN Ended("done") ELSE [@ EXCEPT !.st = "401"]]
  /\ UNCHANGED <<doc, port, token, refreshArmed, appMode, appRevoked>>
  /\ UNCHANGED <<wireVars, hostVars, serverVars, histVars>>

ExpireToken ==
  /\ dead < minted
  /\ dead' = dead + 1
  /\ UNCHANGED <<guestVars, wireVars, hostVars, minted, revoked, histVars>>

RevokeSession ==
  /\ ~revoked
  /\ revoked' = TRUE
  /\ UNCHANGED <<guestVars, wireVars, hostVars, minted, dead, histVars>>

(***************************************************************************)
(* Specification                                                           *)
(***************************************************************************)
GuestStep ==
  \/ LoadSdk \/ SayHello \/ LoseInit \/ AdoptInit \/ OnToken \/ OnRevoked
  \/ RefreshTimer \/ Reload
  \/ \E c \in Calls : \/ StartCall(c) \/ OnFirst401(c)
                      \/ OnSecond401(c) \/ WaiterTimeout(c)

HostStep ==
  \/ Keepalive \/ OnHello \/ DropClosed \/ OnReady \/ OnRefresh \/ ProactiveRefresh
  \/ \E f \in Fetches : OnAccess(f) \/ OnDenied(f)

ServerStep ==
  \/ \E f \in Fetches : MintToken(f) \/ DenyToken(f) \/ LoseFetch(f)
  \/ \E c \in Calls : AnswerCall(c)
  \/ ExpireToken \/ RevokeSession

Next == GuestStep \/ HostStep \/ ServerStep

\* What a browser and a reachable server do in the end: run a queued task, fire
\* an armed timer, answer a request.  Nobody owes a reload, a revocation, a call.
Fairness ==
  /\ WF_vars(LoadSdk) /\ WF_vars(LoseInit) /\ WF_vars(AdoptInit)
  /\ WF_vars(OnToken \/ OnRevoked)
  /\ SF_vars(Keepalive) /\ WF_vars(OnHello)      \* strong: Channels and Fetches are our bounds,
  /\ SF_vars(DropClosed \/ OnReady \/ OnRefresh)  \* not the code's
  /\ \A f \in Fetches : /\ WF_vars(MintToken(f) \/ DenyToken(f) \/ LoseFetch(f))
                        /\ WF_vars(OnAccess(f) \/ OnDenied(f))
  /\ \A c \in Calls : /\ WF_vars(AnswerCall(c))
                      /\ WF_vars(OnFirst401(c) \/ OnSecond401(c))
                      /\ WF_vars(WaiterTimeout(c))

Spec     == Init /\ [][Next]_vars
FairSpec == Spec /\ Fairness

(***************************************************************************)
(* Properties                                                              *)
(***************************************************************************)
ReadyPending == \E i \in DOMAIN toHost : toHost[i].type = "ready"

\* Newest port wins on both sides: the host never closes the channel the guest
\* holds, and once every ack has arrived both hold the same one (the comment at
\* the init listener, runtime.ts 256-260).
PortsConverge ==
  port # None => /\ port \notin hostClosed
                 /\ ReadyPending \/ hostPort = port

\* The app is told of every change of its mode: what it last had reason to read
\* is what maypop.mode says now, whichever of init, token or revoked changed it.
ModeAnnounced == port # None => appMode = ModeOf(token)

\* No lost wakeup: as long as the session lives and no token request failed, a
\* call that waits for a token has its refresh under way on the port the guest
\* holds: asked, being fetched, or answered.
WaiterServed ==
  \A c \in Calls :
    calls[c].st = "waiting" /\ ~revoked /\ ~blip =>
      \/ \E i \in DOMAIN toHost : toHost[i] = [chan |-> port, type |-> "refresh"]
      \/ \E f \in Fetches : fetches[f].st # "idle" /\ fetches[f].chan = port
      \/ \E i \in DOMAIN toGuest : toGuest[i].type = "token"

\* The waiter's retry goes out with another token than the one refused: "The init
\* carried a fresh token" (runtime.ts 309).
RetryIsFresh ==
  \A c \in Calls : calls[c].st = "sent" => calls[c].tok # calls[c].was

\* Every call settles, in at most two attempts and one wait, unless the document
\* it ran in is reloaded.
CallsSettle ==
  \A c \in Calls : calls[c].st # "idle" ~> calls[c].st \in Settled \cup {"idle"}

\* A document that loads ends up on one channel with the host, whatever happened
\* to the inits, hellos and acks before.
Reconnects == doc = "loading" ~> (port # None /\ hostPort = port)
==============================================================================
