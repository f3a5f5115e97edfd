------------------------------ MODULE KvClient ------------------------------
(***************************************************************************)
(* The key-value store as an app holds it (the kv object of                *)
(* src/src/runtime.ts): an engine that is imported once, on first use, and *)
(* the stream that tells it when to pull.  KvSync has what the engine and  *)
(* the server say to each other; here is how the engine comes to be, and   *)
(* whether it goes on hearing, while the token changes, is taken away and  *)
(* comes back, subscriptions come and go during the import, and streams    *)
(* fail.                                                                   *)
(***************************************************************************)
EXTENDS Naturals

CONSTANTS
  Subscribers,  \* calls of kv.subscribe()
  MaxTokens,    \* bound: changes of the token
  MaxDrops      \* bound: failures of the stream

VARIABLES
  polls,      \* context.kvPullIntervalMs is set: the engine polls, no stream
  scope,      \* the token: it grants kv:read, it does not, or it is null
  started,    \* start() has run
  engine,     \* engineReady
  stream,     \* es
  timers,     \* setTimeout(connectPoke, 2000) under way
  starved,    \* connectPoke() has found the token gone
  sub,        \* sub[s]: how far a subscription is
  tokens, drops

vars == <<polls, scope, started, engine, stream, timers, starved, sub, tokens, drops>>
streamVars == <<stream, timers, starved>>

Scopes == {"reads", "denies", "gone"}
Asked == {"importing", "ready", "denied", "failed"}

InitWith(interval, granted) ==
  /\ polls = interval
  /\ scope = granted
  /\ started = FALSE
  /\ engine = "unasked"
  /\ stream = "none"
  /\ timers = 0
  /\ starved = FALSE
  /\ sub = [s \in Subscribers |-> "idle"]
  /\ tokens = 0
  /\ drops = 0

Init == \E interval \in BOOLEAN, granted \in {"reads", "denies"} : InitWith(interval, granted)

\* loadEngine(): asked once, and its outcome is remembered.
LoadEngine ==
  engine' = IF engine # "unasked" THEN engine
            ELSE IF scope = "reads" THEN "importing" ELSE "denied"

ConnectPoke ==
  IF scope = "gone" \/ polls
  THEN starved' = (starved \/ scope = "gone") /\ UNCHANGED stream
  ELSE stream' = "connecting" /\ UNCHANGED starved

\* readyPromise.then(() => kv.start())
Start ==
  /\ ~started
  /\ started' = TRUE
  /\ IF scope = "reads" THEN LoadEngine ELSE UNCHANGED engine
  /\ UNCHANGED <<polls, scope, streamVars, sub, tokens, drops>>

\* The import answers; the engine is made and its stream opened.
Imported ==
  /\ engine = "importing"
  /\ engine' = "ready"
  /\ ConnectPoke
  /\ UNCHANGED <<polls, scope, started, timers, sub, tokens, drops>>

ImportFails ==
  /\ engine = "importing"
  /\ engine' = "failed"
  /\ UNCHANGED <<polls, scope, started, streamVars, sub, tokens, drops>>

\* Also what get(), set(), delete() and list() do first.
Subscribe(s) ==
  /\ started
  /\ sub[s] = "idle"
  /\ LoadEngine
  /\ sub' = [sub EXCEPT ![s] = "waiting"]
  /\ UNCHANGED <<polls, scope, started, streamVars, tokens, drops>>

\* The engine is there, or there is none and the subscriber is told of an empty store.
Attach(s) ==
  /\ sub[s] = "waiting"
  /\ engine \in {"ready", "denied"}
  /\ sub' = [sub EXCEPT ![s] = IF engine = "ready" THEN "attached" ELSE "toldEmpty"]
  /\ UNCHANGED <<polls, scope, started, engine, streamVars, tokens, drops>>

Unsubscribe(s) ==
  /\ sub[s] \notin {"idle", "cancelled"}
  /\ sub' = [sub EXCEPT ![s] = "cancelled"]
  /\ UNCHANGED <<polls, scope, started, engine, streamVars, tokens, drops>>

StreamOpens ==
  /\ stream = "connecting"
  /\ stream' = "open"
  /\ UNCHANGED <<polls, scope, started, engine, timers, starved, sub, tokens, drops>>

\* Mutant: the stream that failed is not closed.
StreamFailsOpen ==
  /\ stream # "none"
  /\ drops < MaxDrops
  /\ drops' = drops + 1
  /\ stream' = stream
  /\ timers' = timers + 1
  /\ UNCHANGED <<polls, scope, started, engine, starved, sub, tokens>>

\* onerror: close it, so that the browser does not reopen it by itself, and start over later.
StreamFails ==
  /\ stream # "none"
  /\ drops < MaxDrops
  /\ drops' = drops + 1
  /\ stream' = "none"
  /\ timers' = timers + 1
  /\ UNCHANGED <<polls, scope, started, engine, starved, sub, tokens>>

Reconnect ==
  /\ timers > 0
  /\ timers' = timers - 1
  /\ ConnectPoke
  /\ UNCHANGED <<polls, scope, started, engine, sub, tokens, drops>>

\* The session's token is replaced or revoked, or an init brings one again.
TokenChanges(s) ==
  /\ tokens < MaxTokens
  /\ tokens' = tokens + 1
  /\ s # scope
  /\ scope' = s
  /\ UNCHANGED <<polls, started, engine, streamVars, sub, drops>>

Next ==
  \/ Start \/ Imported \/ ImportFails
  \/ \E s \in Subscribers : Subscribe(s) \/ Attach(s) \/ Unsubscribe(s)
  \/ StreamOpens \/ StreamFails \/ Reconnect
  \/ \E s \in Scopes : TokenChanges(s)

Spec == Init /\ [][Next]_vars

-----------------------------------------------------------------------------
\* Every variable keeps its type.
TypeOK ==
  /\ polls \in BOOLEAN
  /\ scope \in Scopes
  /\ started \in BOOLEAN
  /\ engine \in {"unasked"} \cup Asked
  /\ stream \in {"none", "connecting", "open"}
  /\ timers \in 0..1
  /\ starved \in BOOLEAN
  /\ sub \in [Subscribers -> {"idle", "waiting", "attached", "toldEmpty", "cancelled"}]
  /\ tokens \in 0..MaxTokens
  /\ drops \in 0..MaxDrops

\* An engine that does not poll has a stream or is about to open one, and never both, whatever
\* came between: else the client hears of no write again, or two streams pull for one engine.
\* The one way to lose it is a reconnect that met a session without a token.
StreamAlive ==
  engine = "ready" /\ ~polls /\ ~starved => (stream # "none") # (timers = 1)
=============================================================================
