------------------------------ MODULE HostPage ------------------------------
(***************************************************************************)
(* The development host page and the app it frames: the page's channel     *)
(* (sandbox/runtime.ts 643-771), the tokens the SDK asks it for, the       *)
(* requests an app delegates to it (share, apps.open, group.openSettings   *)
(* in runtime.ts) and the sign-in gate with its ration of one prompt per   *)
(* gesture (150-231).  The page was rendered for a guest.                  *)
(*                                                                         *)
(* connect() closes the page's own end of the old channel before the new   *)
(* init exists, where host.ts waits for the ack; Session has that host.    *)
(* A token is whose it is: a guest's, a member's, or none.  Channels are   *)
(* numbered.  The sets of messages hold no two alike.                      *)
(***************************************************************************)
EXTENDS Naturals, Sequences

CONSTANTS Requests,      \* delegated requests
          Shares,        \* those this page supports; it refuses the others
          MaxGestures, MaxTries, MaxReloads   \* bounds, the second of what the app tries

Docs == 1..(MaxReloads + 2)              \* a sign-in reloads once more
Channels == 1..(2 * (MaxReloads + 2))    \* a hello and a load event each

VARIABLES channel,    \* page: port, 0 before the first connect()
          session,    \* connect()'s request: none, asked, or signInRequired
          doc, sdk,   \* documents framed so far; does the SDK of this one listen?
          loadEvent,  \* the frame's load event is to come
          hello,      \* a hello is on its way
          inits,      \* inits on their way to the document
          sdkPort,    \* SDK: port, 0 before the first init
          gate,       \* SDK: signInRequired
          fallback,   \* SDK: the init in use is the page's configuration
          access,     \* SDK: token
          awaits,     \* SDK: has asked for a token and not heard since
          armed,      \* SDK: promptArmed
          up, down,   \* messages on the ports
          renewing,   \* page: session requests made for a token, by what is known of each
          granted,    \* tokens on their way to the SDK
          asked,      \* stage of each request
          shown,      \* share cards the page has shown
          signedIn,   \* server: sandboxSignedIn
          signing,    \* POST /_maypop/sign-in under way
          gestures, prompts, tries, reloads

pageVars == <<channel, session, doc, sdk, loadEvent, hello, inits, sdkPort, gate, fallback, access,
              awaits, armed, up, down, renewing, granted, asked, shown, signedIn, signing, gestures,
              prompts, tries, reloads>>

counters   == <<gestures, prompts, tries, reloads>>
frame      == <<doc, sdk, loadEvent, inits>>
inUse      == <<sdkPort, gate, fallback>>
sdkVars    == <<inUse, access, awaits, armed, asked>>
tokens     == <<renewing, granted>>
server     == <<signedIn, signing>>

Accounts == {"guest", "member"}

\* framed: is there an app at all?
InitAt(framed) ==
    /\ channel = 0 /\ session = "none"
    /\ doc = 1 /\ sdk = ~framed /\ loadEvent = framed /\ hello = FALSE
    /\ inits = <<>> /\ sdkPort = 0 /\ gate = FALSE /\ fallback = FALSE
    /\ access = "none" /\ awaits = FALSE /\ armed = FALSE
    /\ up = {} /\ down = {} /\ asked = [r \in Requests |-> "idle"] /\ shown = {}
    /\ renewing = [k \in {"asked"} \cup Accounts |-> 0] /\ granted = {}
    /\ signedIn = FALSE /\ signing = FALSE
    /\ gestures = 0 /\ prompts = 0 /\ tries = 0 /\ reloads = 0

Init == InitAt(TRUE)

-----------------------------------------------------------------------------
(* The document                                                            *)

\* The SDK's script runs, before the load event or after it.
RunSdk ==
    /\ ~sdk /\ sdk' = TRUE /\ hello' = TRUE
    /\ UNCHANGED <<channel, session, doc, loadEvent, inits, sdkVars, up, down, tokens, shown,
                   server, counters>>

\* Everything of the old document goes with it.  Of the tokens posted only those for a
\* channel stay that the document was not given yet.
NewDocument ==
    /\ doc' = doc + 1 /\ sdk' = FALSE /\ loadEvent' = TRUE /\ inits' = <<>>
    /\ sdkPort' = 0 /\ gate' = FALSE /\ fallback' = FALSE /\ access' = "none" /\ awaits' = FALSE
    /\ armed' = FALSE /\ down' = {}
    /\ granted' = {g \in granted : g.ch = channel /\ session # "none"}
    /\ asked' = [r \in Requests |-> IF asked[r] = "waiting" THEN "gone" ELSE asked[r]]

\* The developer's tools reload the app.
Reload ==
    /\ reloads < MaxReloads /\ reloads' = reloads + 1
    /\ tries < MaxTries /\ tries' = tries + 1
    /\ NewDocument
    /\ UNCHANGED <<channel, session, hello, up, renewing, shown, server, gestures, prompts>>

-----------------------------------------------------------------------------
(* The page's handshake                                                    *)

Connect ==
    /\ channel' = channel + 1 /\ session' = "asked"
    /\ UNCHANGED <<doc, sdk, inits, sdkVars, up, down, tokens, shown, server, counters>>

OnHello  == hello /\ hello' = FALSE /\ UNCHANGED loadEvent /\ Connect
OnLoad   == loadEvent /\ loadEvent' = FALSE /\ UNCHANGED hello /\ Connect

\* The server answers GET /_maypop/session; the answer comes in later.
ServeSession ==
    /\ session = "asked"
    /\ session' = IF signedIn THEN "open" ELSE "gated"
    /\ UNCHANGED <<channel, frame, hello, sdkVars, up, down, tokens, shown, server, counters>>

\* Mutant: no init for a session request that failed.
PostInitLess(failed) ==
    /\ session \in {"open", "gated"}
    /\ inits' = IF failed THEN inits
                ELSE Append(inits, [ch |-> channel, gate |-> session = "gated", failed |-> FALSE])
    /\ session' = "none"
    /\ UNCHANGED <<channel, doc, sdk, loadEvent, hello, sdkVars, up, down, tokens, shown, server,
                   counters>>

\* Only the answer for the channel in use is posted.  If the request failed the page
\* falls back on its configuration, which is a guest's: it asks for a sign-in.
PostInit(failed) ==
    /\ session \in {"open", "gated"}
    /\ inits' = Append(inits, [ch |-> channel, gate |-> failed \/ session = "gated",
                               failed |-> failed])
    /\ session' = "none"
    /\ UNCHANGED <<channel, doc, sdk, loadEvent, hello, sdkVars, up, down, tokens, shown, server,
                   counters>>

\* The init listener; before the SDK runs nobody listens.  It brings a token, and
\* closes the port before it.
OnInit ==
    /\ inits # <<>> /\ inits' = Tail(inits)
    /\ IF sdk THEN LET init == Head(inits)
                   IN  /\ sdkPort' = init.ch /\ gate' = init.gate /\ fallback' = init.failed
                       /\ access' = IF init.gate THEN "guest" ELSE "member"
                       /\ awaits' = FALSE
                       /\ granted' = {g \in granted : g.ch >= init.ch}
              ELSE UNCHANGED <<inUse, access, awaits, granted>>
    /\ UNCHANGED <<channel, session, doc, sdk, loadEvent, hello, armed, up, down, renewing, asked,
                   shown, server, counters>>

-----------------------------------------------------------------------------
(* Tokens                                                                  *)

\* requestRefresh(), from its timer or after a 401.
AskToken ==
    /\ sdkPort # 0 /\ tries < MaxTries
    /\ tries' = tries + 1 /\ awaits' = TRUE
    /\ up' = up \cup {[ch |-> sdkPort, what |-> "refresh"]}
    /\ UNCHANGED <<channel, session, frame, hello, inUse, access, armed, asked, down, tokens, shown,
                   server, gestures, prompts, reloads>>

OnRefresh(msg) ==
    /\ msg \in up /\ msg.what = "refresh"
    /\ up' = up \ {msg}
    /\ renewing' = [renewing EXCEPT !["asked"] = IF msg.ch = channel THEN @ + 1 ELSE @]
    /\ UNCHANGED <<channel, session, frame, hello, sdkVars, down, granted, shown, server,
                   counters>>

\* The server answers one of them for who is signed in by then.
ServeRenewal ==
    /\ renewing["asked"] > 0
    /\ renewing' = [renewing EXCEPT !["asked"] = @ - 1,
                                    ![IF signedIn THEN "member" ELSE "guest"] = @ + 1]
    /\ UNCHANGED <<channel, session, frame, hello, sdkVars, up, down, granted, shown, server,
                   counters>>

\* Token, or revoked for any failure, to whatever channel the page has by now.
FinishRenewal(account, failed) ==
    /\ renewing[account] > 0 /\ renewing' = [renewing EXCEPT ![account] = @ - 1]
    /\ granted' = granted \cup {[ch |-> channel, access |-> IF failed THEN "none" ELSE account]}
    /\ UNCHANGED <<channel, session, frame, hello, sdkVars, up, down, shown, server, counters>>

\* A message for a channel whose init is still to come waits for it.
OnGranted(msg) ==
    /\ msg \in granted /\ msg.ch = sdkPort
    /\ granted' = granted \ {msg}
    /\ access' = msg.access /\ awaits' = FALSE
    /\ UNCHANGED <<channel, session, frame, hello, inUse, armed, asked, up, down, renewing, shown,
                   server, counters>>

-----------------------------------------------------------------------------
(* Delegated requests                                                      *)

\* share(), open() and openSettings(): a timer, an entry in aiPending, a message.
Ask(r) ==
    /\ asked[r] = "idle" /\ sdkPort # 0 /\ tries < MaxTries
    /\ tries' = tries + 1
    /\ asked' = [asked EXCEPT ![r] = "waiting"]
    /\ up' = up \cup {[ch |-> sdkPort, what |-> r]}
    /\ UNCHANGED <<channel, session, frame, hello, inUse, access, awaits, armed, down, tokens, shown,
                   server, gestures, prompts, reloads>>

\* The page's port: a message on a port it has closed is gone.
OnRequest(msg) ==
    /\ msg \in up /\ msg.what \in Requests
    /\ up' = up \ {msg}
    /\ IF msg.ch = channel
       THEN /\ shown' = shown \cup ({msg.what} \cap Shares)
            /\ down' = down \cup {[ch |-> channel, id |-> msg.what, ok |-> msg.what \in Shares]}
       ELSE UNCHANGED <<shown, down>>
    /\ UNCHANGED <<channel, session, frame, hello, sdkVars, tokens, server, counters>>

\* routeHostMessage(): by id, whatever port the request was made on.
OnReply(msg) ==
    /\ msg \in down
    /\ down' = down \ {msg}
    /\ asked' = IF msg.ch = sdkPort /\ asked[msg.id] = "waiting"
                THEN [asked EXCEPT ![msg.id] = IF msg.ok THEN "done" ELSE "refused"]
                ELSE asked
    /\ UNCHANGED <<channel, session, frame, hello, inUse, access, awaits, armed, up, tokens, shown,
                   server, counters>>

\* Ten seconds without a reply.
Timeout(r) ==
    /\ asked[r] = "waiting"
    /\ asked' = [asked EXCEPT ![r] = "refused"]
    /\ UNCHANGED <<channel, session, frame, hello, inUse, access, awaits, armed, up, down, tokens,
                   shown, server, counters>>

-----------------------------------------------------------------------------
(* The sign-in gate                                                        *)

Gesture ==
    /\ sdk /\ gestures < MaxGestures
    /\ gestures' = gestures + 1 /\ armed' = TRUE
    /\ UNCHANGED <<channel, session, frame, hello, inUse, access, awaits, up, down, tokens, asked,
                   shown, server, prompts, tries, reloads>>

\* Mutant: a prompt leaves the next one armed.
RefusedWriteArmed ==
    /\ sdkPort # 0 /\ gate /\ access # "member" /\ tries < MaxTries
    /\ tries' = tries + 1
    /\ IF armed
       THEN /\ UNCHANGED armed /\ prompts' = prompts + 1
            /\ up' = up \cup {[ch |-> sdkPort, what |-> "sign-in"]}
       ELSE UNCHANGED <<armed, prompts, up>>
    /\ UNCHANGED <<channel, session, frame, hello, inUse, access, awaits, down, tokens, asked, shown,
                   server, gestures, reloads>>

\* A write the token does not allow: refused, with a prompt if a gesture armed one.
RefusedWrite ==
    /\ sdkPort # 0 /\ gate /\ access # "member" /\ tries < MaxTries
    /\ tries' = tries + 1
    /\ IF armed
       THEN /\ armed' = FALSE /\ prompts' = prompts + 1
            /\ up' = up \cup {[ch |-> sdkPort, what |-> "sign-in"]}
       ELSE UNCHANGED <<armed, prompts, up>>
    /\ UNCHANGED <<channel, session, frame, hello, inUse, access, awaits, down, tokens, asked, shown,
                   server, gestures, reloads>>

OnSignIn(msg) ==
    /\ msg \in up /\ msg.what = "sign-in"
    /\ up' = up \ {msg}
    /\ signing' = (signing \/ msg.ch = channel)
    /\ UNCHANGED <<channel, session, frame, hello, sdkVars, down, tokens, shown, signedIn,
                   counters>>

\* Mutant: the page does not reload the app.
SignInQuiet ==
    /\ signing /\ signing' = FALSE
    /\ signedIn' = TRUE /\ UNCHANGED <<frame, sdkVars, down, granted>>
    /\ UNCHANGED <<channel, session, hello, up, renewing, shown, counters>>

\* POST /_maypop/sign-in: a second one is refused.  Success reloads the app.
SignIn ==
    /\ signing /\ signing' = FALSE
    /\ IF signedIn
       THEN UNCHANGED <<signedIn, frame, sdkVars, down, granted>>
       ELSE signedIn' = TRUE /\ NewDocument
    /\ UNCHANGED <<channel, session, hello, up, renewing, shown, counters>>

Handle(msg) == OnRequest(msg) \/ OnSignIn(msg) \/ OnRefresh(msg)

Progress ==
    \/ RunSdk \/ OnHello \/ OnLoad \/ ServeSession \/ (\E f \in BOOLEAN : PostInit(f)) \/ OnInit
    \/ (\E msg \in up : Handle(msg)) \/ (\E msg \in down : OnReply(msg)) \/ SignIn
    \/ ServeRenewal \/ (\E account \in Accounts, f \in BOOLEAN : FinishRenewal(account, f))
    \/ (\E msg \in granted : OnGranted(msg))

Next ==
    \/ Progress \/ Reload \/ AskToken \/ Gesture \/ RefusedWrite
    \/ \E r \in Requests : Ask(r) \/ Timeout(r)

Spec == Init /\ [][Next]_pageVars

-----------------------------------------------------------------------------
\* What is on its way, and what the page waits for.
InitMsg == [ch : Channels, gate : BOOLEAN, failed : BOOLEAN]
UpMsg   == [ch : Channels, what : Requests \cup {"sign-in", "refresh"}]
DownMsg == [ch : Channels, id : Requests, ok : BOOLEAN]
Grant   == [ch : Channels, access : {"none"} \cup Accounts]
Renewal == [{"asked"} \cup Accounts -> Nat]

\* Every variable keeps its type.
TypeOK ==
    /\ channel \in {0} \cup Channels /\ session \in {"none", "asked", "open", "gated"}
    /\ doc \in Docs /\ sdk \in BOOLEAN /\ loadEvent \in BOOLEAN /\ hello \in BOOLEAN
    /\ inits \in Seq(InitMsg)
    /\ sdkPort \in {0} \cup Channels /\ gate \in BOOLEAN /\ fallback \in BOOLEAN
    /\ access \in {"none"} \cup Accounts /\ awaits \in BOOLEAN /\ armed \in BOOLEAN
    /\ up \subseteq UpMsg /\ down \subseteq DownMsg
    /\ renewing \in Renewal /\ granted \subseteq Grant
    /\ asked \in [Requests -> {"idle", "waiting", "done", "refused", "gone"}]
    /\ shown \subseteq Shares /\ signedIn \in BOOLEAN /\ signing \in BOOLEAN
    /\ gestures \in 0..MaxGestures /\ prompts \in 0..MaxTries /\ tries \in 0..MaxTries
    /\ reloads \in 0..MaxReloads

\* An app that retries refused writes cannot nag: the viewer sees at most one
\* prompt per gesture, over reloads and repeated inits.
OnePromptPerGesture == prompts <= gestures

\* A share the app is told is done has been shown; one the page does not support
\* never succeeds; whichever of reply, timeout and reload comes first decides.
DoneWasShown == \A r \in Requests : asked[r] = "done" => r \in shown

\* Who has signed in gets an app without the gate, though a session that was asked
\* for before the sign-in may still be answered; but if the last session request
\* fails, the page falls back on its configuration, and the gate is back until the
\* next init.
GateLifts == <>[](signedIn /\ sdkPort # 0 /\ ~fallback => ~gate)

\* An app that asks for a token is answered, with a token, with "revoked" or with a
\* new init, though its channel may be replaced under the question or the answer,
\* each request may fail, and the app may be reloaded.
AnswerComes == []<>~awaits
=============================================================================
