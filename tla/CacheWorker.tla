---------------------------- MODULE CacheWorker ----------------------------
(***************************************************************************)
(* Cached images: the service worker that answers /_upload/{cid} from its  *)
(* cache or with a signed URL it needs the page's token for                *)
(* (app-cache-sw.ts), and in runtime.ts its registration, the tokens the   *)
(* page pushes to it and drive.imageUrl(), which falls back to IndexedDB.  *)
(* One page, one image.  Tokens are numbers in the order the page gets     *)
(* them.  Pushes arrive in order, but an answer to a pull comes on a port   *)
(* of its own, before or after the pushes around it.                       *)
(***************************************************************************)
EXTENDS Naturals, FiniteSets, Sequences

CONSTANTS Fetches,    \* GETs of the image
          Urls,       \* calls of imageUrl()
          MaxToken    \* bound: tokens

VARIABLES token,      \* page: 0 before the first init
          revoked,    \* page: it has no token any more
          expired,    \* the server refuses tokens up to this one
          worker,     \* cacheWorkerReady: none, registering, up, off
          config,     \* worker: the token it holds, 0 for none
          pulled,     \* worker: did it pull that token?
          wire,       \* messages to the worker: tokens pushed, and answers to pulls
          pull,       \* the worker's pull: none, asked, answered
          fetch,      \* stage of each GET
          seeks,      \* GETs with a Range header
          using,      \* GET: the token its signed URL is asked for with
          cache,      \* what the worker's cache has of the image
          urls,       \* each imageUrl(): asked, cold, failed, path, or who made its URL
          object,     \* imageObjectUrls: the call that made the URL in it, or none
          stored      \* is the image in IndexedDB?

cacheVars == <<token, revoked, expired, worker, config, pulled, wire, pull, fetch, seeks,
               using, cache, urls, object, stored>>

tokenVars  == <<token, revoked, expired>>
imageVars  == <<urls, object, stored>>
workerVars == <<config, pulled, pull, fetch, seeks, using, cache>>

\* kept: is the image in IndexedDB since an earlier visit?
InitWith(kept) ==
    /\ token = 0 /\ revoked = FALSE /\ expired = 0
    /\ worker = "none" /\ config = 0 /\ pulled = FALSE /\ wire = <<>> /\ pull = "none" /\ cache = {}
    /\ seeks = {}
    /\ fetch = [f \in Fetches |-> "idle"] /\ using = [f \in Fetches |-> 0]
    /\ urls = [u \in Urls |-> "idle"] /\ object = "none" /\ stored = kept

Init == \E kept \in BOOLEAN : InitWith(kept)

-----------------------------------------------------------------------------
(* The page                                                                *)

\* pushCacheWorkerConfig(): nothing without a worker in control.
Push(t) == wire' = IF worker = "up" THEN Append(wire, [what |-> "config", token |-> t]) ELSE wire

\* Mutant: a new token is not pushed.
SetTokenSilent ==
    /\ token < MaxToken /\ token' = token + 1 /\ revoked' = FALSE
    /\ UNCHANGED wire
    /\ worker' = IF worker = "none" THEN "registering" ELSE worker
    /\ UNCHANGED <<expired, workerVars, imageVars>>

\* An init or a token message: setToken(); the first init registers the worker.
SetToken ==
    /\ token < MaxToken /\ token' = token + 1 /\ revoked' = FALSE
    /\ Push(token')
    /\ worker' = IF worker = "none" THEN "registering" ELSE worker
    /\ UNCHANGED <<expired, workerVars, imageVars>>

Revoke ==
    /\ token > 0 /\ ~revoked /\ revoked' = TRUE
    /\ UNCHANGED <<token, expired, worker, wire, workerVars, imageVars>>

Expire ==
    /\ expired < token /\ expired' = token
    /\ UNCHANGED <<token, revoked, worker, wire, workerVars, imageVars>>

\* The worker takes control, or registering it fails, or it does not in 5 s.
Registered(ok) ==
    /\ worker = "registering"
    /\ worker' = IF ok THEN "up" ELSE "off"
    /\ wire' = IF ok /\ ~revoked THEN Append(wire, [what |-> "config", token |-> token]) ELSE wire
    /\ UNCHANGED <<tokenVars, workerVars, imageVars>>

\* The page's answer to maypop:request-config.
AnswerPull ==
    /\ pull = "asked"
    /\ pull' = "answered"
    /\ wire' = Append(wire, [what |-> "answer", token |-> IF revoked THEN 0 ELSE token])
    /\ UNCHANGED <<tokenVars, worker, config, pulled, fetch, seeks, using, cache, imageVars>>

-----------------------------------------------------------------------------
(* imageUrl()                                                              *)

CallUrl(u) ==
    /\ urls[u] = "idle" /\ token > 0 /\ ~revoked
    /\ urls' = [urls EXCEPT ![u] = "asked"]
    /\ UNCHANGED <<tokenVars, worker, wire, workerVars, object, stored>>

\* Once the registration has settled: the worker's path, a URL made before, one
\* made from IndexedDB, or a download.
ResolveUrl(u) ==
    /\ urls[u] = "asked" /\ worker \in {"up", "off"}
    /\ LET made == IF stored THEN u ELSE "cold"
           kept == IF object # "none" THEN object ELSE made
       IN urls' = [urls EXCEPT ![u] = IF worker = "up" THEN "path" ELSE kept]
    /\ object' = IF urls'[u] = u THEN u ELSE object
    /\ UNCHANGED <<tokenVars, worker, wire, workerVars, stored>>

\* The bytes have come: store them, make a URL, whatever others did meanwhile.
Download(u) ==
    /\ urls[u] = "cold"
    /\ urls' = [urls EXCEPT ![u] = u] /\ object' = u /\ stored' = TRUE
    /\ UNCHANGED <<tokenVars, worker, wire, workerVars>>

FailDownload(u) ==
    /\ urls[u] = "cold"
    /\ urls' = [urls EXCEPT ![u] = "failed"]
    /\ UNCHANGED <<tokenVars, worker, wire, workerVars, object, stored>>

-----------------------------------------------------------------------------
(* The worker                                                              *)

Arrived(i) == \A j \in 1..i - 1 : wire[j].what # wire[i].what

Without(i) == SubSeq(wire, 1, i - 1) \o SubSeq(wire, i + 1, Len(wire))

OnConfig(i) ==
    /\ Arrived(i) /\ wire[i].what = "config"
    /\ config' = wire[i].token /\ pulled' = FALSE /\ wire' = Without(i)
    /\ UNCHANGED <<tokenVars, worker, pull, fetch, seeks, using, cache, imageVars>>

\* Cache first, but for a seek; then the token, the page's own if need be.
\* GETs that need it share one pull.
Get(f, seek) ==
    /\ fetch[f] = "idle" /\ worker = "up"
    /\ seeks' = IF seek THEN seeks \cup {f} ELSE seeks
    /\ \/ ~seek /\ cache # {}
          /\ fetch' = [fetch EXCEPT ![f] = "served"] /\ UNCHANGED <<using, pull>>
       \/ (seek \/ cache = {}) /\ config # 0
          /\ fetch' = [fetch EXCEPT ![f] = "signing"]
          /\ using' = [using EXCEPT ![f] = config] /\ UNCHANGED pull
       \/ (seek \/ cache = {}) /\ config = 0
          /\ fetch' = [fetch EXCEPT ![f] = "pulling"] /\ UNCHANGED using
          /\ pull' = IF pull = "none" THEN "asked" ELSE pull
    /\ UNCHANGED <<tokenVars, worker, config, pulled, wire, cache, imageVars>>

\* Every GET that waits goes on with what was pulled, or else with what was
\* pushed meanwhile, or is refused.
Pulled(tok) ==
    /\ config' = IF tok = 0 THEN config ELSE tok
    /\ pulled' = (tok # 0 \/ pulled)
    /\ pull' = "none"
    /\ LET waiting == {f \in Fetches : fetch[f] = "pulling"}
       IN /\ fetch' = [f \in Fetches |-> IF f \notin waiting THEN fetch[f]
                                         ELSE IF config' = 0 THEN "401" ELSE "signing"]
          /\ using' = [f \in Fetches |-> IF f \in waiting THEN config' ELSE using[f]]
    /\ UNCHANGED <<tokenVars, worker, seeks, cache, imageVars>>

OnPulled(i) ==
    /\ Arrived(i) /\ wire[i].what = "answer"
    /\ wire' = Without(i) /\ Pulled(wire[i].token)

\* Five seconds: an answer that comes later finds nobody.
PullTimeout ==
    /\ pull # "none"
    /\ IF pull = "answered"
       THEN \E i \in 1..Len(wire) : wire[i].what = "answer" /\ wire' = Without(i)
       ELSE UNCHANGED wire
    /\ Pulled(0)

\* The signed URL, then the bytes: whole, part of them, or an error.  Only what
\* is whole is kept, and of what a seek brings nothing.
OnBytes(f, bytes) ==
    /\ fetch[f] = "signing"
    /\ IF using[f] <= expired
       THEN fetch' = [fetch EXCEPT ![f] = "502"] /\ UNCHANGED cache
       ELSE /\ fetch' = [fetch EXCEPT ![f] = IF bytes = "error" THEN "error" ELSE "served"]
            /\ cache' = IF f \in seeks \/ bytes # "whole" THEN cache ELSE cache \cup {bytes}
    /\ UNCHANGED <<tokenVars, worker, config, pulled, wire, pull, seeks, using, imageVars>>

\* The browser stops a worker that has nothing to answer.
Evict ==
    /\ config # 0 /\ pull = "none" /\ wire = <<>>
    /\ \A f \in Fetches : fetch[f] \notin {"pulling", "signing"}
    /\ config' = 0 /\ pulled' = FALSE
    /\ UNCHANGED <<tokenVars, worker, wire, pull, fetch, seeks, using, cache, imageVars>>

Next ==
    \/ SetToken \/ Revoke \/ Expire \/ (\E ok \in BOOLEAN : Registered(ok)) \/ AnswerPull
    \/ (\E i \in 1..Len(wire) : OnConfig(i) \/ OnPulled(i)) \/ PullTimeout \/ Evict
    \/ \E u \in Urls : CallUrl(u) \/ ResolveUrl(u) \/ Download(u) \/ FailDownload(u)
    \/ \E f \in Fetches : (\E seek \in BOOLEAN : Get(f, seek)) \/ \E b \in {"whole", "part", "error"} : OnBytes(f, b)

Spec == Init /\ [][Next]_cacheVars

-----------------------------------------------------------------------------
\* Every variable keeps its type.
TypeOK ==
    /\ token \in 0..MaxToken /\ expired \in 0..token
    /\ worker \in {"none", "registering", "up", "off"} /\ config \in 0..token
    /\ pulled \in BOOLEAN
    /\ wire \in Seq([what : {"config", "answer"}, token : 0..token])
    /\ revoked \in BOOLEAN /\ pull \in {"none", "asked", "answered"}
    /\ fetch \in [Fetches -> {"idle", "pulling", "signing", "served", "401", "502", "error"}]
    /\ seeks \subseteq Fetches /\ using \in [Fetches -> 0..token] /\ cache \subseteq {"whole"}
    /\ urls \in [Urls -> {"idle", "asked", "cold", "path", "failed"} \cup Urls]
    /\ object \in {"none"} \cup Urls /\ stored \in BOOLEAN

\* Once no message is on its way the worker holds the page's newest token or
\* none, over evictions and timeouts, but for a token it pulled: that answer may
\* have been overtaken by a push, whose token it then undoes.
ConfigCatchesUp == wire = <<>> /\ ~pulled => config \in {0, token}
=============================================================================
