------------------------------ MODULE Sandbox ------------------------------
(***************************************************************************)
(* What has no liveness of its own: the development server's files,        *)
(* scopes, policy and remote session, and of the SDK the key-value client, *)
(* AI streams, links, the image worker and the React stores.  They share   *)
(* no variables, so a behaviour is about one of them, the subject; the     *)
(* others stay as they are.                                                *)
(***************************************************************************)
EXTENDS Drive

CONSTANTS
  Parts,                                   \* the subjects
  None,
  Mutations, MaxStarts, MaxMounts,         \* React
  RemoteCalls, Reads, Waits,               \* Remote
  MaxToken,                                \* Remote, Cache
  Fetches, ImageUrls,                      \* Cache
  Subscribers, MaxTokens, MaxDrops,        \* KvClient
  RemoteGrants, Logins, Servers, Home, MaxNotes,             \* Dev
  Viewer, Sizes, Numbers, MaxSafe, Records, Keys, Manifests,          \* Policy
  Data, Newline, Noise, Deltas, Bodies,    \* Ai
  MaxPath, MaxLong                         \* Link

\* The bounds are numbers; a remote session has at least the scope every member of a group has, and
\* answers are made of tokens.
ASSUME SandboxAssumption ==
  /\ Reads \subseteq RemoteCalls /\ Waits \subseteq RemoteCalls
  /\ Parts \subseteq {"drive", "react", "remote", "cache", "kv", "server", "rules", "ai", "links"}
  /\ MaxToken \in Nat \ {0}
  /\ {MaxTokens, MaxDrops, MaxStarts, MaxMounts, MaxNotes, MaxLong} \subseteq Nat
  /\ \A scopes \in RemoteGrants : "group:read" \in scopes /\ IsFiniteSet(scopes)
  /\ MaxSafe \in Nat /\ Sizes \subseteq 0..MaxSafe
  /\ Numbers \subseteq Nat /\ None \notin Numbers
  /\ Bodies \subseteq Seq(Deltas \cup {Data, Newline, Noise})

VARIABLES
  subject,
  ready, mounted, started, generation, waiting, attached, status, failed, busy, mutation,
  access, near, refused, refreshing, step, bearer, tried, lastRefused, controllers, hungUp, serving,
  token, revoked, expired, worker, config, pulled, wire, pull, fetch, seeks, using, cache, urls,
  object, stored,
  polls, scope, kvStarted, engine, stream, timers, starved, sub, tokens, drops,
  devConfig, fixtures, stage, remote, savedFor, devSignedIn, initial, page, notes,
  input, verdict,
  can, call, retried, body, taken, buf, text, error, reported,
  path, via, hash, linkStage, made, screen

reactV == <<ready, mounted, started, generation, waiting, attached, status, failed, busy, mutation>>
remoteV == <<access, near, refused, refreshing, step, bearer, tried, lastRefused, controllers,
             hungUp, serving>>
cacheV == <<token, revoked, expired, worker, config, pulled, wire, pull, fetch, seeks, using,
            cache, urls, object, stored>>
kvV == <<polls, scope, kvStarted, engine, stream, timers, starved, sub, tokens, drops>>
devV == <<devConfig, fixtures, stage, remote, savedFor, devSignedIn, initial, page, notes>>
rulesV == <<input, verdict>>
aiV == <<can, call, retried, body, taken, buf, text, error, reported>>
linksV == <<path, via, hash, linkStage, made, screen>>
allVars == <<subject, vars, reactV, remoteV, cacheV, kvV, devV, rulesV, aiV, linksV>>

React == INSTANCE ReactStores WITH current <- generation
Remote == INSTANCE RemoteSession WITH Requests <- RemoteCalls
Cache == INSTANCE CacheWorker WITH Urls <- ImageUrls
KvClient == INSTANCE KvClient WITH started <- kvStarted
Dev == INSTANCE DevServer WITH Urls <- Servers, config <- devConfig, signedIn <- devSignedIn
Policy == INSTANCE Rules
Ai == INSTANCE AiStream
Link == INSTANCE Links WITH stage <- linkStage

\* Keys and patterns are segments, and None is neither a mode nor a set of rules.
ASSUME PolicyAssumption ==
  /\ None \notin Policy!PresetModes /\ Keys \subseteq Seq(STRING)
  /\ \A mode \in Policy!PresetModes : Policy!PresetKvRules(mode) # None
  /\ \A manifest \in Manifests \ {None} :
       /\ manifest.mode \in Policy!PresetModes \cup {"advanced", None}
       /\ manifest.rules # None /\ \A rule \in manifest.rules : rule.key \in Seq(STRING)

AllInit ==
  /\ subject \in Parts
  /\ Init /\ (subject = "drive" \/ name = [o \in Ops |-> CHOOSE n \in Names : TRUE])
  /\ React!Init /\ Remote!Init
  /\ IF subject = "cache" THEN Cache!Init ELSE Cache!InitWith(FALSE)
  /\ IF subject = "kv" THEN KvClient!Init ELSE KvClient!InitWith(FALSE, "reads")
  /\ IF subject = "server" THEN Dev!Init
     ELSE Dev!InitWith([mode |-> "sandbox", notifications |-> "inspect", caps |-> None,
                        viewer |-> None], FALSE)
  /\ IF subject = "rules" THEN Policy!Init
     ELSE Policy!InitWith([first |-> None, last |-> None, size |-> 0])
  /\ IF subject = "ai" THEN Ai!Init ELSE Ai!InitWith(TRUE, <<>>)
  /\ IF subject = "links" THEN Link!Init ELSE Link!InitWith(<<>>, "link.to", <<>>)

Only(part) == subject = part /\ UNCHANGED subject

AllNext ==
  \/ Only("drive") /\ Next
     /\ UNCHANGED <<reactV, remoteV, cacheV, kvV, devV, rulesV, aiV, linksV>>
  \/ Only("react") /\ React!Next
     /\ UNCHANGED <<vars, remoteV, cacheV, kvV, devV, rulesV, aiV, linksV>>
  \/ Only("remote") /\ Remote!Next
     /\ UNCHANGED <<vars, reactV, cacheV, kvV, devV, rulesV, aiV, linksV>>
  \/ Only("cache") /\ Cache!Next
     /\ UNCHANGED <<vars, reactV, remoteV, kvV, devV, rulesV, aiV, linksV>>
  \/ Only("kv") /\ KvClient!Next
     /\ UNCHANGED <<vars, reactV, remoteV, cacheV, devV, rulesV, aiV, linksV>>
  \/ Only("server") /\ Dev!Next
     /\ UNCHANGED <<vars, reactV, remoteV, cacheV, kvV, rulesV, aiV, linksV>>
  \/ Only("rules") /\ Policy!Next
     /\ UNCHANGED <<vars, reactV, remoteV, cacheV, kvV, devV, aiV, linksV>>
  \/ Only("ai") /\ Ai!Next
     /\ UNCHANGED <<vars, reactV, remoteV, cacheV, kvV, devV, rulesV, linksV>>
  \/ Only("links") /\ Link!Next
     /\ UNCHANGED <<vars, reactV, remoteV, cacheV, kvV, devV, rulesV, aiV>>

AllSpec == AllInit /\ [][AllNext]_allVars

\* Every variable of every part keeps its type.
AllTypes ==
  CASE subject = "drive" -> TypeOK [] subject = "react" -> React!TypeOK
    [] subject = "remote" -> Remote!TypeOK [] subject = "cache" -> Cache!TypeOK
    [] subject = "kv" -> KvClient!TypeOK [] subject = "server" -> Dev!TypeOK
    [] subject = "rules" -> Policy!TypeOK [] subject = "ai" -> Ai!TypeOK
    [] subject = "links" -> Link!TypeOK

\* The properties of the parts, each stated and explained in its module; those of Drive are
\* here already.
NoLeak == React!NoLeak
RetryIsRenewed == Remote!RetryIsRenewed
WaiterHasRefresh == Remote!WaiterHasRefresh
ConfigCatchesUp == Cache!ConfigCatchesUp
StreamAlive == KvClient!StreamAlive
GrantedIsServed == Dev!GrantedIsServed
PolicyRight == Policy!PolicyRight
RangeExact == Policy!RangeExact
StreamExact == Ai!StreamExact
LinkLands == Link!LinkLands
=============================================================================
