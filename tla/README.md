# Verification of maypop-sdk

TLA+ models of the SDK's protocols, TLC configurations that check them on small
instances, and TLAPS proofs for every value of the constants. Paths below start
at the checkout, so `src/src/runtime.ts` is the repository's `src/runtime.ts`.

## The system

A Maypop app runs in an iframe. The SDK inside it (`runtime.ts`) talks to the page
around it (`host.ts`, or a page served by the development server) over window
messages and a MessagePort, and to a server over HTTP with a short-lived access
token that only the page can renew. In development the server is a sandbox on
the developer's machine (`sandbox/runtime.ts`, `sandbox/development.ts`) that keeps
its data in JSON files and may borrow capabilities from a remote session.

| Component | State | Operations | Talks to |
| --- | --- | --- | --- |
| SDK session (`runtime.ts` 120-407) | port, token, refresh timer, waiters, `me` | adopt init, token, revoked, refresh, `api()` with one retry, hello | host by messages, server by requests |
| Shell host (`host.ts`) | adopted port, `session.token`, timers; cookie, revision, notice | boot, init, ready, refresh; poll, update, dismiss | SDK by messages, server by requests |
| Development page (`sandbox/runtime.ts` 610-830) | port, pending session request, sign-in | connect, reply to requests, sign in and reload | SDK by messages, server |
| KV client (`kv/index.ts`, `runtime.ts` 405-620) | engine, snapshot, unconfirmed mutations, poke stream | start, subscribe, set, delete, push, pull, connect | server |
| Sandbox KV (`sandbox/runtime.ts`) | `JsonStore`: queue, value, file; poke clients | push, pull, poke, sign-in, policy | clients |
| Data lock (`sandbox/local-data.ts` 76-202) | `.lock` file, `heldLocks` | acquire, judge stale, release | other servers through the file system |
| Sandbox drive (`sandbox/runtime.ts`) | index `JsonStore`, files and pending directories | presign, upload, confirm, delete, ranges | SDK |
| Development server (`sandbox/development.ts`) | dev.json, profiles, signed-in viewer, notes | choose a profile, mint, grant scopes, route | page, remote server |
| Remote session (`sandbox/development.ts` 566-774) | token, the refresh under way, controllers | current token, refresh, proxy, close | page, remote server |
| Mesh and rooms (`runtime.ts`, `iroh/src`) | roster, connections; state, echo, replica | connect, dial, leave; join, set, read | peers, rendezvous |
| Agent session (`agent/index.ts` 490-693) | transcript, turn, steering | load, send, abort, persist | AI gateway, KV |
| AI streams (`runtime.ts` `aiStream()`) | buffer, text | request, retry, read | AI gateway |
| React stores (`react.ts`) | snapshot, generation, listeners | mount, unmount, publish, mutate | SDK |
| Cache worker (`app-cache-sw.ts`) | token, cache, pull under way | config, fetch, pull | SDK, server |
| Deep links (`runtime.ts`, `sandbox/`) | a path on its way | `link.to`, `share`, `notify`, launch | page, server |

What is hard here: window messages, port messages and HTTP answers each keep an
order of their own and none across; iframes reload in the middle of a handshake;
tokens expire under requests; pokes, pushes and answers get lost or late; the
server is killed between writing a file and replacing the value in memory; HTTP
handlers interleave at every `await`; several servers run over one directory;
components mount and unmount under pending promises; peers vanish while they are
dialled. `hazards` in `PROJECT.json` lists this line by line with the properties
that watch it, and says why where none does.

What makes each component correct: the two pages end on one channel, and the app
hears of every change of its mode; calls settle; a write is taken exactly once, in
order, and survives a crash once confirmed; an idle client is up to date and goes on
hearing; the lock has one holder; what the drive lists can be read, what it confirmed
is listed; what a token grants is served; a second attempt carries a new token and no
request is forgotten; two tabs find one another and agree on it; a room neither
flickers nor diverges; a conversation keeps its history and takes what is sent to its turns;
a store leaves no listener behind; a path that is accepted lands where it says.

## Modules

| Module | Models | Checked through | Theorems |
| --- | --- | --- | --- |
| `Session` | SDK and host: handshake, tokens, calls | `MCSession` | `SessionProofs` |
| `KvLog` | what the KV store promises, abstractly | `KvSync` | `KvSyncProofs` |
| `KvSync` | KV clients, poke streams, sandbox KV; implements `KvLog` | `MCKvSync` | `KvSyncProofs` |
| `LocalLock` | the lock on the data directory | `MCLocalLock` | `LocalLockProofs` |
| `Shell` | boot of the shell, revision polls, the update notice | `MCPage` | `PageProofs` |
| `Mesh` | `multiplayer.connect()`: rendezvous, dialling, links | `MCPage` | `MeshProofs` |
| `Room` | `multiplayer.join()`: presence, shared state, echo | `MCPage` | `PageProofs` |
| `AgentSession` | transcript and turns of an agent | `MCPage` | `PageProofs` |
| `HostPage` | development page: ports, delegated requests, sign-in gate | `MCPage` | `PageProofs` |
| `Drive` | the drive's index and directories | `MCSandbox` | `DriveProofs` |
| `ReactStores` | the two stores behind the hooks | `MCSandbox` | `SdkProofs` |
| `RemoteSession` | shared refresh, proxied requests | `MCSandbox` | `ServerProofs` |
| `CacheWorker` | the image worker, its tokens, `imageUrl()` | `MCSandbox` | `ServerProofs` |
| `KvClient` | the engine's import and the life of its poke stream | `MCSandbox` | `SdkProofs` |
| `DevServer` | dev.json, profiles, scopes, routing | `MCSandbox` | `ServerProofs` |
| `Rules` | KV policy and byte ranges, as operators | `MCSandbox` | `ServerProofs` |
| `AiStream` | `aiStream()`, its retry and its line buffer | `MCSandbox` | `SdkProofs` |
| `Links` | deep links from call to screen | `MCSandbox` | `SdkProofs` |

`Page` and `Sandbox` compose several parts that share no variables; `MCPage` and
`MCSandbox` instantiate them. A behaviour is about one part, the `subject`, and the
others stay where nothing of theirs goes on, so the states of the parts add up instead
of multiplying. Each part's properties are stated in its own module; the compositions
only name them again. Theorems about a part are theorems about its composition, in
`MeshProofs` and `PageProofs` (which extends it), or `SdkProofs` and `ServerProofs`
(which extends that one and `DriveProofs`).

### Session

The document in the iframe is `loading` until the SDK has registered its listener.
`AdoptInit` is the whole listener (`runtime.ts` 261-316): close the old port, adopt
the new one, ack, `setToken`, announce a mode change, flush the waiters, start
`GET /me` once. `OnToken` and `OnRevoked` are `port.onmessage`. A call goes `sent`,
`401`, `waiting`, `sent` again, and settles; `Flushed` is `flushTokenWaiters()`, which
sends every waiter on to its retry with the token at hand. On the host, `Keepalive` and
`OnHello` post an init with a new channel and `session.token`; `OnReady` closes the
channel adopted before; `handleRefresh()` is split at its `await`: `BeginFetch`, then
`OnAccess` or `OnDenied`. Port messages are one sequence in the order they were sent,
first-in first-out per channel; `Ordered` says whether the order also holds across
channels. Channels are reused once nothing refers to them. Timers fire at any moment;
the host's own (`ProactiveRefresh`) goes on with the port it was armed for, adopted or not.
Tokens are numbers; `Grant` gives the mode of each.

### KvSync, KvLog and KvClient

`KvLog` is the promise: clients make mutations; the store takes each client's in
order, each once, in batches that take effect as a whole; a client confirms only what
was taken. `KvSync` is the system: `SendPush` resends all unconfirmed mutations,
`DenyPush` answers 403 to a viewer who may not write,
`ReceivePush` queues in `JsonStore.update()`, `BeginUpdate` runs the mutator on a
clone, `RenameFile` replaces the file, `FinishUpdate` replaces the value in memory,
answers and pokes. `FailUpdate` is a mutator that throws or a file that cannot be
written. `CrashRestart` loses everything in memory, and with it who has signed in: a page
may go on writing (`Mutate`) with a token that still has the scope. `OpenStream`, `OnPoke` and
`DropStream` are `connectPoke()`. Values are abstracted to the mutation that set them.

Replicache is external. Its part: local mutations apply at once, pushes carry all
unconfirmed mutations, pulls are one at a time, an answer older than the snapshot is
ignored, failed requests are tried again.

`KvClient` has what `KvSync` takes for granted: `loadEngine()` with the outcome it
remembers, `kv.start()`, subscriptions that are cancelled while the engine is imported,
and `connectPoke()` with its timer, while tokens come, go and change.

### LocalLock

One action per system call: `OpenExclusive`, `ReadOwner`, `ProbeOwner` (`kill(pid, 0)`),
`CompareStart`, `UnlinkStale`, `WriteOwner`, and for `release()` `CheckOwn` and
`UnlinkOwn`. Processes end at any point and their ids go to new processes. A lock file
is named by the acquisition that created it, so that a descriptor whose file was
unlinked writes to that file and not to the one at the path. `BeginSave` and `EndSave`
stand for a `JsonStore` update, which `close()` does not await.

### Drive

An operation that creates stands for its content id. `Presign`, `Upload`, `Confirm`,
`StatBytes`, `MoveBytes` end at the handler's awaits; the index update is queued, then
written by `RenameIndex` and taken over by `FinishUpdate`. `StartRemove` looks the
files up and queues; `RemoveBytes` deletes what was found before the update. `FailOp`
and `FailUpdate` are failing requests and file operations; `Restart` empties the
pending directory and reloads the index.

### The shell and the development page

`Shell`: `boot()` one await at a time (exchange, cookie, revision, frame), then a poll
whose answer may arrive after a click, a dismissal or a reload. A frame whose revision
could not be read takes what the server has, and the first poll decides what it is compared
with. `HostPage`: channels are numbered; `Connect` replaces the page's channel at a hello or
a load event, the answer of `GET /_maypop/session` comes later, and if that request fails
`PostInit` posts the configuration the page was rendered with, a guest's (`fallback`).
`AskToken`, `OnRefresh`, `ServeRenewal`, `FinishRenewal` and `OnGranted` are a request for a
token: a session request of its own, answered for who is signed in by then, with a token or
with "revoked", on whatever channel is current when it ends. `Ask`, `OnRequest`, `OnReply`,
`Timeout` are share, `apps.open` and `group.openSettings`; `Gesture`, `RefusedWrite`,
`OnSignIn`, `SignIn` the gate, whose success reloads the app. A token is whose it is.

### The development server and its remote session

`DevServer` computes the scopes of the page's token (`DevelopmentScopes`) and the route
of each request (`Route`, `Served`) for every well-formed dev.json, from one place in
the code each. What a remote session lends may change with every refresh (`CurrentToken`),
which `GET /_maypop/session` and passed-on requests start; a token remembers what was lent
when it was made. `RemoteSession` has `currentToken()`, the shared `refresh()`, the retry
after a 401, and the set of `AbortController`s with which the page and `close()` cut
proxied requests off. `Rules` translates the policy and `parseByteRange()` as operators
and states what they mean independently: an intended decision per preset and rule, and
the bytes of a range as a set. Numbers above `MaxSafe` stand for those that are no safe
integers.

### Multiplayer

`Mesh` goes through `connect()` await by await: announce, ask for peers, dial, subscribe.
`links` is the transport's own registry, `linked` what the SDK makes of its events.
`Room` has the document as a list of values and each replica as a prefix of it; a write
is throttled, set, gossiped, and read back some time after an event, while the echo
shows the tab's own last write until a read finds that value, compared by value as in the
code: `Values` may be set again and again. `BeginRead` and `RefreshEntries` are the two ends
of a read, between which the document goes on; `OnEvent` is the event pump. The transport and the engine are modelled from
`iroh/src/node.rs`, `room.rs` and `swarm.rs`.

### Agents, streams, stores, workers and links

`AgentSession`: the load, sends with and without images, also before the load is over
(`hasty` remembers it), the agent's run with its late end, and the save after each turn. `AiStream`: one request, its retry, and an answer cut
into pieces anywhere. `ReactStores`: generations of starts, listeners and late
promises. `CacheWorker`: pushes and answered pulls travel separately, a worker may be
stopped whenever it is idle. `Links`: four checks of one path.

## Runs

Deadlock is checked in the two passing `Session` runs; everywhere else the system
really stops: all mutations made and settled, all operations done, no process left to
start, every tab gone.

| Run | Shows | Bounds |
| --- | --- | --- |
| `SessionSafe` | `TypeOK`, `PortsConverge`, `ModeAnnounced`, `WaiterServed` | 2 calls, 2 channels, 2 fetches, 2 tokens of different modes, a reload, a hello |
| `SessionLive` | `CallsSettle`, `Reconnects` | 1 call, 2 channels, 1 fetch, 2 tokens, a reload; messages of different ports in any order |
| `KvSyncTwo` | `TypeOK`, `ConfirmedDurable`, `QuietIsFresh` | 2 clients, 1 mutation each, 2 keys of which one is refused, a sign-in, a crash that forgets it |
| `KvSyncLive` | `TakesOnce` (refinement of `KvLog`), `AllConfirmed`, `AllConverge` | 1 client, signed in, 2 mutations, a fault, a crash |
| `LocalLock` | `MutualExclusion`, `HolderNamed`, `StaleTakenOver` | 2 process ids, 4 processes, 4 acquisitions, one at a time |
| `Page`: shell | `NoticesDeploy` | 3 revisions, 3 deployments, a failing request, a reload |
| `Page`: mesh | `LinksAgree`, `Completes`, `GoneForgotten` | 2 tabs; both write, or one watches, in mesh and swarm; a fault |
| `Page`: room | `NoFlicker`, `Converges` | 2 tabs of 2 members, 2 writes of 2 values |
| `Page`: agent | `HistoryKept`, `Delivered` | a stored message, 3 sends, 2 of them with images |
| `Page`: host | `GateLifts`, `AnswerComes`, `OnePromptPerGesture` | a gesture, a delegated request, a reload and that of the sign-in, 2 of what the app or the developer tries: a refused write, a request, a question for a token, a reload; any session request may fail |
| `Sandbox`: drive | `ListedReadable`, `ConfirmedListed` | 2 writes that may overlap, an upload, 2 removals, 2 names, a fault, a restart |
| `Sandbox`: react | `NoLeak` | 2 starts of each store, 2 components at once, 2 mutations |
| `Sandbox`: remote | `RetryIsRenewed`, `WaiterHasRefresh` | a read, two proxied requests of both kinds, 2 tokens |
| `Sandbox`: cache | `ConfigCatchesUp` | 2 GETs, 2 calls of `imageUrl()`, 2 tokens |
| `Sandbox`: kv | `StreamAlive` | 2 subscriptions, 2 token changes, 2 failing streams |
| `Sandbox`: server | `GrantedIsServed` | every well-formed dev.json, all viewers, 4 sets of scopes that a remote session has and goes between |
| `Sandbox`: rules | `PolicyRight`, `RangeExact` | all presets, 5 rule sets, 5 keys, 3 sizes, 7 numbers, of which one is no safe integer |
| `Sandbox`: ai | `StreamExact` | every answer of up to 4 pieces, one of 16, cut anywhere |
| `Sandbox`: links | `LinkLands` | every path of up to 4 characters of 6 kinds, where 3 are allowed |

`Page` and `Sandbox` are one run each; `AllTypes` joins the types of their parts.

Why the bounds are enough: two channels are the one in use and the one replacing it, and
they are reused; two fetches are the SDK's request and the host's own; one reload
crosses every step of a handshake. Two mutations and two pushes on the wire are the
least in which a late copy overlaps a newer push; one crash falls between any two
steps of an update. Four processes over two ids are a holder, a reuse of its id, a
taker and one more. Three creations and two removals have any two of a kind at once.
Two starts let the first one's promise resolve under the second. Two tokens let three
requests share one refresh and ask for another. Three revisions are the one shown, the
one offered and one deployed behind it.

Five runs are expected to fail. Each checks what a comment or a type's documentation
says, and TLC shows the code doing otherwise:

| Run | Property | What happens |
| --- | --- | --- |
| `SessionStaleInit` | `RetryIsFresh` | an init posted before the refresh is answered frees the waiter with the refused token, and the call fails for good (`runtime.ts` 309-310) |
| `LocalLockRace` | `MutualExclusion` | a server reads the lock that another has created and not yet written its name into, takes it for stale (`local-data.ts` 124), and unlinks it once it is held |
| `DriveRace` | `WriteOnce` | two writes of one name pass the check before either is listed (`sandbox/runtime.ts` 1756) |
| `AgentHistory` | `HistoryKept` | a session loads before the replica has caught up, finds nothing, and its first save replaces the stored transcript (`agent/index.ts` 565) |
| `MeshEarly` | `LinksAgree` | a tab dialled between its announcement and its subscription never learns of the connection (`runtime.ts` 1778) |

### Assumptions of the passing runs

These constants, and conditions of properties, name assumptions the code does not enforce;
the rest of the code is shown to be right within them. `Serial` (`Drive`: writes of one name
wait for one another) is false in every run; `DriveRace` shows why it is needed for `WriteOnce`,
and the theorem `SerialWritesOnce` that it is enough.

| Constant or condition | Value in passing runs | Otherwise |
| --- | --- | --- |
| `Overlap` (`LocalLock`) | servers acquire one at a time | `LocalLockRace` |
| `PullFirst` (`AgentSession`) | the replica is up to date before the session loads | `AgentHistory` |
| `hasty` in `HistoryKept` | the app sends nothing before `ready()` | the load skips the stored transcript (`agent/index.ts` 565), and the first save drops it |
| `Early` (`Mesh`) | nobody dials a tab before it reads its events | `MeshEarly` |
| `Hidden` (`KvSync`) | no key is for members only | a sign-in moves no version, so the pull that follows is answered with an empty patch (`sandbox/runtime.ts` 1607) |
| `Writable` (`KvSync`) in `KvSyncLive` | every key may be written | a refused mutation is pushed again for ever, in front of later ones (`sandbox/runtime.ts` 1685) |
| `Ordered` (`Session`) in the safety runs | messages keep their order across ports | acks may overtake one another until the next keepalive |
| `~fallback` in `GateLifts` | the last session request did not fail | the page posts a guest's configuration, and the gate is back until the next init (`sandbox/runtime.ts` 734) |
| `committed = framed` in `NoticesDeploy` | the shell compares with what its frame shows | a boot that cannot read the revision, and a deployment before the first poll: nobody is told (`host.ts` 427) |
| `Withdrawn` in `GrantedIsServed` | a refresh of the remote session takes no scope away | the page offers what is refused until it renews its token (`development.ts` 625) |
| `pulled` in `ConfigCatchesUp` | the worker's token came by a push | the answer to its pull may be older than a push before it, and stays until the next (`app-cache-sw.ts` 93) |
| `Held` in `NoFlicker` | a tab sets what the document never held | an older equal value lifts the echo of a write that is still queued (`runtime.ts` 1353) |
| `RemoteGrants` (`DevServer`) | a remote session has a member's scopes, `group:read` among them | the server asks for it and does not look |

### Fairness

Only steps that the runtime takes by itself are fair: queued tasks and messages, armed
timers, requests that are answered or fail, retries. Users, failures, revocations,
deployments, reloads and crashes never are.

- `Session`: weak fairness of loading, adopting, port messages, the keepalive and the
  ten-second timeout. Strong fairness of the host's port messages and of the keepalive only
  makes up for the bounds `Fetches` and `Channels`: the code never refuses a fetch or lacks a
  channel. `Paced` (only in `SessionLive`)
  says that a handshake ends before the next keepalive, five seconds later; without it
  every channel could be replaced before its ack arrives.
- `KvSync`: Replicache retries, `EventSource` reconnects two seconds after an error, the
  promise queue goes on after a rejection; faults and crashes are bounded.
- `LocalLock`: the acquisition is synchronous code.
- `Shell`: `boot()` goes on, and the poll's interval fires and is answered.
- `Mesh`, `Room`: awaits and reads end, polls repeat, events are read, an announcement that is
  not renewed lapses, a dead connection is noticed, nodes that know of one another sync. An
  event that changes nothing in a room (`Chatter`) may come and is owed to nobody, so that an
  echo which only an event would lift may stay; `Converges` says which.
- `AgentSession`: an image is read or fails, a run starts, takes steering and ends.
- `HostPage`: what is under way ends. Its steps are fair together (`Progress`), which is
  enough since each one uses something up that is bounded.

The conditions of the parts of `Page` stand together in that module. Some actions of one tab
share a condition (`Polling`, `Working`, `Announcing`, `Timer`, `Reading`): they follow one another, or each uses up what enables
it. The condition says only that the tab does not stop for ever while one of the group is
open to it, and it keeps the liveness check small.

## Proofs

Every invariant and every action property that a passing run checks, and the
refinement of `KvLog`, is proved by TLAPS for all values of the constants; so are some
properties that hold by a longer argument and are not worth a run of their own. The
proofs rest on the named assumptions on the constants, which TLC evaluates on every run:

- `SessionAssumption`, `LockAssumption`, `DriveAssumption`, `ShellAssumption`,
  `KvAssumption`, `PageAssumption`: bounds are numbers, flags are flags, sets that are
  parts of others are contained in them, and `None` is none of the values it stands
  beside.
- `SandboxAssumption`: the same of its parts, and that a remote session has finitely many
  scopes with `group:read` among them (see the table above), that sizes of files are safe
  integers, that subjects are those there
  are, and that AI answers are made of the tokens the line buffer tells apart.
- `PolicyAssumption`: keys and patterns are sequences of segments, a policy's mode is a
  preset, `advanced` or missing (as `validateKvPolicy()` requires), and `None` is neither
  a mode nor a set of rules.

The last column names what is assumed of constants that stand for an environment: the
theorem is then about the systems the passing runs are about.

| Theorem | Module | Says | Assumes |
| --- | --- | --- | --- |
| `TypeCorrect` | `SessionProofs` | `[]TypeOK` | |
| `Convergence` | `SessionProofs` | `[]PortsConverge` | `Ordered` |
| `ModeChangesAnnounced` | `SessionProofs` | `[]ModeAnnounced` | |
| `WaitersAreServed` | `SessionProofs` | `[]WaiterServed` | `Ordered` |
| `KvTypes` | `KvSyncProofs` | `[]TypeOK` | |
| `ConfirmedIsDurable` | `KvSyncProofs` | `[]ConfirmedDurable` | |
| `ImplementsLog` | `KvSyncProofs` | `TakesOnce`: `KvSync` implements `KvLog` | |
| `QuietClientsAreFresh` | `KvSyncProofs` | `[]QuietIsFresh` | `Hidden = {}` or `MemberAtStart` |
| `LockTypes` | `LocalLockProofs` | `[]TypeOK` | |
| `LockExcludes` | `LocalLockProofs` | `[]MutualExclusion` | `~Overlap` |
| `LockNamesHolder` | `LocalLockProofs` | `[]HolderNamed` | `~Overlap` |
| `DriveTypes` | `DriveProofs` | `[]TypeOK` | |
| `ListedIsReadable` | `DriveProofs` | `[]ListedReadable` | |
| `ConfirmedIsListed` | `DriveProofs` | `[]ConfirmedListed` | |
| `SerialWritesOnce` | `DriveProofs` | `[]WriteOnce` | `Serial` |
| `ConnectedIsLinked` | `MeshProofs` | `[]LinksAgree` | `NoneEarly` |
| `ShellTypes` | `PageProofs` | `[]TypeOK` of the shell | |
| `ReloadRestores` | `PageProofs` | `[]Restorable` | |
| `ComparesWithShown` | `PageProofs` | `[]CommittedShown` | |
| `ConversationsAreKept` | `PageProofs` | `HistoryKept`, an action property | `PullFirst` |
| `WritesDoNotFlicker` | `PageProofs` | `NoFlicker`, an action property | |
| `PromptsAreRationed` | `PageProofs` | `[]OnePromptPerGesture` | |
| `DoneIsShown` | `PageProofs` | `[]DoneWasShown` | |
| `PageTypes` | `PageProofs` | `[]AllTypes` of `Page` | |
| `StoresDoNotLeak` | `SdkProofs` | `[]NoLeak` | |
| `StoppedStoresAreSilent` | `SdkProofs` | `StoppedIsSilent`, an action property | |
| `ClientTypes`, `ClientHears` | `SdkProofs` | `[]TypeOK`, `[]StreamAlive` of `KvClient` | |
| `LinksLand` | `SdkProofs` | `[]LinkLands` | |
| `StreamsAreExact` | `SdkProofs` | `[]StreamExact` | |
| `RemoteTypes` | `ServerProofs` | `[]TypeOK` of `RemoteSession` | |
| `SecondAttemptRenewed` | `ServerProofs` | `[]RetryIsRenewed` | |
| `NobodyForgotten` | `ServerProofs` | `[]WaiterHasRefresh` | |
| `CloseFindsAll` | `ServerProofs` | `[]ControllersExact` | |
| `CutOffStays` | `ServerProofs` | `[]CutOff` | |
| `WhatIsGrantedIsServed` | `ServerProofs` | `[]GrantedIsServed` | |
| `RangesAreExact` | `ServerProofs` | `[]RangeExact` | |
| `WorkerCatchesUp` | `ServerProofs` | `[]ConfigCatchesUp` | |
| `PolicyIsRight` | `ServerProofs` | `[]PolicyRight` | |
| `SandboxTypes` | `ServerProofs` | `[]AllTypes` of `Sandbox` | |

A theorem about a part of a composition begins with a lemma that the composition
implements the part (`RemotePart`, `CachePart` and the like: the other subjects' steps
leave its variables alone), and goes on with an inductive invariant of the part: a lemma
for the initial states, one for the steps with a case for each action, and PTL at the
end. What the invariants add to the properties:

- `Convergence`: what the messages on the wire are worth. Acks are under way in the
  order of the inits they answer, the last of them is for the channel the guest holds,
  and no channel that an init or an ack still names has been closed. `Ordered` is
  needed because acks travel on different ports: if they overtake one another the host
  may close the channel the guest holds, until the next keepalive repairs it
  (`SessionLive` runs without that assumption).
- `WaitersAreServed`: what a waiting call hopes for (its request on the wire, the fetch
  it started, or the answer) is on the channel the guest holds, which by `Convergence`
  the host does not close; an init or a token frees it, and each step of the fetch hands
  the hope on.
- `KvSync`: the file is the value in memory or, once renamed, that value after one more
  batch (`JobInv`). Every push under way or queued, a late copy too, starts at most one
  past what was taken, so no batch leaves a gap (`RequestsInv`). A client that has heard
  of a version has confirmed what that version had taken, and would after the answer on
  its way (`KnownInv`, `AnswerInv`). `ImplementsLog` reads the log off the file, so that
  the rename is the step that takes, and a crash is a stutter; that a batch is exactly the
  abstract step uses that a fold over a push sets each key to its last mutation.
  `QuietClientsAreFresh` adds that a client shows the version it has heard of, and that
  without a pull wanted or a poke unread this is the current one. It fails for a viewer
  who signs in and has keys hidden until then: the sign-in moves no version.
- `LockExcludes`: the file at the path is the holder's and its record written, whoever
  judges the file has read that very record, and nobody who would unlink it exists
  while it is held.
- `Drive`: the index in memory is the file's, or the file is one update ahead; only
  settled creations are in memory's index, so a removal, which finds what it removes
  there, never takes the bytes of a creation that is still to be entered; a removal
  that has come to its `rm()` has nothing left in the index. For `WriteOnce`: with
  writes of one name in sequence, one that has passed the check of its name is alone
  with it until it is entered, and the update by which the file is ahead is one of them.
- `ConnectedIsLinked`: the last event about a peer that a tab has not read says whether
  its transport holds a connection to that peer, and with none unread the tab knows
  already. This begins to hold with the subscription, when there are no connections
  yet, which is what `NoneEarly` says.
- `ReloadRestores`, `ComparesWithShown`: where `boot()` is decides what is in the address
  and the cookie; a notice has a revision to go to, a frame sent by name has one.
- `ConversationsAreKept`: as long as nothing is sent before the record is loaded the transcript
  is empty until then, and begins with what is stored from then on. The load is the whole
  record only if the replica is up to date before it.
- `WritesDoNotFlicker`: a value that waits for its throttle is the tab's echo, and too young
  to be given up; if the document never held it, no read finds it, and none lifts the echo.
- `PromptsAreRationed`: an armed prompt is a gesture not spent yet. `DoneIsShown`: a
  positive reply on any port belongs to a card already shown. That channels stay within
  their numbering takes counting the inits, load events and hellos still to come; that a
  token goes to a channel, that whoever asks for one has connected.
- `StoresDoNotLeak`: parity. A start makes a store's generation odd, its stop even, and
  only odd ones wait or listen, so nothing that arrives late is of a stopped store's
  generation.
- `ClientHears`: without an engine, and with polling, there is neither stream nor timer,
  and never are both there.
- `StreamsAreExact`: the buffer is the line that is not over yet, and the text is one
  delta for each line that is over and carries one, so that neither depends on where the
  answer was cut. That folding over an answer means taking its tokens in turn is shown
  first.
- `LinksLand`: whichever call makes a link, its path passes the check of the page that
  is opened with it.
- `RemoteSession`: where a request has come from: an idle one has neither been refused
  nor hung up on, one between two attempts has been refused, and a first attempt that
  was cut off while its token was to come has lost its controller.
- `WhatIsGrantedIsServed`: scopes grow with a sign-in, and otherwise are what the
  configuration makes of those lent when the token was made; what is granted of those lent
  now is served, operation by operation and mode by mode, and what is granted because it was
  lent is passed on, so that only a scope lost since can be refused.
- `WorkerCatchesUp`: the last push under way carries the newest token, and with none
  under way the worker has it, or none, or a token it pulled.
- `PolicyIsRight`: what `keyMatches()` finds from a segment on is a condition on all the
  segments from there (`KeyMatching`), so a pattern means what `Means` says; then the
  rules of each preset, one by one. `RangesAreExact`: the cases of `parseByteRange()`, one of
  which is a number that is no safe integer.

What holds of a recursive function or a fold for arguments of any length is proved
without a theorem of induction: the natural numbers are well-founded (`NatLessThanWellFounded`,
`WFMin`), so a set of counterexamples has a least one (`LeastNumber`), which is refuted.

Only model-checked, because they depend on fairness, which this prover does not reason
about: `CallsSettle`, `Reconnects`, `AllConfirmed`, `AllConverge`, `StaleTakenOver`,
`NoticesDeploy`, `Completes`, `GoneForgotten`, `Converges`, `Delivered`, `GateLifts` and
`AnswerComes`. The
properties of the five runs that are expected to fail are false, and are proved, but
for `RetryIsFresh`, under the assumptions that exclude what happens there.

## Not modelled

- Time. Every timer may fire at any moment, so nothing is said about when a token is
  renewed or how long a request takes. A late timer costs a 401 and its retry.
- In `Session`, the theme, and message fields but channel and token. Uploads in `Drive`
  reuse no content id, so the branch of confirm for one already in the index is never
  taken; sizes and types are left out, reading changes nothing.
- In `LocalLock`, the one-time move of data of earlier versions. It runs before the
  server listens.
- In `HostPage`, themes, the buttons of the share card and the cleaning of the frame's address.
- In `Room`, a member's own state (`setMyState()`), which has no echo.
- In `DevServer`, the members and apps it makes up. Which saved profile a login comes
  from is modelled (`SelectProfile`, `savedFor`).
- In `Links`, characters but for the kinds that one of the checks looks at; in
  `AiStream`, bytes but for the tokens of a line and JSON but for whether it parses.
- In `Mesh` and `Room`, messages on a link, the relay, the merging of documents: code of
  the transport and of iroh. In `AgentSession`, replies, tools and the trimming of the
  context. In `CacheWorker`, more than one page and one image.
- Single requests through `api()` (integrations, members, AI without a stream), whose
  control is `Session`'s.
- Bundler bindings, page decoration, the static page of captured notifications, build
  scripts, types, and the generated bindings of the transport: no protocol state.

Hazards that no property covers are listed with the reason: what the code does is in
the model, but nothing in the repository says what it ought to do (a revoked session
that later messages revive, an engine whose failed import is remembered), or it is
known to go wrong and an assumption or a condition excludes it (the lock is released with an
update under way, `sandbox/runtime.ts` 1859; a key hidden from guests; a mutation refused for
good; an older token that the worker pulls).
