-------------------------------- MODULE KvSync --------------------------------
(***************************************************************************)
(* The key-value store end to end: the clients (Replicache, configured in   *)
(* src/src/kv/index.ts and poked by src/src/runtime.ts) and the sandbox     *)
(* server (src/src/sandbox/runtime.ts) with its JSON file.                  *)
(*                                                                          *)
(* A client applies its mutations at once to its own copy and pushes the    *)
(* ones not yet confirmed, as often as it takes; the server takes each push *)
(* through JsonStore.update(), one at a time: clone, mutate, write a        *)
(* temporary file, rename it, and only then replace the value in memory,    *)
(* answer, and poke.  A poke, or a stream that opens or fails, makes a      *)
(* client pull a snapshot.  Requests and answers get lost or late, streams  *)
(* drop, the server crashes and restarts from its file.                     *)
(***************************************************************************)
EXTENDS Integers, Sequences, FiniteSetsExt

CONSTANTS
  Clients, Keys, Writable, NoEntry,   \* as in KvLog
  Hidden,         \* keys the sync policy shows to members only
  MemberAtStart,  \* does a fresh server take the viewer for a member?
  MaxMutations,   \* bound: mutations per client
  MaxRequests,    \* bound: push requests on the wire and queued
  MaxCrashes,     \* bound: crashes of the server
  MaxFaults       \* bound: lost requests, lost answers and dropped streams

ASSUME KvAssumption ==
  /\ Writable \subseteq Keys
  /\ Hidden \subseteq Keys
  /\ MemberAtStart \in BOOLEAN
  /\ MaxMutations \in Nat
  /\ MaxRequests \in Nat
  /\ MaxCrashes \in Nat
  /\ MaxFaults \in Nat

VARIABLES
  \* the clients
  made,       \* made[c]: the mutations c has made, in order; mutation ids count from 1
  base,       \* base[c]: the snapshot c holds, without its unconfirmed mutations
  cookie,     \* cookie[c]: the store version of base[c]; -1 before the first pull
  confirmed,  \* confirmed[c]: mutation ids up to this one are in base[c]
  pushing,    \* pushing[c]: c waits for the answer to a push
  wantPull,   \* wantPull[c]: c has been told to pull
  pull,       \* pull[c]: its pull request, or the answer on its way back
  \* the poke streams
  open,       \* open[c]: the stream of c is open
  poked,      \* poked[c]: a poke is on its way
  \* the server
  wire,       \* push requests that have not reached the server
  queue,      \* push requests in the queue of JsonStore.update(), in order
  job,        \* how far the update at the head of the queue is
  next,       \* what it is writing
  current,    \* the value in memory
  disk,       \* the value in the file
  member,     \* the viewer is signed in
  crashes, faults

clientVars == <<made, base, cookie, confirmed, pushing, wantPull, pull>>
streamVars == <<open, poked>>
storeVars  == <<queue, job, next, current, disk>>
boundVars  == <<crashes, faults>>
vars == <<clientVars, streamVars, wire, storeVars, member, boundVars>>

Ids     == 0..MaxMutations
Request == [by : Clients, lo : Ids, hi : Ids]
Entry   == [by : Clients, id : Ids]
Content == [Keys -> Entry \cup {NoEntry}]
KvData  == [entries : Content,
            version : Nat,
            clients : [Clients -> Ids],            \* last mutation id taken
            clientVersions : [Clients -> Nat]]     \* version at which it was taken
NoAnswer == [cookie |-> -1, lastId |-> 0, patch |-> FALSE, entries |-> [k \in Keys |-> NoEntry]]
Answer   == [cookie : Nat \cup {-1}, lastId : Ids, patch : BOOLEAN, entries : Content]

TypeOK ==
  /\ made \in [Clients -> Seq([key : Keys, op : {"set", "del"}])]
  /\ \A c \in Clients : Len(made[c]) <= MaxMutations
  /\ base \in [Clients -> Content]
  /\ cookie \in [Clients -> Nat \cup {-1}]
  /\ confirmed \in [Clients -> Ids]
  /\ pushing \in [Clients -> BOOLEAN]
  /\ wantPull \in [Clients -> BOOLEAN]
  /\ pull \in [Clients -> [st : {"none", "asked", "answered"}, ans : Answer]]
  /\ open \in [Clients -> BOOLEAN]
  /\ poked \in [Clients -> BOOLEAN]
  /\ wire \subseteq Request
  /\ queue \in Seq(Request)
  /\ job \in {"idle", "writing", "renamed"}
  /\ next \in KvData
  /\ current \in KvData
  /\ disk \in KvData
  /\ member \in BOOLEAN
  /\ crashes \in 0..MaxCrashes
  /\ faults \in 0..MaxFaults

Empty   == [k \in Keys |-> NoEntry]
EmptyKv == [entries |-> Empty, version |-> 0,
            clients |-> [c \in Clients |-> 0], clientVersions |-> [c \in Clients |-> 0]]
NoPull  == [st |-> "none", ans |-> NoAnswer]

Init ==
  /\ made = [c \in Clients |-> <<>>]
  /\ base = [c \in Clients |-> Empty]
  /\ cookie = [c \in Clients |-> -1]
  /\ confirmed = [c \in Clients |-> 0]
  /\ pushing = [c \in Clients |-> FALSE]
  /\ wantPull = [c \in Clients |-> TRUE]       \* start() pulls
  /\ pull = [c \in Clients |-> NoPull]
  /\ open = [c \in Clients |-> FALSE]
  /\ poked = [c \in Clients |-> FALSE]
  /\ wire = {}
  /\ queue = <<>>
  /\ job = "idle"
  /\ next = EmptyKv
  /\ current = EmptyKv
  /\ disk = EmptyKv
  /\ member = MemberAtStart
  /\ crashes = 0
  /\ faults = 0

(***************************************************************************)
(* The clients                                                             *)
(***************************************************************************)

\* kv.set and kv.delete: refused without kv:write, else a local mutation.  The token may
\* still have the scope when the server has restarted and forgotten who signed in.
Mutate(c) ==
  /\ member \/ crashes > 0
  /\ Len(made[c]) < MaxMutations
  /\ \E k \in Keys, op \in {"set", "del"} :
       made' = [made EXCEPT ![c] = Append(@, [key |-> k, op |-> op])]
  /\ UNCHANGED <<base, cookie, confirmed, pushing, wantPull, pull>>
  /\ UNCHANGED <<streamVars, wire, storeVars, member, boundVars>>

\* pusher: all the mutations not yet confirmed, one push at a time.
SendPush(c) ==
  /\ ~pushing[c]
  /\ confirmed[c] < Len(made[c])
  /\ Cardinality(wire) + Len(queue) < MaxRequests
  /\ pushing' = [pushing EXCEPT ![c] = TRUE]
  /\ wire' = wire \cup {[by |-> c, lo |-> confirmed[c] + 1, hi |-> Len(made[c])]}
  /\ UNCHANGED <<made, base, cookie, confirmed, wantPull, pull>>
  /\ UNCHANGED <<streamVars, storeVars, member, boundVars>>

\* Mutant: a push that failed is not taken back.
LosePushForGood(c) ==
  /\ pushing[c]
  /\ faults < MaxFaults
  /\ faults' = faults + 1
  /\ wire' \in {wire, {r \in wire : r.by # c}}
  /\ UNCHANGED <<clientVars, streamVars, storeVars, member, crashes>>

\* The push fails for the client; the request itself may be lost or only late.
LosePush(c) ==
  /\ pushing[c]
  /\ faults < MaxFaults
  /\ faults' = faults + 1
  /\ pushing' = [pushing EXCEPT ![c] = FALSE]
  /\ wire' \in {wire, {r \in wire : r.by # c}}
  /\ UNCHANGED <<made, base, cookie, confirmed, wantPull, pull>>
  /\ UNCHANGED <<streamVars, storeVars, member, crashes>>

\* puller: one pull at a time, with the cookie of the snapshot at hand.
SendPull(c) ==
  /\ wantPull[c]
  /\ pull[c].st = "none"
  /\ wantPull' = [wantPull EXCEPT ![c] = FALSE]
  /\ pull' = [pull EXCEPT ![c].st = "asked"]
  /\ UNCHANGED <<made, base, cookie, confirmed, pushing>>
  /\ UNCHANGED <<streamVars, wire, storeVars, member, boundVars>>

\* Mutant: a pull that fails is not tried again.
LosePullForGood(c) ==
  /\ pull[c].st # "none"
  /\ faults < MaxFaults
  /\ faults' = faults + 1
  /\ pull' = [pull EXCEPT ![c] = NoPull]
  /\ UNCHANGED <<made, base, cookie, confirmed, pushing, wantPull>>
  /\ UNCHANGED <<streamVars, wire, storeVars, member, crashes>>

\* A pull that fails is tried again.
LosePull(c) ==
  /\ pull[c].st # "none"
  /\ faults < MaxFaults
  /\ faults' = faults + 1
  /\ pull' = [pull EXCEPT ![c] = NoPull]
  /\ wantPull' = [wantPull EXCEPT ![c] = TRUE]
  /\ UNCHANGED <<made, base, cookie, confirmed, pushing>>
  /\ UNCHANGED <<streamVars, wire, storeVars, member, crashes>>

\* Replicache takes an answer that is not older than its snapshot: the patch, the
\* cookie, and the last mutation id if the answer names one.
TakePull(c) ==
  /\ pull[c].st = "answered"
  /\ LET got == pull[c].ans IN
     IF got.cookie < cookie[c]
     THEN UNCHANGED <<base, cookie, confirmed>>
     ELSE /\ cookie' = [cookie EXCEPT ![c] = got.cookie]
          /\ base' = IF got.patch THEN [base EXCEPT ![c] = got.entries] ELSE base
          /\ confirmed' = IF got.lastId > 0 THEN [confirmed EXCEPT ![c] = got.lastId] ELSE confirmed
  /\ pull' = [pull EXCEPT ![c] = NoPull]
  /\ UNCHANGED <<made, pushing, wantPull>>
  /\ UNCHANGED <<streamVars, wire, storeVars, member, boundVars>>

(***************************************************************************)
(* The poke streams: connectPoke() in runtime.ts                           *)
(***************************************************************************)

\* Mutant: onopen does not pull.
OpenStreamOnly(c) ==
  /\ ~open[c]
  /\ open' = [open EXCEPT ![c] = TRUE]
  /\ UNCHANGED <<clientVars, poked, wire, storeVars, member, boundVars>>

\* onopen pulls, because pokes sent while the stream was down are lost.
OpenStream(c) ==
  /\ ~open[c]
  /\ open' = [open EXCEPT ![c] = TRUE]
  /\ wantPull' = [wantPull EXCEPT ![c] = TRUE]
  /\ UNCHANGED <<made, base, cookie, confirmed, pushing, pull, poked>>
  /\ UNCHANGED <<wire, storeVars, member, boundVars>>

\* onmessage pulls.
OnPoke(c) ==
  /\ poked[c]
  /\ poked' = [poked EXCEPT ![c] = FALSE]
  /\ wantPull' = [wantPull EXCEPT ![c] = TRUE]
  /\ UNCHANGED <<made, base, cookie, confirmed, pushing, pull, open>>
  /\ UNCHANGED <<wire, storeVars, member, boundVars>>

\* onerror pulls and reconnects two seconds later; a poke under way is lost.
DropStream(c) ==
  /\ open[c]
  /\ faults < MaxFaults
  /\ faults' = faults + 1
  /\ open' = [open EXCEPT ![c] = FALSE]
  /\ poked' = [poked EXCEPT ![c] = FALSE]
  /\ wantPull' = [wantPull EXCEPT ![c] = TRUE]
  /\ UNCHANGED <<made, base, cookie, confirmed, pushing, pull>>
  /\ UNCHANGED <<wire, storeVars, member, crashes>>

(***************************************************************************)
(* The server                                                              *)
(***************************************************************************)

Log == INSTANCE KvLog WITH entries <- disk.entries, taken <- disk.clients

\* What the sync policy lets the viewer see of contents e.
Visible(e) == [k \in Keys |-> IF k \in Hidden /\ ~member THEN NoEntry ELSE e[k]]

\* POST /kv/pull: nothing but the version if the cookie is the current one, else
\* the whole visible contents; the client's last id if it moved since the cookie.
AnswerPull(c) ==
  /\ pull[c].st = "asked"
  /\ pull' = [pull EXCEPT ![c] =
       [st  |-> "answered",
        ans |-> [cookie  |-> current.version,
                 lastId  |-> IF current.clientVersions[c] > cookie[c] THEN current.clients[c] ELSE 0,
                 patch   |-> cookie[c] # current.version,
                 entries |-> IF cookie[c] # current.version THEN Visible(current.entries) ELSE Empty]]]
  /\ UNCHANGED <<made, base, cookie, confirmed, pushing, wantPull>>
  /\ UNCHANGED <<streamVars, wire, storeVars, member, boundVars>>

\* A push request reaches the server and queues in JsonStore.update().
ReceivePush ==
  /\ member
  /\ \E r \in wire : wire' = wire \ {r} /\ queue' = Append(queue, r)
  /\ UNCHANGED <<clientVars, streamVars, job, next, current, disk, member, boundVars>>

\* A push of a viewer without kv:write is refused (403): the sandbox forgets who
\* signed in when it restarts.
DenyPush ==
  /\ ~member
  /\ \E r \in wire : wire' = wire \ {r} /\ pushing' = [pushing EXCEPT ![r.by] = FALSE]
  /\ UNCHANGED <<made, base, cookie, confirmed, wantPull, pull>>
  /\ UNCHANGED <<streamVars, storeVars, member, boundVars>>

\* Mutant: ids already taken are taken again.
NewAgain(r, d) == r.lo..r.hi

\* The push mutator on value d: ids already taken are skipped, a gap refuses the
\* whole request (409), and so does one mutation the policy denies (403).
New(r, d) == (d.clients[r.by] + 1)..r.hi

Refused(r, d) ==
  \/ r.lo > d.clients[r.by] + 1
  \/ \E i \in New(r, d) : made[r.by][i].key \notin Writable

\* Mutant: the last mutation id counts one too many.
PushedPast(r, d) ==
  LET c == r.by
      v == d.version + Cardinality(New(r, d))
  IN [entries        |-> Log!Applied(d.entries, made, c, d.clients[c], r.hi),
      version        |-> v,
      clients        |-> [d.clients EXCEPT ![c] = r.hi + 1],
      clientVersions |-> [d.clientVersions EXCEPT ![c] = v]]

Pushed(r, d) ==
  IF New(r, d) = {} THEN d
  ELSE LET c == r.by
           v == d.version + Cardinality(New(r, d))
       IN [entries        |-> Log!Applied(d.entries, made, c, d.clients[c], r.hi),
           version        |-> v,
           clients        |-> [d.clients EXCEPT ![c] = r.hi],
           clientVersions |-> [d.clientVersions EXCEPT ![c] = v]]

\* Mutant: the value in memory changes before the file does.
BeginUpdateInPlace ==
  /\ job = "idle"
  /\ queue # <<>>
  /\ ~Refused(Head(queue), current)
  /\ job' = "writing"
  /\ next' = Pushed(Head(queue), current)
  /\ current' = next'
  /\ UNCHANGED <<clientVars, streamVars, wire, queue, disk, member, boundVars>>

\* The update at the head of the queue runs its mutator on a clone.
BeginUpdate ==
  /\ job = "idle"
  /\ queue # <<>>
  /\ ~Refused(Head(queue), current)
  /\ job' = "writing"
  /\ next' = Pushed(Head(queue), current)
  /\ UNCHANGED <<clientVars, streamVars, wire, queue, current, disk, member, boundVars>>

\* A mutator that throws, or a file that cannot be written, changes nothing; the
\* queue goes on and the client gets an error.
FailUpdate ==
  /\ \/ job = "idle" /\ queue # <<>> /\ Refused(Head(queue), current) /\ UNCHANGED faults
     \/ job = "writing" /\ faults < MaxFaults /\ faults' = faults + 1
  /\ job' = "idle"
  /\ next' = current
  /\ pushing' = [pushing EXCEPT ![Head(queue).by] = FALSE]
  /\ queue' = Tail(queue)
  /\ UNCHANGED <<made, base, cookie, confirmed, wantPull, pull>>
  /\ UNCHANGED <<streamVars, wire, current, disk, member, crashes>>

\* writeJsonAtomic(): the temporary file replaces the old one in one step.
RenameFile ==
  /\ job = "writing"
  /\ job' = "renamed"
  /\ disk' = next
  /\ UNCHANGED <<clientVars, streamVars, wire, queue, next, current, member, boundVars>>

\* The value in memory follows, then the poke to every open stream and the answer.
FinishUpdate ==
  /\ job = "renamed"
  /\ job' = "idle"
  /\ current' = next
  /\ poked' = [c \in Clients |-> poked[c] \/ open[c]]
  /\ pushing' = [pushing EXCEPT ![Head(queue).by] = FALSE]
  /\ queue' = Tail(queue)
  /\ UNCHANGED <<made, base, cookie, confirmed, wantPull, pull, open>>
  /\ UNCHANGED <<wire, next, disk, member, boundVars>>

\* POST /_maypop/sign-in
SignIn ==
  /\ ~member
  /\ member' = TRUE
  /\ UNCHANGED <<clientVars, streamVars, wire, storeVars, boundVars>>

\* The server stops at any point and starts again from its file: everything in
\* memory is gone, every request fails and every stream drops.
CrashRestart ==
  /\ crashes < MaxCrashes
  /\ crashes' = crashes + 1
  /\ current' = disk
  /\ next' = disk
  /\ job' = "idle"
  /\ queue' = <<>>
  /\ wire' = {}
  /\ member' = MemberAtStart
  /\ open' = [c \in Clients |-> FALSE]
  /\ poked' = [c \in Clients |-> FALSE]
  /\ pushing' = [c \in Clients |-> FALSE]
  /\ wantPull' = [c \in Clients |-> wantPull[c] \/ open[c] \/ pull[c].st = "asked"]
  /\ pull' = [c \in Clients |-> IF pull[c].st = "asked" THEN NoPull ELSE pull[c]]
  /\ UNCHANGED <<made, base, cookie, confirmed, disk, faults>>

(***************************************************************************)
(* Specification                                                           *)
(***************************************************************************)
Next ==
  \/ \E c \in Clients :
       \/ Mutate(c) \/ SendPush(c) \/ LosePush(c) \/ SendPull(c) \/ LosePull(c) \/ TakePull(c)
       \/ OpenStream(c) \/ OnPoke(c) \/ DropStream(c)
       \/ AnswerPull(c)
  \/ ReceivePush \/ DenyPush \/ BeginUpdate \/ FailUpdate \/ RenameFile \/ FinishUpdate
  \/ SignIn \/ CrashRestart

\* Everything but mutations, faults, sign-ins and crashes goes on by itself.
Fairness ==
  /\ \A c \in Clients :
       /\ WF_vars(SendPush(c)) /\ WF_vars(SendPull(c)) /\ WF_vars(TakePull(c))
       /\ WF_vars(OpenStream(c)) /\ WF_vars(OnPoke(c)) /\ WF_vars(AnswerPull(c))
  /\ WF_vars(ReceivePush) /\ WF_vars(DenyPush)
  /\ WF_vars(BeginUpdate \/ FailUpdate) /\ WF_vars(RenameFile) /\ WF_vars(FinishUpdate)

Spec     == Init /\ [][Next]_vars
FairSpec == Spec /\ Fairness

(***************************************************************************)
(* Properties                                                              *)
(***************************************************************************)

\* No confirmed mutation is ever lost: what a client takes for done is in the file,
\* whatever crashed in between, so that its next push never leaves a gap (409).
ConfirmedDurable ==
  /\ \A c \in Clients : confirmed[c] <= disk.clients[c]
  /\ \A i \in DOMAIN queue : queue[i].lo <= disk.clients[queue[i].by] + 1

\* A client with an open stream and nothing left to hear, to ask or to take holds
\* the store's contents: no write "can leave this client stale until some unrelated
\* future write" (runtime.ts 501-504).
QuietIsFresh ==
  \A c \in Clients :
    open[c] /\ ~poked[c] /\ ~wantPull[c] /\ pull[c].st = "none" /\ job = "idle" =>
      /\ base[c] = Visible(current.entries)
      /\ confirmed[c] = current.clients[c]

\* The server with its queue, its file and its crashes, and clients that push the
\* same mutations over and over, together take every mutation once and in order.
TakesOnce == Log!LogSpec

\* Every write the policy allows reaches the server in the end: "a write applies
\* locally at once and is reconciled with the server" (v1.ts 146-147).
AllConfirmed ==
  \A c \in Clients : \A i \in 1..MaxMutations :
    i <= Len(made[c]) /\ made[c][i].key \in Writable ~> confirmed[c] >= i

\* Every client gets to see the final contents.
AllConverge == <>[](\A c \in Clients : base[c] = Visible(disk.entries) /\ cookie[c] = disk.version)
==============================================================================
