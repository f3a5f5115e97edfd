---------------------------- MODULE ReactStores ----------------------------
(***************************************************************************)
(* The two stores behind the React hooks (react.ts 69-254): SessionStore   *)
(* shows the client's session, KvStore one key.  React subscribes and      *)
(* unsubscribes as components mount and unmount; the first listener starts *)
(* a store, the last one stops it, and a start's promises may resolve      *)
(* after its stop, or after the next start.  A start is known by its       *)
(* generation.  A store keeps its snapshot while it is stopped.            *)
(*                                                                         *)
(* The client is what the stores see of it: ready(), kv.subscribe(),       *)
(* mutations that succeed or fail, and its mode, theme and revoked events. *)
(***************************************************************************)
EXTENDS Naturals, FiniteSets

CONSTANTS Mutations,   \* calls of setValue() and deleteValue()
          MaxStarts,   \* bound: starts of each store
          MaxMounts    \* bound: components mounted at once

Stores == {"session", "kv"}

VARIABLES ready,      \* the client's ready(): pending, resolved, rejected
          mounted,    \* store: listeners
          started,    \* store: generations started so far
          current,    \* store: generation; an odd one is running, stop has gone past it
          waiting,    \* store: generations whose ready() callback has not run
          attached,   \* store: generations that listen to the client
          status,     \* store: status of the snapshot
          failed,     \* store: does the snapshot carry an error?
          busy,       \* isMutating of the key's snapshot
          mutation    \* stage of each mutation

storeVars == <<ready, mounted, started, current, waiting, attached, status, failed,
               busy, mutation>>

Init ==
    /\ ready = "pending"
    /\ mounted = [s \in Stores |-> 0] /\ started = [s \in Stores |-> 0]
    /\ current = [s \in Stores |-> 0]
    /\ waiting = [s \in Stores |-> {}] /\ attached = [s \in Stores |-> {}]
    /\ status = [s \in Stores |-> "loading"] /\ failed = [s \in Stores |-> FALSE]
    /\ busy = FALSE /\ mutation = [m \in Mutations |-> "idle"]

IsCurrent(s, g) == g = current[s]
Mutating(stages) == \E m \in Mutations : stages[m] = "going"

Publish(s, st, err) ==
    /\ status' = [status EXCEPT ![s] = st] /\ failed' = [failed EXCEPT ![s] = err]

-----------------------------------------------------------------------------
(* Mounting: start and stop                                                *)

\* subscribe(): the session's events are attached at once, a key's after ready().
Mount(s) ==
    /\ mounted[s] < MaxMounts
    /\ mounted' = [mounted EXCEPT ![s] = @ + 1]
    /\ IF mounted[s] > 0
       THEN UNCHANGED <<started, current, waiting, attached>>
       ELSE /\ started[s] < MaxStarts
            /\ started' = [started EXCEPT ![s] = @ + 1]
            /\ current' = [current EXCEPT ![s] = @ + 1]
            /\ waiting' = [waiting EXCEPT ![s] = @ \cup {current'[s]}]
            /\ attached' = [attached EXCEPT ![s] = IF s = "session" THEN @ \cup {current'[s]}
                                                   ELSE @]
    /\ UNCHANGED <<ready, status, failed, busy, mutation>>

Unmount(s) ==
    /\ mounted[s] > 0
    /\ mounted' = [mounted EXCEPT ![s] = @ - 1]
    /\ IF mounted[s] > 1
       THEN UNCHANGED <<current, attached>>
       ELSE /\ current' = [current EXCEPT ![s] = @ + 1]
            /\ attached' = [attached EXCEPT ![s] = @ \ {current[s]}]
    /\ UNCHANGED <<ready, started, waiting, status, failed, busy, mutation>>

-----------------------------------------------------------------------------
(* The session store                                                       *)

\* sync(): the callback of ready() and of mode and theme changes.
SyncSession(g) ==
    IF IsCurrent("session", g) THEN Publish("session", "ready", FALSE)
    ELSE UNCHANGED <<status, failed>>

FailSession(g) ==
    IF IsCurrent("session", g) THEN Publish("session", "error", TRUE)
    ELSE UNCHANGED <<status, failed>>

SessionReady(g) ==
    /\ g \in waiting["session"] /\ ready # "pending"
    /\ waiting' = [waiting EXCEPT !["session"] = @ \ {g}]
    /\ IF ready = "resolved" THEN SyncSession(g) ELSE FailSession(g)
    /\ UNCHANGED <<ready, mounted, started, current, attached, busy, mutation>>

\* A mode or theme change; before ready() the client has no app to show.
OnChange(g) ==
    /\ g \in attached["session"] /\ ready = "resolved"
    /\ SyncSession(g)
    /\ UNCHANGED <<ready, mounted, started, current, waiting, attached, busy, mutation>>

OnRevoked(g) ==
    /\ g \in attached["session"]
    /\ FailSession(g)
    /\ UNCHANGED <<ready, mounted, started, current, waiting, attached, busy, mutation>>

-----------------------------------------------------------------------------
(* A key's store                                                           *)

\* Mutant: a start that is over subscribes all the same.
KvReadyLate(g) ==
    /\ g \in waiting["kv"] /\ ready # "pending"
    /\ waiting' = [waiting EXCEPT !["kv"] = @ \ {g}]
    /\ attached' = [attached EXCEPT !["kv"] = IF ready = "resolved"
                                              THEN @ \cup {g} ELSE @]
    /\ IF IsCurrent("kv", g) /\ ready = "rejected" THEN Publish("kv", "error", TRUE)
       ELSE UNCHANGED <<status, failed>>
    /\ UNCHANGED <<ready, mounted, started, current, busy, mutation>>

KvReady(g) ==
    /\ g \in waiting["kv"] /\ ready # "pending"
    /\ waiting' = [waiting EXCEPT !["kv"] = @ \ {g}]
    /\ attached' = [attached EXCEPT !["kv"] = IF IsCurrent("kv", g) /\ ready = "resolved"
                                              THEN @ \cup {g} ELSE @]
    /\ IF IsCurrent("kv", g) /\ ready = "rejected" THEN Publish("kv", "error", TRUE)
       ELSE UNCHANGED <<status, failed>>
    /\ UNCHANGED <<ready, mounted, started, current, busy, mutation>>

\* Entries arrive: they replace the snapshot, error included, mid-mutation too.
OnEntries(g) ==
    /\ g \in attached["kv"]
    /\ IF IsCurrent("kv", g)
       THEN Publish("kv", "ready", FALSE) /\ busy' = Mutating(mutation)
       ELSE UNCHANGED <<status, failed, busy>>
    /\ UNCHANGED <<ready, mounted, started, current, waiting, attached, mutation>>

BeginMutation(m) ==
    /\ mutation[m] = "idle"
    /\ mutation' = [mutation EXCEPT ![m] = "going"]
    /\ Publish("kv", status["kv"], FALSE) /\ busy' = TRUE
    /\ UNCHANGED <<ready, mounted, started, current, waiting, attached>>

\* A mutation awaits ready(), then the client's kv: it fails with either.
EndMutation(m, ok) ==
    /\ mutation[m] = "going" /\ ready # "pending" /\ (ready = "rejected" => ~ok)
    /\ mutation' = [mutation EXCEPT ![m] = "done"]
    /\ Publish("kv", status["kv"], ~ok \/ failed["kv"])
    /\ busy' = Mutating(mutation')
    /\ UNCHANGED <<ready, mounted, started, current, waiting, attached>>

Settle ==
    /\ ready = "pending" /\ ready' \in {"resolved", "rejected"}
    /\ UNCHANGED <<mounted, started, current, waiting, attached, status, failed, busy, mutation>>

Generations == 1..(2 * MaxStarts)

Next ==
    \/ \E s \in Stores : Mount(s) \/ Unmount(s)
    \/ \E g \in Generations :
          SessionReady(g) \/ OnChange(g) \/ OnRevoked(g) \/ KvReady(g) \/ OnEntries(g)
    \/ \E m \in Mutations : BeginMutation(m) \/ \E ok \in BOOLEAN : EndMutation(m, ok)
    \/ Settle

Spec == Init /\ [][Next]_storeVars

-----------------------------------------------------------------------------
\* Every variable keeps its type.
TypeOK ==
    /\ ready \in {"pending", "resolved", "rejected"}
    /\ mounted \in [Stores -> 0..MaxMounts] /\ started \in [Stores -> 0..MaxStarts]
    /\ current \in [Stores -> 0..(2 * MaxStarts)]
    /\ waiting \in [Stores -> SUBSET Generations]
    /\ attached \in [Stores -> SUBSET Generations]
    /\ status \in [Stores -> {"loading", "ready", "error"}]
    /\ failed \in [Stores -> BOOLEAN] /\ busy \in BOOLEAN
    /\ mutation \in [Mutations -> {"idle", "going", "done"}]

\* However mounts, unmounts and a late ready() interleave, a store has at most
\* one listener on the client, that of its current start, and none once every
\* component has gone.
NoLeak ==
    \A s \in Stores : attached[s] \subseteq IF mounted[s] > 0 THEN {current[s]} ELSE {}

\* Nobody is told anything by a start that is over: while no component is
\* mounted, only the mutations of a key change its snapshot.
StoppedIsSilent ==
    [][\A s \in Stores : mounted[s] = 0 /\ mounted'[s] = 0 /\ mutation' = mutation =>
          status'[s] = status[s] /\ failed'[s] = failed[s]]_storeVars
=============================================================================
