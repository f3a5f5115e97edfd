----------------------------- MODULE SdkProofs -----------------------------
(***************************************************************************)
(* Theorems about the parts of Sandbox that run in an app's page, for all  *)
(* values of the constants: the React stores, the key-value client, the    *)
(* links and AI streams.  Of each part there is an inductive invariant of  *)
(* its own; AllSpec leaves a part alone but for the steps of that part, so *)
(* what its module keeps the composition keeps.                            *)
(*                                                                         *)
(* React: a start makes a store's generation odd, its stop even, and only  *)
(* odd ones ever wait for ready() or listen.  So what a stopped store gets *)
(* is never of its generation.                                             *)
(*                                                                         *)
(* KvClient: StreamAlive says nothing of a client that polls or of an      *)
(* engine that is not there yet, but the step to an engine depends on      *)
(* them: without one, and with polling, there is neither stream nor timer, *)
(* and stream and timer never are there together.                          *)
(*                                                                         *)
(* Links: what a link is made with, whichever call makes it, is a path the *)
(* page that is opened with it takes.                                      *)
(*                                                                         *)
(* AI: a fold over the bytes reads them one after another, which takes a   *)
(* function that is defined for every prefix and is the fold (there is no  *)
(* shortest prefix for which either fails).  The buffer is then the line   *)
(* that is not over yet, and the text what the lines before it carry.      *)
(*                                                                         *)
(* The types of React need that a store's generation is twice its starts,  *)
(* less the one that runs.                                                 *)
(***************************************************************************)
EXTENDS Sandbox, SequenceTheorems, FiniteSetTheorems, WellFoundedInduction, TLAPS

-----------------------------------------------------------------------------
(* The parts of the composition                                            *)

LEMMA ReactPart == AllSpec => React!Spec
<1>1. AllInit => React!Init
  BY DEF AllInit
<1>2. [AllNext]_allVars => [React!Next]_(React!storeVars)
  BY DEF AllNext, Only, allVars, reactV, React!storeVars
<1> QED
  BY <1>1, <1>2, PTL DEF AllSpec, React!Spec

LEMMA KvClientPart == AllSpec => KvClient!Spec
<1>1. AllInit => KvClient!Init
  BY DEF AllInit, KvClient!Init
<1>2. [AllNext]_allVars => [KvClient!Next]_(KvClient!vars)
  BY DEF AllNext, Only, allVars, kvV, KvClient!vars
<1> QED
  BY <1>1, <1>2, PTL DEF AllSpec, KvClient!Spec

Calling == {"link.to", "share", "notify"}

LEMMA LinksPart ==
  AllSpec => (\E p, by, own : by \in Calling /\ Link!InitWith(p, by, own))
             /\ [][Link!Next]_(Link!linkVars)
<1>1. AllInit => \E p, by, own : by \in Calling /\ Link!InitWith(p, by, own)
  BY DEF AllInit, Link!Init, Calling
<1>2. [AllNext]_allVars => [Link!Next]_(Link!linkVars)
  BY DEF AllNext, Only, allVars, linksV, Link!linkVars
<1> QED
  BY <1>1, <1>2, PTL DEF AllSpec

-----------------------------------------------------------------------------
(* The React stores                                                        *)

Odd == {2 * k + 1 : k \in Nat}
Even == {2 * k : k \in Nat}

\* What the stores' functions are, as far as the proofs need it.
StoresShape ==
  /\ mounted \in [React!Stores -> Nat] /\ generation \in [React!Stores -> Nat]
  /\ waiting = [s \in React!Stores |-> waiting[s]]
    /\ attached = [s \in React!Stores |-> attached[s]]
  /\ status = [s \in React!Stores |-> status[s]] /\ failed = [s \in React!Stores |-> failed[s]]
  /\ mutation = [m \in Mutations |-> mutation[m]]

Parity ==
  \A s \in React!Stores : /\ generation[s] \in IF mounted[s] > 0 THEN Odd ELSE Even
                    /\ waiting[s] \subseteq Odd

StoresInv == StoresShape /\ Parity /\ React!NoLeak

-----------------------------------------------------------------------------
\* A generation is of one parity, and the next one of the other.
LEMMA Parities ==
  /\ Odd \subseteq Nat /\ Even \subseteq Nat /\ 0 \in Even /\ Odd \cap Even = {}
  /\ \A g \in Even : g + 1 \in Odd
  /\ \A g \in Odd : g + 1 \in Even
<1>1. /\ Odd \subseteq Nat /\ Even \subseteq Nat /\ 0 \in Even
  <2>1. 0 = 2 * 0
    OBVIOUS
  <2> QED
    BY <2>1 DEF Odd, Even
<1>2. Odd \cap Even = {}
  BY DEF Odd, Even
<1>3. ASSUME NEW g \in Even PROVE g + 1 \in Odd
  BY DEF Odd, Even
<1>4. ASSUME NEW g \in Odd PROVE g + 1 \in Even
  <2>1. PICK k \in Nat : g = 2 * k + 1
    BY DEF Odd
  <2>2. g + 1 = 2 * (k + 1) /\ k + 1 \in Nat
    BY <2>1
  <2> QED
    BY <2>2 DEF Even
<1> QED
  BY <1>1, <1>2, <1>3, <1>4

LEMMA StoresInit == React!Init => StoresInv
  BY Parities DEF React!Init, StoresInv, StoresShape, Parity, React!NoLeak, React!Stores

\* The first to mount starts a generation; the session's listens at once.
LEMMA MountInv == ASSUME StoresInv, NEW s \in React!Stores, React!Mount(s) PROVE StoresInv'
<1>1. StoresShape'
  BY DEF React!Mount, StoresInv, StoresShape
<1>2. ASSUME NEW q \in React!Stores, q # s
      PROVE  /\ mounted'[q] = mounted[q] /\ generation'[q] = generation[q]
             /\ waiting'[q] = waiting[q] /\ attached'[q] = attached[q]
  BY <1>2 DEF React!Mount, StoresInv, StoresShape
<1>3. mounted'[s] = mounted[s] + 1 /\ mounted[s] \in Nat
  BY DEF React!Mount, StoresInv, StoresShape
<1>4. CASE mounted[s] > 0
  <2>1. generation' = generation /\ waiting' = waiting /\ attached' = attached
    BY <1>4 DEF React!Mount
  <2> QED
    BY <1>1, <1>2, <1>3, <1>4, <2>1 DEF StoresInv, Parity, React!NoLeak
<1>5. CASE ~(mounted[s] > 0)
  <2>1. /\ generation'[s] = generation[s] + 1 /\ waiting'[s] = waiting[s] \cup {generation'[s]}
        /\ attached'[s] \subseteq attached[s] \cup {generation'[s]}
    BY <1>5 DEF React!Mount, StoresInv, StoresShape
  <2>2. generation[s] \in Even /\ attached[s] = {} /\ waiting[s] \subseteq Odd
    BY <1>5 DEF StoresInv, Parity, React!NoLeak
  <2>3. generation'[s] \in Odd
    BY <2>1, <2>2, Parities
  <2> QED
    BY <1>1, <1>2, <1>3, <2>1, <2>2, <2>3 DEF StoresInv, Parity, React!NoLeak
<1> QED
  BY <1>4, <1>5

\* The last to unmount ends it.
LEMMA UnmountInv == ASSUME StoresInv, NEW s \in React!Stores, React!Unmount(s) PROVE StoresInv'
<1>1. StoresShape'
  BY DEF React!Unmount, StoresInv, StoresShape
<1>2. ASSUME NEW q \in React!Stores, q # s
      PROVE  /\ mounted'[q] = mounted[q] /\ generation'[q] = generation[q]
             /\ waiting'[q] = waiting[q] /\ attached'[q] = attached[q]
  BY <1>2 DEF React!Unmount, StoresInv, StoresShape
<1>3. /\ mounted'[s] = mounted[s] - 1 /\ mounted[s] \in Nat /\ mounted[s] > 0
      /\ waiting' = waiting /\ generation[s] \in Odd /\ attached[s] \subseteq {generation[s]}
  BY DEF React!Unmount, StoresInv, StoresShape, Parity, React!NoLeak
<1>4. CASE mounted[s] > 1
  <2>1. generation' = generation /\ attached' = attached
    BY <1>4 DEF React!Unmount
  <2> QED
    BY <1>1, <1>2, <1>3, <1>4, <2>1 DEF StoresInv, Parity, React!NoLeak
<1>5. CASE ~(mounted[s] > 1)
  <2>1. generation'[s] = generation[s] + 1 /\ attached'[s] = attached[s] \ {generation[s]}
    BY <1>5 DEF React!Unmount, StoresInv, StoresShape
  <2>2. generation'[s] \in Even /\ attached'[s] = {} /\ ~(mounted'[s] > 0)
    <3>1. generation'[s] \in Even
      BY <1>3, <2>1, Parities
    <3>2. attached'[s] = {}
      BY <1>3, <2>1
    <3>3. ~(mounted'[s] > 0)
      BY <1>3, <1>5
    <3> QED
      BY <3>1, <3>2, <3>3
  <2> QED
    BY <1>1, <1>2, <1>3, <2>2 DEF StoresInv, Parity, React!NoLeak
<1> QED
  BY <1>4, <1>5

\* A key's store listens once ready, if its start is not over.
LEMMA ReadyInv ==
  ASSUME StoresInv, NEW g \in React!Generations, React!SessionReady(g) \/ React!KvReady(g)
    PROVE StoresInv'
<1>1. StoresShape'
  BY DEF React!SessionReady, React!KvReady, React!SyncSession, React!FailSession, React!Publish,
    StoresInv, StoresShape
<1>2. mounted' = mounted /\ generation' = generation
  BY DEF React!SessionReady, React!KvReady
<1>3. \A s \in React!Stores : waiting'[s] \subseteq waiting[s]
  <2>1. PICK q \in React!Stores : waiting' = [waiting EXCEPT ![q] = @ \ {g}]
    BY DEF React!SessionReady, React!KvReady, React!Stores
  <2> QED
    BY <2>1 DEF StoresInv, StoresShape
<1>4. Parity'
  BY <1>2, <1>3 DEF StoresInv, Parity
<1>5. React!NoLeak'
  <2>1. CASE React!SessionReady(g)
    BY <2>1, <1>2 DEF React!SessionReady, StoresInv, React!NoLeak
  <2>2. CASE React!KvReady(g)
    <3>1. \A s \in React!Stores : attached'[s] = attached[s] \/ (s = "kv" /\ g = generation[s]
                              /\ attached'[s] = attached[s] \cup {g})
      BY <2>2 DEF React!KvReady, React!IsCurrent, StoresInv, StoresShape
    <3>2. "kv" \in React!Stores /\ g \in waiting["kv"]
      BY <2>2 DEF React!KvReady, React!Stores
    <3>3. g = generation["kv"] => mounted["kv"] > 0
      BY <3>2, Parities DEF StoresInv, Parity
    <3> QED
      BY <1>2, <3>1, <3>2, <3>3 DEF StoresInv, React!NoLeak
  <2> QED
    BY <2>1, <2>2
<1> QED
  BY <1>1, <1>4, <1>5 DEF StoresInv

\* Everything else publishes at most.
LEMMA PublishInv ==
  ASSUME StoresInv, UNCHANGED <<mounted, generation, waiting, attached>>,
         mutation' = [m \in Mutations |-> mutation'[m]],
         \/ UNCHANGED <<status, failed>>
         \/ \E s \in React!Stores : \E st, err : React!Publish(s, st, err)
  PROVE  StoresInv'
<1>1. StoresShape'
  BY DEF React!Publish, StoresInv, StoresShape
<1> QED
  BY <1>1 DEF StoresInv, Parity, React!NoLeak

LEMMA StoresStep == StoresInv /\ [React!Next]_(React!storeVars) => StoresInv'
<1> SUFFICES ASSUME StoresInv, [React!Next]_(React!storeVars) PROVE StoresInv'
  OBVIOUS
<1>1. ASSUME NEW g \in React!Generations,
  React!OnChange(g) \/ React!OnRevoked(g) \/ React!OnEntries(g) PROVE StoresInv'
  BY <1>1, PublishInv
    DEF React!OnChange, React!OnRevoked, React!OnEntries, React!SyncSession, React!FailSession,
      React!Stores,
     StoresInv, StoresShape
<1>2. ASSUME NEW m \in Mutations, React!BeginMutation(m) PROVE StoresInv'
  BY <1>2, PublishInv DEF React!BeginMutation, React!Stores, StoresInv, StoresShape
<1>3. ASSUME NEW m \in Mutations, NEW ok \in BOOLEAN, React!EndMutation(m, ok) PROVE StoresInv'
  BY <1>3, PublishInv DEF React!EndMutation, React!Stores, StoresInv, StoresShape
<1>4. CASE React!Settle
  BY <1>4, PublishInv DEF React!Settle, StoresInv, StoresShape
<1>5. CASE UNCHANGED React!storeVars
  BY <1>5, PublishInv DEF React!storeVars, StoresInv, StoresShape
<1> QED
  BY <1>1, <1>2, <1>3, <1>4, <1>5, MountInv, UnmountInv, ReadyInv DEF React!Next

LEMMA StoresInvariant == React!Spec => []StoresInv
  BY StoresInit, StoresStep, PTL DEF React!Spec

-----------------------------------------------------------------------------
\* A store has at most one listener on the client, that of its current start,
\* and none once every component has gone.
THEOREM StoresDoNotLeak == AllSpec => []NoLeak
<1>1. StoresInv => NoLeak
  BY DEF StoresInv, NoLeak
<1> QED
  BY <1>1, StoresInvariant, ReactPart, PTL

\* Nobody is told anything by a start that is over.
LEMMA SilentStep ==
  ASSUME StoresInv, React!Next, NEW s \in React!Stores, mounted[s] = 0, mounted'[s] = 0,
    mutation' = mutation
  PROVE  status'[s] = status[s] /\ failed'[s] = failed[s]
<1>1. ASSUME NEW g \in Nat, g \in waiting[s] \cup attached[s] PROVE ~React!IsCurrent(s, g)
  BY <1>1, Parities DEF StoresInv, Parity, React!NoLeak, React!IsCurrent
<1>2. ASSUME NEW q \in React!Stores, React!Mount(q) \/ React!Unmount(q)
  PROVE status' = status /\ failed' = failed
  BY <1>2 DEF React!Mount, React!Unmount
<1>3. ASSUME NEW g \in React!Generations,
             React!SessionReady(g) \/ React!OnChange(g) \/ React!OnRevoked(g)
               \/ React!KvReady(g) \/ React!OnEntries(g)
      PROVE  status'[s] = status[s] /\ failed'[s] = failed[s]
  <2>1. g \in Nat
    BY DEF React!Generations
  <2>2. CASE s = "session"
    BY <1>1, <1>3, <2>1, <2>2
      DEF React!SessionReady, React!OnChange, React!OnRevoked, React!KvReady, React!OnEntries,
       React!SyncSession, React!FailSession, React!Publish, StoresInv, StoresShape
  <2>3. CASE s = "kv"
    BY <1>1, <1>3, <2>1, <2>3
      DEF React!SessionReady, React!OnChange, React!OnRevoked, React!KvReady, React!OnEntries,
       React!SyncSession, React!FailSession, React!Publish, StoresInv, StoresShape
  <2> QED
    BY <2>2, <2>3 DEF React!Stores
<1>4. ASSUME NEW m \in Mutations,
  React!BeginMutation(m) \/ \E ok \in BOOLEAN : React!EndMutation(m, ok)
      PROVE  mutation' # mutation
  <2>1. m \in DOMAIN mutation /\ mutation'[m] # mutation[m]
    BY <1>4 DEF React!BeginMutation, React!EndMutation, StoresInv, StoresShape
  <2> QED
    BY <2>1
<1>5. CASE React!Settle
  BY <1>5 DEF React!Settle
<1> QED
  BY <1>2, <1>3, <1>4, <1>5 DEF React!Next

\* While no component is mounted only the mutations of a key change its snapshot, however
\* many promises of earlier starts are still to come.
THEOREM StoppedStoresAreSilent == AllSpec => React!StoppedIsSilent
<1>1. StoresInv /\ [React!Next]_(React!storeVars) =>
        [\A s \in React!Stores : mounted[s] = 0 /\ mounted'[s] = 0 /\ mutation' = mutation =>
            status'[s] = status[s] /\ failed'[s] = failed[s]]_(React!storeVars)
  BY SilentStep
<1> QED
  BY <1>1, StoresInvariant, ReactPart, PTL DEF React!Spec, React!StoppedIsSilent

-----------------------------------------------------------------------------
(* The key-value client                                                    *)

Quiet == stream = "none" /\ timers = 0
NoEngineQuiet == engine # "ready" \/ polls => Quiet
OneOfTwo == stream = "none" \/ timers = 0
ClientInv == KvClient!TypeOK /\ NoEngineQuiet /\ OneOfTwo /\ KvClient!StreamAlive

\* What every step but those of the stream leaves alone, or brings about, is all the invariant
\* needs to know of it.
LEMMA Undisturbed ==
  ASSUME ClientInv, UNCHANGED <<polls, KvClient!streamVars>>,
    engine' # engine => engine' # "ready" /\ engine # "ready"
  PROVE  (NoEngineQuiet /\ OneOfTwo /\ KvClient!StreamAlive)'
BY DEF ClientInv, NoEngineQuiet, OneOfTwo, KvClient!StreamAlive, Quiet, KvClient!streamVars

\* connectPoke(), called where there is neither a stream nor a timer: a stream is begun unless the
\* client polls or the token is gone, which it remembers.
LEMMA Connects ==
  ASSUME KvClient!TypeOK, KvClient!ConnectPoke, stream = "none"
  PROVE  /\ stream' \in {"none", "connecting"} /\ starved' \in BOOLEAN
         /\ polls => stream' = "none"
         /\ ~polls /\ ~starved' => stream' # "none"
<1>1. starved' \in BOOLEAN
  BY Zenon DEF KvClient!TypeOK, KvClient!ConnectPoke
<1> QED
  BY <1>1 DEF KvClient!TypeOK, KvClient!ConnectPoke

LEMMA ClientInit == KvClient!Init => ClientInv
<1> SUFFICES ASSUME NEW interval \in BOOLEAN, NEW granted \in {"reads", "denies"},
                    KvClient!InitWith(interval, granted)
             PROVE  ClientInv
  BY DEF KvClient!Init
<1>1. polls \in BOOLEAN
  BY DEF KvClient!InitWith
<1>2. KvClient!TypeOK
  <2>1. 0 \in 0..MaxTokens /\ 0 \in 0..MaxDrops /\ 0 \in 0..1
    BY SandboxAssumption
  <2>2. scope \in KvClient!Scopes /\ engine \in {"unasked"} \cup KvClient!Asked
    BY DEF KvClient!InitWith, KvClient!Scopes, KvClient!Asked
  <2>3. kvStarted \in BOOLEAN /\ starved \in BOOLEAN
    BY DEF KvClient!InitWith
  <2> QED
    BY <1>1, <2>1, <2>2, <2>3 DEF KvClient!InitWith, KvClient!TypeOK
<1> QED
  BY <1>2 DEF KvClient!InitWith, ClientInv, NoEngineQuiet, OneOfTwo, KvClient!StreamAlive, Quiet

LEMMA ClientStep == ClientInv /\ [KvClient!Next]_(KvClient!vars) => ClientInv'
<1> SUFFICES ASSUME ClientInv, [KvClient!Next]_(KvClient!vars) PROVE ClientInv'
  OBVIOUS
<1> USE SandboxAssumption DEF ClientInv
<1>1. CASE KvClient!Start
  <2>1. KvClient!TypeOK'
    BY <1>1 DEF KvClient!TypeOK, KvClient!Start, KvClient!LoadEngine, KvClient!Scopes,
      KvClient!Asked, KvClient!streamVars
  <2>2. UNCHANGED <<polls,
    KvClient!streamVars>> /\ (engine' # engine => engine' # "ready" /\ engine # "ready")
    BY <1>1 DEF KvClient!Start, KvClient!LoadEngine
  <2> QED
    BY <2>1, <2>2, Undisturbed
<1>2. CASE KvClient!Imported
  <2>1. stream = "none" /\ timers = 0 /\ timers' = 0 /\ engine' = "ready" /\ polls' = polls
    BY <1>2 DEF KvClient!Imported, NoEngineQuiet, Quiet
  <2>2. KvClient!ConnectPoke
    BY <1>2 DEF KvClient!Imported
  <2>3. KvClient!TypeOK'
    <3>1. stream' \in {"none", "connecting", "open"} /\ starved' \in BOOLEAN
      BY <2>1, <2>2, Connects
    <3> QED
      BY <1>2, <2>1, <3>1 DEF KvClient!TypeOK, KvClient!Imported, KvClient!Asked
  <2> QED
    BY <2>1, <2>2, <2>3, Connects
      DEF NoEngineQuiet, OneOfTwo, KvClient!StreamAlive, Quiet, KvClient!TypeOK
<1>3. CASE KvClient!ImportFails
  <2>1. KvClient!TypeOK'
    BY <1>3 DEF KvClient!TypeOK, KvClient!ImportFails, KvClient!Scopes, KvClient!Asked,
      KvClient!streamVars
  <2>2. UNCHANGED <<polls,
    KvClient!streamVars>> /\ (engine' # engine => engine' # "ready" /\ engine # "ready")
    BY <1>3 DEF KvClient!ImportFails
  <2> QED
    BY <2>1, <2>2, Undisturbed
<1>4. ASSUME NEW s \in Subscribers,
  KvClient!Subscribe(s) \/ KvClient!Attach(s) \/ KvClient!Unsubscribe(s)
      PROVE  ClientInv'
  <2>1. KvClient!TypeOK'
    BY <1>4 DEF KvClient!TypeOK, KvClient!Subscribe, KvClient!Attach, KvClient!Unsubscribe,
      KvClient!LoadEngine, KvClient!Scopes, KvClient!Asked, KvClient!streamVars
  <2>2. UNCHANGED <<polls,
    KvClient!streamVars>> /\ (engine' # engine => engine' # "ready" /\ engine # "ready")
    BY <1>4 DEF KvClient!Subscribe, KvClient!Attach, KvClient!Unsubscribe, KvClient!LoadEngine
  <2> QED
    BY <2>1, <2>2, Undisturbed
<1>5. CASE KvClient!StreamOpens
  BY <1>5 DEF KvClient!StreamOpens, KvClient!TypeOK, NoEngineQuiet, OneOfTwo,
    KvClient!StreamAlive, Quiet, KvClient!Scopes, KvClient!Asked
<1>6. CASE KvClient!StreamFails
  <2>1. timers = 0 /\ timers' = 1 /\ stream' = "none" /\ engine = "ready" /\ ~polls
    BY <1>6 DEF KvClient!StreamFails, NoEngineQuiet, OneOfTwo, Quiet, KvClient!TypeOK
  <2>2. KvClient!TypeOK'
    BY <1>6, <2>1 DEF KvClient!StreamFails, KvClient!TypeOK
  <2> QED
    BY <1>6, <2>1, <2>2
      DEF KvClient!StreamFails, NoEngineQuiet, OneOfTwo, KvClient!StreamAlive, Quiet
<1>7. CASE KvClient!Reconnect
  <2>1. timers = 1 /\ timers' = 0 /\ stream = "none" /\ engine = "ready" /\ ~polls
    BY <1>7 DEF KvClient!Reconnect, NoEngineQuiet, OneOfTwo, Quiet, KvClient!TypeOK
  <2>2. KvClient!ConnectPoke
    BY <1>7 DEF KvClient!Reconnect
  <2>3. KvClient!TypeOK'
    <3>1. stream' \in {"none", "connecting", "open"} /\ starved' \in BOOLEAN
      BY <2>1, <2>2, Connects
    <3> QED
      BY <1>7, <2>1, <3>1 DEF KvClient!Reconnect, KvClient!TypeOK
  <2> QED
    BY <1>7, <2>1, <2>2, <2>3, Connects
    DEF KvClient!Reconnect, NoEngineQuiet, OneOfTwo, KvClient!StreamAlive, Quiet, KvClient!TypeOK
<1>8. ASSUME NEW s \in KvClient!Scopes, KvClient!TokenChanges(s)
      PROVE  ClientInv'
  <2>1. KvClient!TypeOK'
    BY <1>8 DEF KvClient!TypeOK, KvClient!TokenChanges, KvClient!streamVars
  <2>2. UNCHANGED <<polls, KvClient!streamVars>> /\ engine' = engine
    BY <1>8 DEF KvClient!TokenChanges
  <2> QED
    BY <2>1, <2>2, Undisturbed
<1>9. CASE UNCHANGED KvClient!vars
  <2>1. KvClient!TypeOK'
    BY <1>9 DEF KvClient!TypeOK, KvClient!vars
  <2>2. UNCHANGED <<polls, KvClient!streamVars>> /\ engine' = engine
    BY <1>9 DEF KvClient!vars, KvClient!streamVars
  <2> QED
    BY <2>1, <2>2, Undisturbed
<1> QED
  BY <1>1, <1>2, <1>3, <1>4, <1>5, <1>6, <1>7, <1>8, <1>9 DEF KvClient!Next

LEMMA ClientInvariant == KvClient!Spec => []ClientInv
BY ClientInit, ClientStep, PTL DEF KvClient!Spec

\* KvClient's variables keep their types, whatever is subscribed and however often the stream fails.
THEOREM ClientTypes == AllSpec => []KvClient!TypeOK
BY ClientInvariant, KvClientPart, PTL DEF ClientInv

\* An engine that does not poll has a stream or is about to open one, never both, unless a
\* reconnect met a session without a token: connectPoke() and onerror of src/src/runtime.ts.
THEOREM ClientHears == AllSpec => []StreamAlive
<1>1. ClientInv => StreamAlive
  BY DEF ClientInv, StreamAlive
<1> QED
  BY <1>1, ClientInvariant, KvClientPart, PTL

-----------------------------------------------------------------------------
(* Links                                                                   *)

LinksInv ==
  /\ via \in Calling
  /\ linkStage # "refused by the page"
  /\ linkStage \in {"made", "opened"} => made = Link!NoPath \/ Link!PageOpens(made)
  /\ linkStage = "opened" /\ made # Link!NoPath => screen = Link!Fragment(made)

\* A path the SDK takes is one that the page shares, and one that it opens.
LEMMA LaunchPaths ==
  ASSUME NEW p, Link!IsLaunchPath(p)
  PROVE  Link!PageShares(p) /\ Link!PageOpens(p)
BY DEF Link!IsLaunchPath, Link!PageShares, Link!PageOpens, Link!Clean

\* So is a path that the server takes for a notification.
LEMMA NotifiedPaths ==
  ASSUME NEW p, Link!Notifies(p)
  PROVE  p = Link!NoPath \/ Link!PageOpens(p)
BY DEF Link!Notifies, Link!PageOpens

LEMMA LinksStep == LinksInv /\ [Link!Next]_(Link!linkVars) => LinksInv'
<1> SUFFICES ASSUME LinksInv, [Link!Next]_(Link!linkVars) PROVE LinksInv'
  OBVIOUS
<1> USE DEF Calling
<1>1. CASE Link!Make
  <2>1. CASE via = "link.to"
    BY <1>1, <2>1, LaunchPaths DEF Link!Make, Link!MakeLink, Link!Refuse, LinksInv
  <2>2. CASE via = "share"
    BY <1>1, <2>2, LaunchPaths DEF Link!Make, Link!MakeLink, Link!Refuse, LinksInv
  <2>3. CASE via = "notify"
    BY <1>1, <2>3, NotifiedPaths DEF Link!Make, Link!MakeLink, Link!Refuse, LinksInv
  <2> QED
    BY <1>1, <2>1, <2>2, <2>3 DEF LinksInv
<1>2. CASE Link!OpenLink
  BY <1>2 DEF Link!OpenLink, LinksInv
<1>3. CASE UNCHANGED Link!linkVars
  BY <1>3 DEF Link!linkVars, LinksInv
<1> QED
  BY <1>1, <1>2, <1>3 DEF Link!Next

\* The four places that judge a path agree, for paths of every length: the page refuses no share
\* of a path the SDK took, and a link made with a path never opens the first screen instead:
\* isLaunchPath() of src/src/runtime.ts and its counterparts in src/src/sandbox/runtime.ts.
THEOREM LinksLand == AllSpec => []LinkLands
<1>1. (\E p, by, own : by \in Calling /\ Link!InitWith(p, by, own)) => LinksInv
  BY DEF Link!InitWith, LinksInv
<1>2. LinksInv => LinkLands
  BY DEF LinksInv, LinkLands, Link!LinkLands
<1> QED
  BY <1>1, <1>2, LinksStep, LinksPart, PTL

-----------------------------------------------------------------------------
(* AI streams: Lines(), token by token                                     *)

\* Numbers of which one has a property have a least one that has it: what holds of all of them is
\* shown by there being no least exception.
LEMMA LeastNumber ==
  ASSUME NEW T, T \subseteq Nat, T # {}
  PROVE  \E n \in T : \A m \in T : n <= m
<1>1. PICK n \in T : \A m \in T : ~(<<m, n>> \in OpToRel(<, Nat))
  BY NatLessThanWellFounded, WFMin
<1>2. \A m \in T : ~(m < n)
  BY <1>1 DEF OpToRel
<1> QED
  BY <1>2

Cut(text0, rest0) == [text |-> text0, rest |-> rest0]
Nothing == Cut(<<>>, <<>>)
\* What Lines() makes of the next token.
Cutting(cut, symbol) ==
  IF symbol = Newline THEN [text |-> cut.text \o Ai!DeltasOn(cut.rest), rest |-> <<>>]
  ELSE [cut EXCEPT !.rest = Append(@, symbol)]

\* The fold in Lines() goes over sets of positions, from the last one down.
FoldedAt(bytes, g, s) == IF s = {} THEN Nothing ELSE Cutting(g[s \ {Ai!Max(s)}], bytes[Ai!Max(s)])
Folds(bytes, k, g) == g = [s \in SUBSET (1..k) |-> FoldedAt(bytes, g, s)]
Folded(bytes) == CHOOSE g : Folds(bytes, Len(bytes), g)

LEMMA LinesFold ==
  ASSUME NEW S, NEW bytes \in Seq(S)
  PROVE  Ai!Lines(bytes) = Folded(bytes)[1..Len(bytes)]
<1>1. Ai!Lines(bytes) = (CHOOSE g : g = [s \in SUBSET DOMAIN bytes |-> FoldedAt(bytes, g, s)])[DOMAIN bytes]
  BY Zenon DEF Ai!Lines, Ai!FoldLeft, Ai!MapThenFoldSet, Cutting, Nothing, Cut, FoldedAt
<1>2. DOMAIN bytes = 1..Len(bytes)
  OBVIOUS
<1> QED
  BY <1>1, <1>2, Zenon DEF Folded, Folds

LEMMA LargestIsMax ==
  ASSUME NEW s, s \subseteq Int, NEW k \in s, \A j \in s : k >= j
  PROVE  Ai!Max(s) = k
<1> DEFINE P(x) == x \in s /\ \A j \in s : x >= j
<1>1. Ai!Max(s) = CHOOSE x : P(x)
  BY Zenon DEF Ai!Max
<1>2. P(k)
  OBVIOUS
<1>3. \A x : P(x) => x = k
  OBVIOUS
<1> HIDE DEF P
<1> QED
  BY <1>1, <1>2, <1>3

LEMMA MaxOfInterval ==
  ASSUME NEW k \in Nat \ {0}
  PROVE  Ai!Max(1..k) = k /\ (1..k) \ {k} = 1..k - 1 /\ 1..k # {}
<1>1. k \in 1..k /\ (\A j \in 1..k : k >= j) /\ 1..k \subseteq Int
  OBVIOUS
<1>2. Ai!Max(1..k) = k
  BY <1>1, LargestIsMax
<1> QED
  BY <1>1, <1>2

LEMMA FoldExists == ASSUME NEW bytes, NEW n \in Nat PROVE \E g : Folds(bytes, n, g)
<1> DEFINE Missing == {k \in Nat : ~\E g : Folds(bytes, k, g)}
<1> SUFFICES ASSUME Missing # {} PROVE FALSE
  OBVIOUS
<1>1. PICK k \in Missing : \A m \in Missing : k <= m
  BY LeastNumber, Missing \subseteq Nat
<1>2. k \in Nat /\ ~\E g : Folds(bytes, k, g)
  OBVIOUS
<1>3. CASE k = 0
  <2> DEFINE g == [s \in SUBSET (1..0) |-> Nothing]
  <2>1. \A s \in SUBSET (1..0) : s = {}
    OBVIOUS
  <2>2. \A s \in SUBSET (1..0) : FoldedAt(bytes, g, s) = Nothing
    BY <2>1 DEF FoldedAt
  <2>3. g = [s \in SUBSET (1..0) |-> FoldedAt(bytes, g, s)]
    BY <2>2, Zenon
  <2> QED
    BY <1>2, <1>3, <2>3, Zenon DEF Folds
<1>4. CASE k # 0
  <2> DEFINE m == k - 1
  <2>1. m \in Nat /\ k = m + 1 /\ m \notin Missing
    <3> HIDE DEF Missing
    <3> QED
      BY <1>1, <1>2, <1>4
  <2>2. PICK g : Folds(bytes, m, g)
    BY <2>1
  <2> DEFINE h == [s \in SUBSET (1..k) |-> IF k \in s THEN Cutting(g[s \ {k}], bytes[k]) ELSE g[s]]
  <2> HIDE DEF m
  <2>3. ASSUME NEW s \in SUBSET (1..k)
        PROVE  h[s] = FoldedAt(bytes, h, s)
    <3>1. CASE k \in s
      <4>1. Ai!Max(s) = k
        <5>1. k \in s /\ \A j \in s : k >= j
          BY <1>2, <3>1
        <5>2. s \subseteq Int
          BY <1>2
        <5> QED
          BY <5>1, <5>2, LargestIsMax
      <4>2. s \ {k} \in SUBSET (1..k) /\ k \notin s \ {k} /\ s # {}
        BY <3>1
      <4>3. h[s \ {k}] = g[s \ {k}]
        BY <4>2
      <4>4. h[s] = Cutting(g[s \ {k}], bytes[k])
        BY <3>1
      <4> HIDE DEF h
      <4> QED
        BY <4>1, <4>2, <4>3, <4>4 DEF FoldedAt
    <3>2. CASE k \notin s
      <4>1. s \in SUBSET (1..m) /\ h[s] = g[s]
        BY <2>1, <3>2
      <4>2. g[s] = FoldedAt(bytes, g, s)
        BY <2>2, <4>1, Zenon DEF Folds
      <4>3. \A x : s \ {x} \in SUBSET (1..k) /\ k \notin s \ {x}
        BY <3>2
      <4>4. \A x : h[s \ {x}] = g[s \ {x}]
        BY <4>3
      <4> HIDE DEF h
      <4> QED
        BY <4>1, <4>2, <4>4 DEF FoldedAt
    <3> QED
      BY <3>1, <3>2
  <2>4. h = [s \in SUBSET (1..k) |-> FoldedAt(bytes, h, s)]
    <3>1. h = [s \in SUBSET (1..k) |-> h[s]]
      BY Zenon
    <3> HIDE DEF h
    <3> QED
      BY <2>3, <3>1, Zenon
  <2> QED
    BY <1>2, <2>4, Zenon DEF Folds
<1> QED
  BY <1>3, <1>4

\* A fold over more tokens begins as the fold over the first of them.
LEMMA FoldOfPrefix ==
  ASSUME NEW a, NEW b, NEW n \in Nat, NEW k \in Nat, NEW g, NEW h, n <= k,
         Folds(a, n, g), Folds(b, k, h), \A i \in 1..n : a[i] = b[i]
  PROVE  g[1..n] = h[1..n]
<1> DEFINE Differ == {m \in 0..n : g[1..m] # h[1..m]}
<1> SUFFICES ASSUME Differ # {} PROVE FALSE
  BY n \in 0..n
<1>1. PICK m \in Differ : \A j \in Differ : m <= j
  BY LeastNumber, Differ \subseteq Nat
<1>2. m \in 0..n /\ g[1..m] # h[1..m]
  OBVIOUS
<1>3. 1..m \in SUBSET (1..n) /\ 1..m \in SUBSET (1..k)
  BY <1>2
<1>4. g[1..m] = FoldedAt(a, g, 1..m) /\ h[1..m] = FoldedAt(b, h, 1..m)
  BY <1>3, Zenon DEF Folds
<1>5. CASE m = 0
  <2>1. 1..m = {}
    BY <1>5
  <2> QED
    BY <1>2, <1>4, <2>1 DEF FoldedAt
<1>6. CASE m # 0
  <2>1. Ai!Max(1..m) = m /\ (1..m) \ {m} = 1..m - 1 /\ 1..m # {} /\ a[m] = b[m]
    <3>1. m \in Nat \ {0} /\ a[m] = b[m]
      BY <1>2, <1>6
    <3> QED
      BY <3>1, MaxOfInterval
  <2>2. m - 1 \in 0..n /\ m - 1 \notin Differ
    <3> HIDE DEF Differ
    <3> QED
      BY <1>1, <1>2, <1>6
  <2>3. g[1..m - 1] = h[1..m - 1]
    BY <2>2
  <2> QED
    BY <1>2, <1>4, <2>1, <2>3 DEF FoldedAt
<1> QED
  BY <1>5, <1>6

\* Lines(), token by token.
LEMMA LinesOfNone == Ai!Lines(<<>>) = Nothing
<1>1. Ai!Lines(<<>>) = Folded(<<>>)[1..0]
  <2>1. <<>> \in Seq({}) /\ Len(<<>>) = 0
    OBVIOUS
  <2> QED
    BY <2>1, LinesFold
<1>2. Folds(<<>>, 0, Folded(<<>>))
  <2>1. \E g : Folds(<<>>, 0, g)
    BY FoldExists
  <2> QED
    BY <2>1, Zenon DEF Folded
<1>3. Folded(<<>>)[1..0] = FoldedAt(<<>>, Folded(<<>>), 1..0)
  <2>1. 1..0 \in SUBSET (1..0)
    OBVIOUS
  <2> QED
    BY <1>2, <2>1, Zenon DEF Folds
<1>4. 1..0 = {}
  OBVIOUS
<1> QED
  BY <1>1, <1>3, <1>4 DEF FoldedAt

LEMMA LinesOfMore ==
  ASSUME NEW S, NEW bytes \in Seq(S), NEW symbol \in S
  PROVE  Ai!Lines(Append(bytes, symbol)) = Cutting(Ai!Lines(bytes), symbol)
<1> DEFINE n == Len(bytes)
           more == Append(bytes, symbol)
           g == Folded(bytes)
           h == Folded(more)
<1>1. /\ n \in Nat /\ more \in Seq(S) /\ Len(more) = n + 1 /\ more[n + 1] = symbol
      /\ \A i \in 1..n : bytes[i] = more[i]
  OBVIOUS
<1>2. Folds(bytes, n, g)
  BY <1>1, FoldExists, Zenon DEF Folded
<1>3. Folds(more, n + 1, h)
  <2> HIDE DEF more, n
  <2>1. \E f : Folds(more, n + 1, f)
    BY <1>1, FoldExists
  <2> QED
    BY <1>1, <2>1, Zenon DEF Folded
<1>4. Ai!Lines(bytes) = g[1..n] /\ Ai!Lines(more) = h[1..n + 1]
  <2> HIDE DEF more
  <2> QED
    BY <1>1, LinesFold
<1> HIDE DEF g, h, more, n
<1>5. g[1..n] = h[1..n]
  BY <1>1, <1>2, <1>3, FoldOfPrefix
<1>6. h[1..n + 1] = FoldedAt(more, h, 1..n + 1)
  <2>1. 1..n + 1 \in SUBSET (1..n + 1)
    OBVIOUS
  <2> QED
    BY <1>3, <2>1, Zenon DEF Folds
<1>7. Ai!Max(1..n + 1) = n + 1 /\ (1..n + 1) \ {n + 1} = 1..n /\ 1..n + 1 # {}
  <2>1. n + 1 \in Nat \ {0} /\ (n + 1) - 1 = n
    BY <1>1
  <2> QED
    BY <2>1, MaxOfInterval
<1> QED
  BY <1>1, <1>4, <1>5, <1>6, <1>7 DEF FoldedAt, more

Readings == [text : Seq(Deltas), rest : Seq(Ai!Tokens)]
LEMMA DeltaTypes == ASSUME NEW S, NEW line \in Seq(S) PROVE Ai!DeltasOn(line) \in Seq(Deltas)
BY DEF Ai!DeltasOn

LEMMA CuttingTypes ==
  ASSUME NEW cut \in Readings, NEW symbol \in Ai!Tokens
  PROVE  Cutting(cut, symbol) \in Readings
<1>1. cut = Cut(cut.text, cut.rest) /\ cut.text \in Seq(Deltas) /\ cut.rest \in Seq(Ai!Tokens)
  BY DEF Readings, Cut
<1>2. Ai!DeltasOn(cut.rest) \in Seq(Deltas)
  BY DEF Ai!DeltasOn
<1>3. CASE symbol = Newline
  <2>1. cut.text \o Ai!DeltasOn(cut.rest) \in Seq(Deltas) /\ <<>> \in Seq(Ai!Tokens)
    BY <1>1, <1>2
  <2> QED
    BY <1>3, <2>1 DEF Cutting, Readings
<1>4. CASE symbol # Newline
  <2>1. Append(cut.rest, symbol) \in Seq(Ai!Tokens)
    BY <1>1
  <2>2. Cutting(cut, symbol) = [cut EXCEPT !.rest = Append(@, symbol)]
    BY <1>4 DEF Cutting
  <2> QED
    BY <2>1, <2>2 DEF Readings
<1> QED
  BY <1>3, <1>4

\* What the answer's first n bytes hold.
Prefix(n) == Ai!Lines(SubSeq(body, 1, n))
LEMMA PrefixStep ==
  ASSUME body \in Seq(Ai!Tokens), NEW n \in 0..Len(body), n # Len(body)
  PROVE  Prefix(n + 1) = Cutting(Prefix(n), body[n + 1]) /\ body[n + 1] \in Ai!Tokens
<1>1. n + 1 \in 1..Len(body) /\ body[n + 1] \in Ai!Tokens /\ SubSeq(body, 1, n) \in Seq(Ai!Tokens)
  OBVIOUS
<1>2. SubSeq(body, 1, n + 1) = Append(SubSeq(body, 1, n), body[n + 1])
  BY <1>1
<1> QED
  BY <1>1, <1>2, LinesOfMore DEF Prefix
LEMMA PrefixOfNone == ASSUME body \in Seq(Ai!Tokens) PROVE Prefix(0) = Nothing
<1>1. SubSeq(body, 1, 0) = <<>>
  OBVIOUS
<1> QED
  BY <1>1, LinesOfNone DEF Prefix

LEMMA PrefixTypes ==
  ASSUME body \in Seq(Ai!Tokens), NEW n \in 0..Len(body)
  PROVE  Prefix(n) \in Readings
<1> DEFINE Bad == {m \in 0..Len(body) : Prefix(m) \notin Readings}
<1> SUFFICES ASSUME Bad # {} PROVE FALSE
  OBVIOUS
<1>1. PICK m \in Bad : \A j \in Bad : m <= j
  BY LeastNumber, Bad \subseteq Nat
<1>2. m \in 0..Len(body) /\ Prefix(m) \notin Readings
  OBVIOUS
<1>3. m # 0
  <2>1. Nothing \in Readings
    BY DEF Nothing, Cut, Readings
  <2> QED
    BY <1>2, <2>1, PrefixOfNone
<1>4. m - 1 \in 0..Len(body) /\ m - 1 # Len(body) /\ m - 1 \notin Bad /\ (m - 1) + 1 = m
  <2> HIDE DEF Bad
  <2> QED
    BY <1>1, <1>2, <1>3
<1>5. Prefix(m - 1) \in Readings
  BY <1>4
<1> QED
  BY <1>2, <1>4, <1>5, PrefixStep, CuttingTypes

\* The unfinished line at the end of the first n bytes is what is left of them, and there is no
\* newline in it.
Unfinished(n, rest) ==
  LET s == n - Len(rest)
  IN  /\ s \in 0..n /\ (s = 0 \/ body[s] = Newline)
      /\ \A k \in s + 1..n : body[k] # Newline
      /\ rest = SubSeq(body, s + 1, n)
LEMMA UnfinishedStep ==
  ASSUME body \in Seq(Ai!Tokens), NEW n \in 0..Len(body), n # Len(body),
         NEW cut \in Readings, Unfinished(n, cut.rest)
  PROVE  Unfinished(n + 1, Cutting(cut, body[n + 1]).rest)
<1> DEFINE rest == cut.rest
           new == Cutting(cut, body[n + 1]).rest
           s == n - Len(rest)
<1>1. n + 1 \in 1..Len(body) /\ rest \in Seq(Ai!Tokens)
  BY DEF Readings
<1>2. CASE body[n + 1] = Newline
  <2>1. new = <<>>
    BY <1>2 DEF Cutting
  <2>2. SubSeq(body, n + 2, n + 1) = <<>>
    BY <1>1
  <2> QED
    BY <1>1, <1>2, <2>1, <2>2 DEF Unfinished
<1>3. CASE body[n + 1] # Newline
  <2>1. new = Append(rest, body[n + 1])
    BY <1>3 DEF Cutting, Readings
  <2>2. Len(new) = Len(rest) + 1 /\ Len(rest) \in Nat
    BY <1>1, <2>1
  <2>3. (n + 1) - Len(new) = s
    BY <1>1, <2>2
  <2>4. /\ s \in 0..n /\ (s = 0 \/ body[s] = Newline) /\ rest = SubSeq(body, s + 1, n)
        /\ \A k \in s + 1..n : body[k] # Newline
    BY DEF Unfinished
  <2>5. new = SubSeq(body, s + 1, n + 1)
    <3>1. s + 1 \in 1..n + 1 /\ n + 1 \in 1..Len(body)
      <4> HIDE DEF s
      <4> QED
        BY <1>1, <2>4
    <3>2. SubSeq(body, s + 1, n + 1) = Append(SubSeq(body, s + 1, n), body[n + 1])
      <4> HIDE DEF s
      <4> QED
        BY <3>1
    <3> QED
      BY <2>1, <2>4, <3>2
  <2>6. \A k \in s + 1..n + 1 : body[k] # Newline
    <3> HIDE DEF s
    <3> QED
      BY <1>1, <1>3, <2>4
  <2>7. s \in 0..n + 1
    BY <2>4, <1>1
  <2>8. Unfinished(n + 1, new)
    <3> HIDE DEF s, new
    <3> QED
      BY <2>3, <2>4, <2>5, <2>6, <2>7 DEF Unfinished
  <2> QED
    BY <2>8
<1> QED
  BY <1>2, <1>3

LEMMA PrefixUnfinished ==
  ASSUME body \in Seq(Ai!Tokens), NEW n \in 0..Len(body)
  PROVE  Unfinished(n, Prefix(n).rest)
<1> DEFINE Bad == {m \in 0..Len(body) : ~Unfinished(m, Prefix(m).rest)}
<1> SUFFICES ASSUME Bad # {} PROVE FALSE
  OBVIOUS
<1>1. PICK m \in Bad : \A j \in Bad : m <= j
  BY LeastNumber, Bad \subseteq Nat
<1>2. m \in 0..Len(body) /\ ~Unfinished(m, Prefix(m).rest)
  OBVIOUS
<1>3. m # 0
  <2>1. Prefix(0).rest = <<>> /\ SubSeq(body, 1, 0) = <<>>
    BY PrefixOfNone DEF Nothing, Cut
  <2>2. Unfinished(0, <<>>)
    <3> DEFINE s == 0 - Len(<<>>)
    <3>0. Len(<<>>) = 0 /\ 0 - 0 = 0
      OBVIOUS
    <3>1. s = 0
      BY <3>0, Zenon
    <3>2. SubSeq(body, s + 1, 0) = <<>> /\ \A k \in s + 1..0 : FALSE
      BY <2>1, <3>1
    <3> QED
      BY <3>1, <3>2 DEF Unfinished
  <2> QED
    BY <1>2, <2>1, <2>2
<1>4. m - 1 \in 0..Len(body) /\ m - 1 # Len(body) /\ m - 1 \notin Bad /\ (m - 1) + 1 = m
  <2> HIDE DEF Bad
  <2> QED
    BY <1>1, <1>2, <1>3
<1>5. Unfinished(m - 1, Prefix(m - 1).rest) /\ Prefix(m - 1) \in Readings
  BY <1>4, PrefixTypes
<1> QED
  BY <1>2, <1>4, <1>5, PrefixStep, UnfinishedStep

-----------------------------------------------------------------------------
\* Reading on from what was left: an answer cut into pieces is read as the whole would be.

LEMMA ConcatAppend ==
  ASSUME NEW S, NEW a \in Seq(S), NEW b \in Seq(S), NEW x \in S
  PROVE  a \o Append(b, x) = Append(a \o b, x)
OBVIOUS

LEMMA NoNewlineNoLine ==
  ASSUME NEW line \in Seq(Ai!Tokens), \A i \in 1..Len(line) : line[i] # Newline
  PROVE  Ai!Lines(line) = Cut(<<>>, line)
<1> DEFINE Bad == {k \in 0..Len(line) : Ai!Lines(SubSeq(line, 1, k)) # Cut(<<>>, SubSeq(line, 1, k))}
<1>1. ASSUME Bad # {} PROVE FALSE
  <2>1. PICK k \in Bad : \A j \in Bad : k <= j
    BY <1>1, LeastNumber, Bad \subseteq Nat
  <2>2. k \in 0..Len(line) /\ Ai!Lines(SubSeq(line, 1, k)) # Cut(<<>>, SubSeq(line, 1, k))
    OBVIOUS
  <2>3. k # 0
    <3>1. SubSeq(line, 1, 0) = <<>>
      OBVIOUS
    <3> QED
      BY <2>2, <3>1, LinesOfNone DEF Nothing
  <2>4. k - 1 \in 0..Len(line) /\ k - 1 \notin Bad
    <3> HIDE DEF Bad
    <3> QED
      BY <2>1, <2>2, <2>3
  <2>5. Ai!Lines(SubSeq(line, 1, k - 1)) = Cut(<<>>, SubSeq(line, 1, k - 1))
    BY <2>4
  <2>6. /\ SubSeq(line, 1, k) = Append(SubSeq(line, 1, k - 1), line[k])
        /\ SubSeq(line, 1, k - 1) \in Seq(Ai!Tokens) /\ line[k] \in Ai!Tokens /\ line[k] # Newline
    BY <2>2, <2>3
  <2>7. Ai!Lines(SubSeq(line, 1, k)) = Cutting(Cut(<<>>, SubSeq(line, 1, k - 1)), line[k])
    BY <2>5, <2>6, LinesOfMore
  <2>8. Cutting(Cut(<<>>, SubSeq(line, 1, k - 1)), line[k]) = Cut(<<>>, SubSeq(line, 1, k))
    BY <2>6 DEF Cutting, Cut
  <2> QED
    BY <2>2, <2>7, <2>8
<1>2. Len(line) \in 0..Len(line) /\ SubSeq(line, 1, Len(line)) = line
  OBVIOUS
<1> QED
  BY <1>1, <1>2

LEMMA ReadingOn ==
  ASSUME body \in Seq(Ai!Tokens), NEW n \in 0..Len(body), NEW m \in n..Len(body)
  PROVE  LET cut == Ai!Lines(Prefix(n).rest \o SubSeq(body, n + 1, m))
         IN  /\ cut \in Readings /\ cut.rest = Prefix(m).rest
             /\ Prefix(m).text = Prefix(n).text \o cut.text
<1> DEFINE rest == Prefix(n).rest
           piece(k) == rest \o SubSeq(body, n + 1, k)
           Right(k) == /\ Ai!Lines(piece(k)) \in Readings /\ Ai!Lines(piece(k)).rest = Prefix(k).rest
                       /\ Prefix(k).text = Prefix(n).text \o Ai!Lines(piece(k)).text
           Bad == {k \in n..Len(body) : ~Right(k)}
<1> SUFFICES ASSUME Bad # {} PROVE FALSE
  OBVIOUS
<1>0. Bad \subseteq Nat
  <2>1. \A k \in n..Len(body) : k \in Nat
    OBVIOUS
  <2> HIDE DEF Right
  <2> QED
    BY <2>1
<1>1. PICK k \in Bad : \A j \in Bad : k <= j
  BY <1>0, LeastNumber
<1>2. k \in n..Len(body) /\ ~Right(k)
  OBVIOUS
<1>3. Prefix(n) \in Readings /\ rest \in Seq(Ai!Tokens) /\ Prefix(n).text \in Seq(Deltas)
  BY PrefixTypes DEF Readings
<1>4. k # n
  <2>1. SubSeq(body, n + 1, n) = <<>>
    OBVIOUS
  <2>2. piece(n) = rest
    BY <1>3, <2>1
  <2>3. \A i \in 1..Len(rest) : rest[i] # Newline
    <3>1. Unfinished(n, rest)
      BY PrefixUnfinished
    <3> DEFINE s == n - Len(rest)
    <3>2. /\ s \in 0..n /\ rest = SubSeq(body, s + 1, n) /\ \A i \in s + 1..n : body[i] # Newline
      BY <3>1 DEF Unfinished
    <3>3. \A i \in 1..Len(rest) : s + i \in s + 1..n
      BY <1>3, <3>2
    <3>4. \A i \in 1..Len(rest) : rest[i] = body[s + i]
      <4>1. Len(rest) \in Nat
        BY <1>3
      <4>2. s = n - Len(rest)
        OBVIOUS
      <4> HIDE DEF rest, s
      <4>3. Len(rest) = n - s
        BY <4>1, <4>2, <3>2
      <4>4. \A i \in 1..n - s : SubSeq(body, s + 1, n)[i] = body[s + i]
        BY <3>2
      <4> QED
        BY <3>2, <4>3, <4>4
    <3> QED
      BY <3>2, <3>3, <3>4
  <2> HIDE DEF rest
  <2>4. Ai!Lines(rest) = Cut(<<>>, rest)
    BY <1>3, <2>3, NoNewlineNoLine
  <2>5. Cut(<<>>, rest) \in Readings /\ Cut(<<>>, rest).rest = rest /\ Cut(<<>>, rest).text = <<>>
    BY <1>3 DEF Cut, Readings
  <2>7. Ai!Lines(piece(n)) = Cut(<<>>, rest)
    BY <2>2, <2>4
  <2>8. Prefix(n).text \o <<>> = Prefix(n).text
    <3> HIDE DEF Prefix
    <3> QED
      BY <1>3
  <2>9. rest = Prefix(n).rest
    BY DEF rest
  <2> HIDE DEF piece, Prefix
  <2>6. Right(n)
    BY <2>5, <2>7, <2>8, <2>9
  <2> QED
    BY <1>2, <2>6
<1>5. /\ k - 1 \in n..Len(body) /\ k - 1 \in 0..Len(body) /\ k - 1 # Len(body) /\ (k - 1) + 1 = k
      /\ k - 1 \notin Bad
  <2> HIDE DEF Bad
  <2> QED
    BY <1>1, <1>2, <1>4
<1>6. Right(k - 1)
  BY <1>5
<1> DEFINE tok == body[k]
           cut == Ai!Lines(piece(k - 1))
           before == Prefix(k - 1)
<1>7. Prefix(k) = Cutting(before, tok) /\ tok \in Ai!Tokens /\ before \in Readings
  BY <1>5, PrefixStep, PrefixTypes
<1>8. piece(k) = Append(piece(k - 1), tok) /\ piece(k - 1) \in Seq(Ai!Tokens)
  <2>1. /\ SubSeq(body, n + 1, k) = Append(SubSeq(body, n + 1, k - 1), tok)
        /\ SubSeq(body, n + 1, k - 1) \in Seq(Ai!Tokens)
    BY <1>2, <1>4
  <2>2. rest \o Append(SubSeq(body, n + 1, k - 1), tok) = Append(rest \o SubSeq(body, n + 1, k - 1), tok)
    <3> DEFINE shorter == SubSeq(body, n + 1, k - 1)
    <3>1. rest \in Seq(Ai!Tokens) /\ shorter \in Seq(Ai!Tokens) /\ tok \in Ai!Tokens
      BY <1>3, <1>7, <2>1
    <3> HIDE DEF rest, tok, shorter
    <3>2. rest \o Append(shorter, tok) = Append(rest \o shorter, tok)
      BY <3>1, ConcatAppend
    <3> QED
      BY <3>2 DEF shorter
  <2>3. rest \o SubSeq(body, n + 1, k - 1) \in Seq(Ai!Tokens)
    <3> HIDE DEF rest
    <3> QED
      BY <1>3, <2>1
  <2> HIDE DEF rest, tok
  <2> QED
    BY <2>1, <2>2, <2>3
<1>9. Ai!Lines(piece(k)) = Cutting(cut, tok) /\ cut \in Readings /\ cut.rest = before.rest
      /\ before.text = Prefix(n).text \o cut.text
  <2> HIDE DEF tok, before
  <2>1. Ai!Lines(piece(k)) = Cutting(cut, tok)
    <3> HIDE DEF piece
    <3> QED
      BY <1>7, <1>8, LinesOfMore
  <2> QED
    BY <1>6, <2>1 DEF before
<1> HIDE DEF before, cut, tok, piece
<1>10. Cutting(cut, tok) \in Readings
  BY <1>7, <1>9, CuttingTypes
<1>11. Cutting(cut, tok).rest = Cutting(before, tok).rest
  BY <1>7, <1>9 DEF Cutting, Readings
<1>12. Cutting(before, tok).text = Prefix(n).text \o Cutting(cut, tok).text
  <2>1. cut.text \in Seq(Deltas) /\ before.text \in Seq(Deltas) /\ Ai!DeltasOn(cut.rest) \in Seq(Deltas)
    <3>1. cut.text \in Seq(Deltas) /\ before.text \in Seq(Deltas) /\ cut.rest \in Seq(Ai!Tokens)
      BY <1>7, <1>9 DEF Readings
    <3> QED
      BY <3>1, DeltaTypes
  <2>2. CASE tok = Newline
    <3>1. /\ Cutting(before, tok).text = before.text \o Ai!DeltasOn(cut.rest)
          /\ Cutting(cut, tok).text = cut.text \o Ai!DeltasOn(cut.rest)
      BY <1>9, <2>2 DEF Cutting
    <3> DEFINE a == Prefix(n).text
               b == cut.text
               c == Ai!DeltasOn(cut.rest)
    <3>2. a \in Seq(Deltas) /\ b \in Seq(Deltas) /\ c \in Seq(Deltas) /\ before.text = a \o b
      BY <1>3, <1>9, <2>1
    <3> HIDE DEF a, b, c
    <3>3. (a \o b) \o c = a \o (b \o c)
      BY <3>2
    <3> QED
      BY <3>1, <3>2, <3>3 DEF a, b, c
  <2>3. CASE tok # Newline
    BY <1>7, <1>9, <2>3 DEF Cutting, Readings
  <2> QED
    BY <2>2, <2>3
<1> QED
  BY <1>2, <1>7, <1>9, <1>10, <1>11, <1>12

-----------------------------------------------------------------------------
\* The lines that carry a delta among the first n bytes, and what the app has been given of them.
Carrying(n) == {l \in Ai!LinesWithin(n) : Ai!DeltasOn(SubSeq(body, l[1], l[2])) # <<>>}
Exact(n, given) ==
  /\ Len(given) = Cardinality(Carrying(n))
  /\ \A l \in Carrying(n) :
       given[1 + Cardinality({k \in Carrying(n) : k[1] < l[1]})] = body[l[2]]

LEMMA SameCardinality == ASSUME NEW S PROVE Ai!Cardinality(S) = Cardinality(S)
BY Zenon DEF Ai!Cardinality, Cardinality

LEMMA CarryingFinite == ASSUME NEW n \in Nat PROVE IsFiniteSet(Carrying(n))
<1>1. IsFiniteSet(1..n) /\ IsFiniteSet(0..n)
  BY FS_Interval
<1>2. IsFiniteSet((1..n) \X (0..n))
  BY <1>1, FS_Product
<1>3. Carrying(n) \subseteq (1..n) \X (0..n)
  BY DEF Carrying, Ai!LinesWithin
<1> QED
  BY <1>2, <1>3, FS_Subset

\* A byte that is no newline ends no line.
LEMMA NoLineMore ==
  ASSUME body \in Seq(Ai!Tokens), NEW n \in 0..Len(body), n # Len(body), body[n + 1] # Newline
  PROVE  Ai!LinesWithin(n + 1) = Ai!LinesWithin(n)
<1>1. ASSUME NEW i, NEW j
      PROVE  i \in 1..n + 1 /\ j \in 0..n + 1 /\ Ai!IsLine(i, j, n + 1)
               <=> i \in 1..n /\ j \in 0..n /\ Ai!IsLine(i, j, n)
  BY DEF Ai!IsLine
<1> QED
  BY <1>1 DEF Ai!LinesWithin

\* A newline ends one line, the one that was unfinished, behind all others.
LEMMA OneLineMore ==
  ASSUME body \in Seq(Ai!Tokens), NEW n \in 0..Len(body), n # Len(body), body[n + 1] = Newline,
         NEW s \in 0..n, s = 0 \/ body[s] = Newline, \A k \in s + 1..n : body[k] # Newline
  PROVE  /\ Ai!LinesWithin(n + 1) = Ai!LinesWithin(n) \cup {<<s + 1, n>>}
         /\ \A l \in Ai!LinesWithin(n) : l[1] \in Nat /\ l[1] < s + 1
<1>1. ASSUME NEW i \in 1..n, NEW j \in 0..n, Ai!IsLine(i, j, n)
      PROVE  i < s + 1 /\ Ai!IsLine(i, j, n + 1)
  <2>1. j + 1 \in 1..n /\ body[j + 1] = Newline /\ i <= j + 1
    BY <1>1 DEF Ai!IsLine
  <2>2. j + 1 <= s
    BY <2>1
  <2> QED
    BY <1>1, <2>1, <2>2 DEF Ai!IsLine
<1>2. ASSUME NEW i \in 1..n + 1, NEW j \in 0..n + 1, Ai!IsLine(i, j, n + 1)
      PROVE  (i = s + 1 /\ j = n) \/ (i \in 1..n /\ j \in 0..n /\ Ai!IsLine(i, j, n))
  <2>1. /\ i = 1 \/ body[i - 1] = Newline
        /\ j >= i - 1 /\ j < n + 1 /\ body[j + 1] = Newline
        /\ \A k \in i..j : body[k] # Newline
    BY <1>2 DEF Ai!IsLine
  <2>2. CASE j < n
    BY <2>1, <2>2 DEF Ai!IsLine
  <2>3. CASE j = n
    <3>1. ~(i < s + 1)
      <4>1. ASSUME i < s + 1 PROVE FALSE
        <5>1. s \in i..j /\ s # 0
          BY <2>3, <4>1
        <5> QED
          BY <2>1, <5>1
      <4> QED
        BY <4>1
    <3>2. ~(i > s + 1)
      <4>1. ASSUME i > s + 1 PROVE FALSE
        <5>1. i - 1 \in s + 1..n /\ i # 1
          BY <4>1
        <5> QED
          BY <2>1, <5>1
      <4> QED
        BY <4>1
    <3> QED
      BY <2>3, <3>1, <3>2
  <2> QED
    BY <2>1, <2>2, <2>3
<1>3. Ai!IsLine(s + 1, n, n + 1)
  <2>1. s + 1 = 1 \/ body[(s + 1) - 1] = Newline
    <3>1. (s + 1) - 1 = s
      OBVIOUS
    <3> QED
      BY <3>1
  <2> QED
    BY <2>1 DEF Ai!IsLine
<1>4. s + 1 \in 1..n + 1 /\ n \in 0..n + 1
  OBVIOUS
<1>5. Ai!LinesWithin(n) \cup {<<s + 1, n>>} \subseteq Ai!LinesWithin(n + 1)
  <2>1. <<s + 1, n>> \in Ai!LinesWithin(n + 1)
    BY <1>3, <1>4 DEF Ai!LinesWithin
  <2>2. ASSUME NEW l \in Ai!LinesWithin(n) PROVE l \in Ai!LinesWithin(n + 1)
    <3>1. l = <<l[1], l[2]>> /\ l[1] \in 1..n /\ l[2] \in 0..n /\ Ai!IsLine(l[1], l[2], n)
      BY DEF Ai!LinesWithin
    <3>2. Ai!IsLine(l[1], l[2], n + 1)
      BY <1>1, <3>1
    <3> QED
      BY <3>1, <3>2 DEF Ai!LinesWithin
  <2> QED
    BY <2>1, <2>2
<1>6. Ai!LinesWithin(n + 1) \subseteq Ai!LinesWithin(n) \cup {<<s + 1, n>>}
  <2> SUFFICES ASSUME NEW l \in Ai!LinesWithin(n + 1) PROVE l \in Ai!LinesWithin(n) \/ l = <<s + 1, n>>
    OBVIOUS
  <2>1. /\ l = <<l[1], l[2]>> /\ l[1] \in 1..n + 1 /\ l[2] \in 0..n + 1
        /\ Ai!IsLine(l[1], l[2], n + 1)
    BY DEF Ai!LinesWithin
  <2>2. (l[1] = s + 1 /\ l[2] = n) \/ (l[1] \in 1..n /\ l[2] \in 0..n /\ Ai!IsLine(l[1], l[2], n))
    BY <1>2, <2>1
  <2> QED
    BY <2>1, <2>2 DEF Ai!LinesWithin
<1>7. ASSUME NEW l \in Ai!LinesWithin(n) PROVE l[1] \in Nat /\ l[1] < s + 1
  <2>1. l[1] \in 1..n /\ l[2] \in 0..n /\ Ai!IsLine(l[1], l[2], n)
    BY DEF Ai!LinesWithin
  <2> QED
    BY <1>1, <2>1
<1> QED
  BY <1>5, <1>6, <1>7

LEMMA ExactStep ==
  ASSUME body \in Seq(Ai!Tokens), NEW n \in 0..Len(body), n # Len(body),
         NEW cut \in Readings, Unfinished(n, cut.rest), Exact(n, cut.text)
  PROVE  Exact(n + 1, Cutting(cut, body[n + 1]).text)
<1> DEFINE given == cut.text
           rest == cut.rest
           s == n - Len(rest)
<1>1. /\ s \in 0..n /\ (s = 0 \/ body[s] = Newline) /\ (\A k \in s + 1..n : body[k] # Newline)
      /\ rest = SubSeq(body, s + 1, n) /\ given \in Seq(Deltas) /\ rest \in Seq(Ai!Tokens)
  BY DEF Unfinished, Readings
<1>2. CASE body[n + 1] # Newline
  <2>1. Cutting(cut, body[n + 1]).text = given
    BY <1>2 DEF Cutting, Readings
  <2>2. Carrying(n + 1) = Carrying(n)
    BY <1>2, NoLineMore DEF Carrying
  <2> HIDE DEF given
  <2> QED
    BY <2>1, <2>2 DEF Exact, given
<1>3. CASE body[n + 1] = Newline
  <2> DEFINE new == <<s + 1, n>>
             delta == Ai!DeltasOn(rest)
  <2>1. Cutting(cut, body[n + 1]).text = given \o delta
    BY <1>3 DEF Cutting
  <2>2. /\ Ai!LinesWithin(n + 1) = Ai!LinesWithin(n) \cup {new}
        /\ \A l \in Ai!LinesWithin(n) : l[1] \in Nat /\ l[1] < s + 1
    <3> HIDE DEF s
    <3> QED
      BY <1>1, <1>3, OneLineMore
  <2>3. new[1] = s + 1 /\ new[2] = n /\ SubSeq(body, new[1], new[2]) = rest
    BY <1>1
  <2> HIDE DEF new, s, rest
  <2>4. CASE delta = <<>>
    <3>1. Carrying(n + 1) = Carrying(n)
      BY <2>2, <2>3, <2>4 DEF Carrying
    <3>2. given \o delta = given
      <4>1. given \in Seq(Deltas)
        BY <1>1
      <4> HIDE DEF given, delta
      <4> QED
        BY <2>4, <4>1
    <3> HIDE DEF given, delta
    <3> QED
      BY <2>1, <3>1, <3>2 DEF Exact, given
  <2>5. CASE delta # <<>>
    <3>1. Carrying(n + 1) = Carrying(n) \cup {new}
      BY <2>2, <2>3, <2>5 DEF Carrying
    <3>2. \A l \in Carrying(n) : l[1] \in Nat /\ l[1] < s + 1
      BY <2>2 DEF Carrying
    <3>3. new \notin Carrying(n)
      BY <1>1, <2>3, <3>2
    <3>4. IsFiniteSet(Carrying(n)) /\ Cardinality(Carrying(n)) \in Nat
      BY CarryingFinite, FS_CardinalityType
    <3>5. Cardinality(Carrying(n + 1)) = Cardinality(Carrying(n)) + 1
      BY <3>1, <3>3, <3>4, FS_AddElement
    <3>6. delta = <<body[n]>>
      <4>1. delta = <<rest[2]>> /\ Len(rest) = 2
        BY <2>5 DEF Ai!DeltasOn
      <4>2. s = n - 2
        BY <4>1 DEF s
      <4>3. rest[2] = body[s + 2]
        <5>1. s \in 0..n /\ n <= Len(body) /\ 2 \in 1..n - s
          BY <1>1, <4>2
        <5>2. \A i \in 1..n - s : SubSeq(body, s + 1, n)[i] = body[s + i]
          BY <5>1
        <5>3. SubSeq(body, s + 1, n)[2] = body[s + 2]
          BY <5>1, <5>2
        <5> QED
          BY <1>1, <5>3
      <4>4. s + 2 = n
        BY <4>2
      <4> QED
        BY <4>1, <4>3, <4>4
    <3> DEFINE text2 == given \o <<body[n]>>
    <3>7. /\ Len(text2) = Len(given) + 1 /\ text2[Len(given) + 1] = body[n]
          /\ \A i \in 1..Len(given) : text2[i] = given[i]
      <4> HIDE DEF given
      <4> QED
        BY <1>1
    <3> HIDE DEF text2, given, delta
    <3>8. Len(given) = Cardinality(Carrying(n))
      BY DEF Exact, given
    <3>9. ASSUME NEW l \in Carrying(n + 1)
          PROVE  text2[1 + Cardinality({k \in Carrying(n + 1) : k[1] < l[1]})] = body[l[2]]
      <4>1. CASE l = new
        <5>1. {k \in Carrying(n + 1) : k[1] < l[1]} = Carrying(n)
          BY <1>1, <2>3, <3>1, <3>2, <4>1
        <5>2. 1 + Cardinality(Carrying(n)) = Len(given) + 1
          BY <3>4, <3>8
        <5> QED
          BY <2>3, <3>7, <4>1, <5>1, <5>2
      <4>2. CASE l # new
        <5> DEFINE before == {k \in Carrying(n) : k[1] < l[1]}
        <5>1. l \in Carrying(n)
          BY <3>1, <4>2
        <5>2. {k \in Carrying(n + 1) : k[1] < l[1]} = before
          BY <1>1, <2>3, <3>1, <3>2, <5>1
        <5>3. given[1 + Cardinality(before)] = body[l[2]]
          BY <5>1 DEF Exact, given
        <5>4. 1 + Cardinality(before) \in 1..Len(given)
          <6>1. before \subseteq Carrying(n) /\ before # Carrying(n)
            BY <3>2, <5>1
          <6>2. IsFiniteSet(before) /\ Cardinality(before) \in Nat
                /\ Cardinality(before) < Cardinality(Carrying(n))
            <7> HIDE DEF before
            <7> QED
              BY <3>4, <6>1, FS_Subset, FS_CardinalityType
          <6> HIDE DEF before
          <6> QED
            BY <3>4, <3>8, <6>2
        <5> HIDE DEF before
        <5> QED
          BY <3>7, <5>2, <5>3, <5>4
      <4> QED
        BY <4>1, <4>2
    <3>10. Len(text2) = Cardinality(Carrying(n + 1))
      BY <3>5, <3>7, <3>8
    <3>11. Cutting(cut, body[n + 1]).text = text2
      BY <2>1, <3>6 DEF text2
    <3> QED
      BY <3>9, <3>10, <3>11 DEF Exact
  <2> QED
    BY <2>4, <2>5
<1> QED
  BY <1>2, <1>3

LEMMA PrefixExact ==
  ASSUME body \in Seq(Ai!Tokens), NEW n \in 0..Len(body)
  PROVE  Exact(n, Prefix(n).text)
<1> DEFINE Bad == {m \in 0..Len(body) : ~Exact(m, Prefix(m).text)}
<1> SUFFICES ASSUME Bad # {} PROVE FALSE
  OBVIOUS
<1>1. PICK m \in Bad : \A j \in Bad : m <= j
  BY LeastNumber, Bad \subseteq Nat
<1>2. m \in 0..Len(body) /\ ~Exact(m, Prefix(m).text)
  OBVIOUS
<1>3. m # 0
  <2>1. Prefix(0).text = <<>> /\ Len(<<>>) = 0
    BY PrefixOfNone DEF Nothing, Cut
  <2>2. Carrying(0) = {}
    BY DEF Carrying, Ai!LinesWithin
  <2>3. Exact(0, <<>>)
    BY <2>1, <2>2, FS_EmptySet DEF Exact
  <2> QED
    BY <1>2, <2>1, <2>3
<1>4. m - 1 \in 0..Len(body) /\ m - 1 # Len(body) /\ m - 1 \notin Bad /\ (m - 1) + 1 = m
  <2> HIDE DEF Bad
  <2> QED
    BY <1>1, <1>2, <1>3
<1>5. Exact(m - 1, Prefix(m - 1).text)
  BY <1>4
<1> QED
  BY <1>2, <1>4, <1>5, PrefixStep, PrefixTypes, PrefixUnfinished, ExactStep

-----------------------------------------------------------------------------
(* Reading an answer                                                       *)

\* While it reads, what is left over and what was handed on are what the bytes taken so far come to.
AiInv ==
  /\ can \in BOOLEAN /\ retried \in BOOLEAN /\ reported \in BOOLEAN
  /\ call \in {"new", "asked", "renewing", "reading", "done", "failed"}
  /\ body \in Seq(Ai!Tokens) /\ taken \in 0..Len(body)
  /\ buf \in Seq(Ai!Tokens) /\ text \in Seq(Deltas)
  /\ error \in Ai!Errors \cup {"none"}
  /\ call # "failed" => buf = Prefix(taken).rest /\ text = Prefix(taken).text

LEMMA AiInit ==
  ASSUME NEW able \in BOOLEAN, NEW answer \in Seq(Ai!Tokens), Ai!InitWith(able, answer)
  PROVE  AiInv
<1>1. body \in Seq(Ai!Tokens) /\ taken = 0
  BY DEF Ai!InitWith
<1>2. Prefix(0) = Nothing
  BY <1>1, PrefixOfNone
<1>3. buf = Prefix(taken).rest /\ text = Prefix(taken).text
  BY <1>1, <1>2 DEF Ai!InitWith, Nothing, Cut
<1>4. <<>> \in Seq(Deltas) /\ <<>> \in Seq(Ai!Tokens)
  OBVIOUS
<1>5. taken \in 0..Len(body)
  BY <1>1
<1> QED
  BY <1>1, <1>3, <1>4, <1>5 DEF AiInv, Ai!InitWith

LEMMA AiRead ==
  ASSUME AiInv, call = "reading", NEW upTo \in taken + 1..Len(body)
  PROVE  LET cut == Ai!Lines(buf \o SubSeq(body, taken + 1, upTo))
         IN  /\ cut \in Readings /\ upTo \in 0..Len(body)
             /\ cut.rest = Prefix(upTo).rest /\ text \o cut.text = Prefix(upTo).text
<1>1. /\ body \in Seq(Ai!Tokens) /\ taken \in 0..Len(body) /\ upTo \in taken..Len(body)
      /\ upTo \in 0..Len(body) /\ buf = Prefix(taken).rest /\ text = Prefix(taken).text
  BY DEF AiInv
<1> QED
  BY <1>1, ReadingOn

LEMMA AiStep == AiInv /\ [Ai!Next]_(Ai!streamVars) => AiInv'
<1> SUFFICES ASSUME AiInv, [Ai!Next]_(Ai!streamVars) PROVE AiInv'
  OBVIOUS
<1> USE DEF AiInv, Ai!Errors
<1>1. ASSUME UNCHANGED <<body, taken, buf, text, can>>, call' = "failed" \/ call # "failed",
             call' \in {"new", "asked", "renewing", "reading", "done", "failed"},
             retried' \in BOOLEAN, reported' \in BOOLEAN, error' \in Ai!Errors \cup {"none"}
      PROVE  AiInv'
  BY <1>1 DEF Prefix
<1>2. CASE Ai!Read
  <2>1. PICK upTo \in taken + 1..Len(body) :
          LET cut == Ai!Lines(buf \o SubSeq(body, taken + 1, upTo))
          IN  taken' = upTo /\ buf' = cut.rest /\ text' = text \o cut.text
    BY <1>2 DEF Ai!Read
  <2> DEFINE cut == Ai!Lines(buf \o SubSeq(body, taken + 1, upTo))
  <2>2. /\ cut \in Readings /\ upTo \in 0..Len(body)
        /\ cut.rest = Prefix(upTo).rest /\ text \o cut.text = Prefix(upTo).text
    BY <1>2, AiRead DEF Ai!Read
  <2>3. taken' = upTo /\ buf' = cut.rest /\ text' = text \o cut.text /\ body' = body
    BY <1>2, <2>1 DEF Ai!Read
  <2>4. cut.rest \in Seq(Ai!Tokens) /\ cut.text \in Seq(Deltas)
    BY <2>2 DEF Readings
  <2> HIDE DEF cut
  <2>5. text \o cut.text \in Seq(Deltas)
    BY <2>4
  <2>6. Prefix(taken)' = Prefix(upTo)
    BY <2>3 DEF Prefix
  <2>7. UNCHANGED <<can, call, retried, body, error, reported>>
    BY <1>2 DEF Ai!Read
  <2> QED
    BY <2>2, <2>3, <2>4, <2>5, <2>6, <2>7
<1>3. CASE Ai!ThrowingCallback
  <2>1. PICK upTo \in taken + 1..Len(body) :
          LET cut == Ai!Lines(buf \o SubSeq(body, taken + 1, upTo))
          IN  \E n \in 1..Len(cut.text) : text' = text \o SubSeq(cut.text, 1, n)
    BY <1>3 DEF Ai!ThrowingCallback
  <2> DEFINE cut == Ai!Lines(buf \o SubSeq(body, taken + 1, upTo))
  <2>2. cut.text \in Seq(Deltas)
    BY <1>3, AiRead DEF Ai!ThrowingCallback, Readings
  <2>3. PICK n \in 1..Len(cut.text) : text' = text \o SubSeq(cut.text, 1, n)
    BY <2>1
  <2> HIDE DEF cut
  <2>4. text' \in Seq(Deltas)
    <3>1. SubSeq(cut.text, 1, n) \in Seq(Deltas)
      BY <2>2
    <3> QED
      BY <2>3, <3>1
  <2>5. call' = "failed" /\ error' = "callback" /\ UNCHANGED <<can, retried, body, taken, buf, reported>>
    BY <1>3 DEF Ai!ThrowingCallback, Ai!Reject
  <2> QED
    BY <2>4, <2>5
<1>4. CASE Ai!Stream
  BY <1>1, <1>4 DEF Ai!Stream, Ai!Reject, Ai!Reading
<1>5. CASE Ai!Revoked
  BY <1>1, <1>5 DEF Ai!Revoked, Ai!Reject, Ai!Reading
<1>6. CASE Ai!Unauthorized
  BY <1>1, <1>6 DEF Ai!Unauthorized, Ai!Reject, Ai!Reading
<1>7. CASE Ai!Renewed
  BY <1>1, <1>7 DEF Ai!Renewed, Ai!Reading
<1>8. CASE Ai!NotRenewed
  BY <1>1, <1>8 DEF Ai!NotRenewed, Ai!Reject, Ai!Reading
<1>9. CASE Ai!Refused
  BY <1>1, <1>9 DEF Ai!Refused, Ai!Reject, Ai!Reading
<1>10. CASE Ai!Accepted
  BY <1>1, <1>10 DEF Ai!Accepted, Ai!Reading
<1>11. CASE Ai!Broken
  BY <1>1, <1>11 DEF Ai!Broken, Ai!Reject, Ai!Reading
<1>12. CASE Ai!End
  BY <1>1, <1>12 DEF Ai!End, Ai!Reading
<1>13. CASE UNCHANGED Ai!streamVars
  BY <1>1, <1>13 DEF Ai!streamVars
<1> QED
  BY <1>2, <1>3, <1>4, <1>5, <1>6, <1>7, <1>8, <1>9, <1>10, <1>11, <1>12, <1>13 DEF Ai!Next

LEMMA AiPart ==
  AllSpec => (\E able \in BOOLEAN, answer \in Seq(Ai!Tokens) : Ai!InitWith(able, answer))
             /\ [][Ai!Next]_(Ai!streamVars)
<1>1. AllInit => \E able \in BOOLEAN, answer \in Seq(Ai!Tokens) : Ai!InitWith(able, answer)
  <2>1. Bodies \subseteq Seq(Ai!Tokens)
    BY SandboxAssumption DEF Ai!Tokens
  <2>2. <<>> \in Seq(Ai!Tokens) /\ TRUE \in BOOLEAN
    OBVIOUS
  <2> QED
    BY <2>1, <2>2 DEF AllInit, Ai!Init
<1>2. [AllNext]_allVars => [Ai!Next]_(Ai!streamVars)
  BY DEF AllNext, Only, allVars, aiV, Ai!streamVars
<1> QED
  BY <1>1, <1>2, PTL DEF AllSpec

LEMMA AiInvariant == AllSpec => []AiInv
<1>1. (\E able \in BOOLEAN, answer \in Seq(Ai!Tokens) : Ai!InitWith(able, answer)) => AiInv
  BY AiInit
<1> QED
  BY <1>1, AiStep, AiPart, PTL

\* aiStream() of runtime.ts: the text handed on is one delta for each line of the answer read so far
\* that carries one, in their order, however the answer was cut into pieces.
THEOREM StreamsAreExact == AllSpec => []StreamExact
<1>1. ASSUME AiInv PROVE StreamExact
  <2>1. call # "failed" => Exact(taken, text)
    BY <1>1, PrefixExact DEF AiInv
  <2>2. call # "failed" =>
          /\ Len(text) = Cardinality(Carrying(taken))
          /\ \A l \in Carrying(taken) :
               text[1 + Cardinality({k \in Carrying(taken) : k[1] < l[1]})] = body[l[2]]
    BY <2>1, Zenon DEF Exact
  <2>3. call \in {"new", "asked", "renewing", "reading", "done"} => call # "failed"
    OBVIOUS
  <2> QED
    BY <2>2, <2>3, SameCardinality, Zenon DEF StreamExact, Ai!StreamExact, Carrying
<1> QED
  BY <1>1, AiInvariant, PTL

-----------------------------------------------------------------------------
(* The types of the parts                                                  *)

\* A store's generations are twice its starts, but that of a start that runs.
Running(s) == IF mounted[s] > 0 THEN 1 ELSE 0
GenerationsMade == \A s \in React!Stores : generation[s] = 2 * started[s] - Running(s)
ReactInv == React!TypeOK /\ GenerationsMade

LEMMA ReactInit == React!Init => ReactInv
<1> SUFFICES ASSUME React!Init PROVE ReactInv
  OBVIOUS
<1>1. 0 \in 0..MaxMounts /\ 0 \in 0..MaxStarts /\ 0 \in 0..2 * MaxStarts
  BY SandboxAssumption
<1>2. React!TypeOK
  BY <1>1 DEF React!Init, React!TypeOK
<1>3. GenerationsMade
  BY DEF React!Init, GenerationsMade, Running
<1> QED
  BY <1>2, <1>3 DEF ReactInv

\* What leaves the starts alone.
LEMMA SameStarts ==
  ASSUME ReactInv, React!TypeOK', UNCHANGED <<mounted, started, generation>> PROVE ReactInv'
BY DEF ReactInv, GenerationsMade, Running

LEMMA PublishTypes ==
  ASSUME React!TypeOK, NEW s \in React!Stores,
         NEW st \in {"loading", "ready", "error"}, NEW err \in BOOLEAN, React!Publish(s, st, err)
  PROVE  status' \in [React!Stores -> {"loading", "ready", "error"}]
         /\ failed' \in [React!Stores -> BOOLEAN]
BY DEF React!Publish, React!TypeOK

LEMMA MountTypes == ASSUME ReactInv, NEW s \in React!Stores, React!Mount(s) PROVE ReactInv'
<1> USE SandboxAssumption
<1>1. /\ mounted[s] \in 0..MaxMounts /\ started[s] \in 0..MaxStarts
      /\ generation[s] = 2 * started[s] - Running(s)
  BY DEF ReactInv, React!TypeOK, GenerationsMade
<1>2. mounted' = [mounted EXCEPT ![s] = mounted[s] + 1] /\ mounted[s] + 1 \in 1..MaxMounts
      /\ UNCHANGED <<ready, status, failed, busy, mutation>>
  BY <1>1 DEF React!Mount
<1>3. CASE mounted[s] > 0
  <2>1. UNCHANGED <<started, generation, waiting, attached>>
    BY <1>3 DEF React!Mount
  <2>2. React!TypeOK'
    BY <1>2, <2>1 DEF ReactInv, React!TypeOK
  <2>3. \A q \in React!Stores : Running(q)' = Running(q)
    BY <1>1, <1>2, <1>3 DEF Running, ReactInv, React!TypeOK
  <2> QED
    BY <2>1, <2>2, <2>3 DEF ReactInv, GenerationsMade
<1>4. CASE ~(mounted[s] > 0)
  <2>1. generation[s] = 2 * started[s] /\ started[s] < MaxStarts
    BY <1>1, <1>4 DEF React!Mount, Running
  <2>2. /\ started' = [started EXCEPT ![s] = started[s] + 1]
        /\ generation' = [generation EXCEPT ![s] = generation[s] + 1]
    BY <1>4 DEF React!Mount
  <2>3. started[s] + 1 \in 0..MaxStarts /\ generation[s] + 1 \in 1..2 * MaxStarts
    BY <1>1, <2>1
  <2>4. started' \in [React!Stores -> 0..MaxStarts] /\ generation' \in [React!Stores -> 0..2 * MaxStarts]
        /\ generation'[s] = generation[s] + 1 /\ mounted' \in [React!Stores -> 0..MaxMounts]
    BY <1>2, <2>2, <2>3 DEF ReactInv, React!TypeOK
  <2>5. waiting' \in [React!Stores -> SUBSET React!Generations]
        /\ attached' \in [React!Stores -> SUBSET React!Generations]
    <3>1. generation'[s] \in React!Generations
      BY <2>3, <2>4 DEF React!Generations
    <3>2. /\ waiting' = [waiting EXCEPT ![s] = waiting[s] \cup {generation'[s]}]
          /\ attached' = [attached EXCEPT ![s] = IF s = "session" THEN attached[s] \cup {generation'[s]}
                                                 ELSE attached[s]]
      BY <1>4 DEF React!Mount
    <3> QED
      BY <3>1, <3>2 DEF ReactInv, React!TypeOK
  <2>6. React!TypeOK'
    BY <1>2, <2>4, <2>5 DEF ReactInv, React!TypeOK
  <2>7. ASSUME NEW q \in React!Stores PROVE generation'[q] = 2 * started'[q] - Running(q)'
    <3>1. CASE q = s
      BY <1>1, <1>2, <2>1, <2>2, <3>1 DEF Running, ReactInv, React!TypeOK
    <3>2. CASE q # s
      BY <1>2, <2>2, <3>2 DEF Running, ReactInv, React!TypeOK, GenerationsMade
    <3> QED
      BY <3>1, <3>2
  <2> QED
    BY <2>6, <2>7 DEF ReactInv, GenerationsMade
<1> QED
  BY <1>3, <1>4

\* The generation of a store that has been started k times and is running becomes even, and in range.
LEMMA Evened ==
  ASSUME NEW m \in Nat, NEW k \in 0..m, NEW g \in Int, g = 2 * k - 1
  PROVE  g + 1 \in 0..2 * m
OBVIOUS

LEMMA UnmountTypes == ASSUME ReactInv, NEW s \in React!Stores, React!Unmount(s) PROVE ReactInv'
<1>0. MaxStarts \in Nat /\ MaxMounts \in Nat
  BY SandboxAssumption
<1>1. /\ mounted[s] \in 1..MaxMounts /\ started[s] \in 0..MaxStarts
      /\ generation[s] = 2 * started[s] - 1 /\ generation[s] \in Int
  BY <1>0 DEF ReactInv, React!TypeOK, GenerationsMade, React!Unmount, Running
<1>2. mounted' = [mounted EXCEPT ![s] = mounted[s] - 1] /\ mounted[s] - 1 \in 0..MaxMounts
      /\ UNCHANGED <<ready, started, waiting, status, failed, busy, mutation>>
  BY <1>1, <1>0 DEF React!Unmount
<1>3. CASE mounted[s] > 1
  <2>1. UNCHANGED <<generation, attached>>
    BY <1>3 DEF React!Unmount
  <2>2. React!TypeOK'
    BY <1>2, <2>1 DEF ReactInv, React!TypeOK
  <2>3. \A q \in React!Stores : Running(q)' = Running(q)
    BY <1>1, <1>2, <1>3 DEF Running, ReactInv, React!TypeOK
  <2> QED
    BY <1>2, <2>1, <2>2, <2>3 DEF ReactInv, GenerationsMade
<1>4. CASE ~(mounted[s] > 1)
  <2>1. /\ generation' = [generation EXCEPT ![s] = generation[s] + 1]
        /\ attached' = [attached EXCEPT ![s] = attached[s] \ {generation[s]}]
    BY <1>4 DEF React!Unmount
  <2>2. generation[s] + 1 \in 0..2 * MaxStarts
    BY <1>1, <1>0, Evened
  <2>3. React!TypeOK'
    BY <1>2, <2>1, <2>2 DEF ReactInv, React!TypeOK
  <2>4. ASSUME NEW q \in React!Stores PROVE generation'[q] = 2 * started'[q] - Running(q)'
    <3>1. CASE q = s
      BY <1>1, <1>2, <1>4, <2>1, <3>1 DEF Running, ReactInv, React!TypeOK
    <3>2. CASE q # s
      BY <1>2, <2>1, <3>2 DEF Running, ReactInv, React!TypeOK, GenerationsMade
    <3> QED
      BY <3>1, <3>2
  <2> QED
    BY <2>3, <2>4 DEF ReactInv, GenerationsMade
<1> QED
  BY <1>3, <1>4

LEMMA ReactStep == ReactInv /\ [React!Next]_(React!storeVars) => ReactInv'
<1> SUFFICES ASSUME ReactInv, [React!Next]_(React!storeVars) PROVE ReactInv'
  OBVIOUS
<1> USE DEF React!Stores
<1>0. React!TypeOK
  BY DEF ReactInv
<1>1. ASSUME NEW g \in React!Generations,
             React!SessionReady(g) \/ React!OnChange(g) \/ React!OnRevoked(g)
      PROVE  ReactInv'
  <2>1. /\ waiting' \in [React!Stores -> SUBSET React!Generations]
        /\ UNCHANGED <<ready, mounted, started, generation, attached, busy, mutation>>
    BY <1>0, <1>1 DEF React!SessionReady, React!OnChange, React!OnRevoked, React!TypeOK
  <2>2. \/ UNCHANGED <<status, failed>>
        \/ React!Publish("session", "ready", FALSE) \/ React!Publish("session", "error", TRUE)
    BY <1>1 DEF React!SessionReady, React!OnChange, React!OnRevoked, React!SyncSession, React!FailSession
  <2>3. status' \in [React!Stores -> {"loading", "ready", "error"}] /\ failed' \in [React!Stores -> BOOLEAN]
    BY <1>0, <2>2, PublishTypes DEF React!TypeOK
  <2> QED
    BY <1>0, <2>1, <2>3, SameStarts DEF React!TypeOK
<1>2. ASSUME NEW g \in React!Generations, React!KvReady(g) PROVE ReactInv'
  <2>1. /\ waiting' \in [React!Stores -> SUBSET React!Generations]
        /\ attached' \in [React!Stores -> SUBSET React!Generations]
        /\ UNCHANGED <<ready, mounted, started, generation, busy, mutation>>
    BY <1>0, <1>2 DEF React!KvReady, React!TypeOK
  <2>2. UNCHANGED <<status, failed>> \/ React!Publish("kv", "error", TRUE)
    BY <1>2 DEF React!KvReady
  <2>3. status' \in [React!Stores -> {"loading", "ready", "error"}] /\ failed' \in [React!Stores -> BOOLEAN]
    BY <1>0, <2>2, PublishTypes DEF React!TypeOK
  <2> QED
    BY <1>0, <2>1, <2>3, SameStarts DEF React!TypeOK
<1>3. ASSUME NEW stages PROVE React!Mutating(stages) \in BOOLEAN
  BY Zenon DEF React!Mutating
<1>4. ASSUME NEW g \in React!Generations, React!OnEntries(g) PROVE ReactInv'
  <2>1. UNCHANGED <<ready, mounted, started, generation, waiting, attached, mutation>>
    BY <1>4 DEF React!OnEntries
  <2>2. \/ UNCHANGED <<status, failed, busy>>
        \/ React!Publish("kv", "ready", FALSE) /\ busy' = React!Mutating(mutation)
    BY <1>4, Zenon DEF React!OnEntries
  <2>3. status' \in [React!Stores -> {"loading", "ready", "error"}] /\ failed' \in [React!Stores -> BOOLEAN]
    BY <1>0, <2>2, PublishTypes DEF React!TypeOK
  <2>4. busy' \in BOOLEAN
    BY <1>0, <1>3, <2>2, Zenon DEF React!TypeOK
  <2> QED
    BY <1>0, <2>1, <2>3, <2>4, SameStarts DEF React!TypeOK
<1>5. ASSUME NEW m \in Mutations, React!BeginMutation(m) \/ \E ok \in BOOLEAN : React!EndMutation(m, ok)
      PROVE  ReactInv'
  <2>1. /\ UNCHANGED <<ready, mounted, started, generation, waiting, attached>>
        /\ mutation' \in [Mutations -> {"idle", "going", "done"}]
    BY <1>0, <1>5 DEF React!BeginMutation, React!EndMutation, React!TypeOK
  <2>2. \E err \in BOOLEAN : React!Publish("kv", status["kv"], err)
    <3>1. ASSUME NEW ok \in BOOLEAN PROVE (~ok \/ failed["kv"]) \in BOOLEAN
      BY Zenon
    <3>2. CASE React!BeginMutation(m)
      BY <3>2 DEF React!BeginMutation
    <3>3. ASSUME NEW ok \in BOOLEAN, React!EndMutation(m, ok) PROVE \E err \in BOOLEAN : React!Publish("kv", status["kv"], err)
      BY <3>1, <3>3, Zenon DEF React!EndMutation
    <3> QED
      BY <1>5, <3>2, <3>3
  <2>3. status' \in [React!Stores -> {"loading", "ready", "error"}] /\ failed' \in [React!Stores -> BOOLEAN]
    BY <1>0, <2>2, PublishTypes DEF React!TypeOK
  <2>4. busy' \in BOOLEAN
    BY <1>3, <1>5, Zenon DEF React!BeginMutation, React!EndMutation
  <2> QED
    BY <1>0, <2>1, <2>3, <2>4, SameStarts DEF React!TypeOK
<1>6. CASE React!Settle
  BY <1>0, <1>6, SameStarts DEF React!Settle, React!TypeOK
<1>7. CASE UNCHANGED React!storeVars
  BY <1>0, <1>7, SameStarts DEF React!storeVars, React!TypeOK
<1> QED
  BY <1>1, <1>2, <1>4, <1>5, <1>6, <1>7, MountTypes, UnmountTypes DEF React!Next

LEMMA ReactTypes == AllSpec => []React!TypeOK
<1>1. ReactInv => React!TypeOK
  BY DEF ReactInv
<1> QED
  BY <1>1, ReactInit, ReactStep, ReactPart, PTL DEF React!Spec

-----------------------------------------------------------------------------
\* A piece of a sequence, and a sequence of one.
LEMMA Pieces ==
  ASSUME NEW S, NEW p \in Seq(S), NEW i \in 1..Len(p), NEW j \in 1..Len(p)
  PROVE  SubSeq(p, i, j) \in Seq(S)
OBVIOUS

LEMMA Single == ASSUME NEW S, NEW a \in S PROVE <<a>> \in Seq(S) /\ <<>> \in Seq(S)
OBVIOUS

LEMMA Larger == ASSUME NEW S, NEW T, S \subseteq T, NEW p \in Seq(S) PROVE p \in Seq(T)
OBVIOUS

LEMMA PathsAreSequences == ASSUME NEW p \in Link!Paths PROVE p \in Seq(Link!Chars)
<1>1. PICK n \in 0..MaxLong : p \in [1..n -> Link!Chars]
  BY DEF Link!Paths, Link!BoundedSeq, Link!SeqOf
<1> QED
  BY <1>1, SandboxAssumption

LEMMA NoPathIsPath == Link!NoPath \in Link!Paths
<1>1. <<>> \in [1..0 -> Link!Chars] /\ 0 \in 0..MaxLong
  BY SandboxAssumption
<1> QED
  BY <1>1 DEF Link!Paths, Link!BoundedSeq, Link!SeqOf, Link!NoPath

LEMMA Trimmed == ASSUME NEW p \in Seq(Link!Chars) PROVE Link!Trim(p) \in Seq(Link!Chars)
<1> DEFINE inner == {i \in 1..Len(p) : p[i] \notin {"space", "tab"}}
           first == CHOOSE i \in inner : \A j \in inner : i <= j
           last == CHOOSE i \in inner : \A j \in inner : i >= j
<1>1. CASE inner = {}
  BY <1>1, Single DEF Link!Trim, Link!NoPath
<1>2. CASE inner # {}
  <2>1. \E i \in inner : \A j \in inner : i <= j
    BY <1>2, LeastNumber, inner \subseteq Nat
  <2>2. \E i \in inner : \A j \in inner : i >= j
    <3> DEFINE behind == {Len(p) - i : i \in inner}
    <3>1. behind \subseteq Nat /\ behind # {}
      BY <1>2
    <3>2. PICK k \in behind : \A m \in behind : k <= m
      BY <3>1, LeastNumber
    <3>3. PICK i \in inner : k = Len(p) - i
      OBVIOUS
    <3>4. \A j \in inner : Len(p) - i <= Len(p) - j
      BY <3>2, <3>3
    <3> QED
      BY <3>3, <3>4
  <2>3. first \in 1..Len(p) /\ last \in 1..Len(p)
    BY <2>1, <2>2
  <2> HIDE DEF first, last
  <2>4. SubSeq(p, first, last) \in Seq(Link!Chars)
    BY <2>3, Pieces
  <2> QED
    BY <1>2, <2>4, Zenon DEF Link!Trim, first, last
<1> QED
  BY <1>1, <1>2

LEMMA Spelled ==
  ASSUME NEW p \in Seq(Link!Chars) PROVE Link!Fragment(p) \in Seq(Link!Chars \cup {"%20"})
<1>1. Link!Fragment(p) \in [1..Len(p) -> Link!Chars \cup {"%20"}] /\ Len(p) \in Nat
  BY DEF Link!Fragment
<1> HIDE DEF Link!Fragment
<1> QED
  BY <1>1, SeqDef

\* What a link is made of; the path that was asked for is one of Paths where links are the subject.
LinkTypes ==
  /\ path \in Link!Paths /\ via \in Calling /\ hash \in Seq(Link!Chars)
  /\ linkStage \in {"asked", "refused", "refused by the page", "made", "opened"}
  /\ made \in Seq(Link!Chars)
  /\ screen \in Seq(Link!Chars \cup {"%20"}) \cup {Link!FirstScreen}

LEMMA LinkInit == AllInit => LinkTypes
<1> SUFFICES ASSUME AllInit PROVE LinkTypes
  OBVIOUS
<1>1. PICK p \in Link!Paths, by \in Calling, own \in {Link!NoPath, <<"x">>} : Link!InitWith(p, by, own)
  BY NoPathIsPath DEF AllInit, Link!Init, Calling, Link!NoPath
<1>2. own \in Seq(Link!Chars)
  <2>1. "x" \in Link!Chars
    BY DEF Link!Chars
  <2> QED
    BY <2>1, Single DEF Link!NoPath
<1>3. Link!NoPath \in Seq(Link!Chars) /\ Link!NoPath \in Seq(Link!Chars \cup {"%20"})
  <2>1. "x" \in Link!Chars /\ Link!Chars \subseteq Link!Chars \cup {"%20"}
    BY DEF Link!Chars
  <2>2. <<>> \in Seq(Link!Chars)
    BY <2>1, Single
  <2> QED
    BY <2>1, <2>2, Larger DEF Link!NoPath
<1> HIDE DEF Link!NoPath
<1> QED
  BY <1>1, <1>2, <1>3 DEF Link!InitWith, LinkTypes

LEMMA LinkStep == LinkTypes /\ [Link!Next]_(Link!linkVars) => LinkTypes'
<1> SUFFICES ASSUME LinkTypes, [Link!Next]_(Link!linkVars) PROVE LinkTypes'
  OBVIOUS
<1>1. path \in Seq(Link!Chars) /\ Link!Trim(path) \in Seq(Link!Chars)
  BY PathsAreSequences, Trimmed DEF LinkTypes
<1>2. CASE Link!Make
  <2>1. UNCHANGED <<path, via, hash, screen>>
    BY <1>2 DEF Link!Make
  <2>2. /\ linkStage' \in {"made", "refused", "refused by the page"}
        /\ made' \in {made, path, Link!Trim(path)}
    BY <1>2 DEF Link!Make, Link!MakeLink, Link!Refuse, LinkTypes, Calling
  <2> QED
    BY <1>1, <2>1, <2>2 DEF LinkTypes
<1>3. CASE Link!OpenLink
  <2>1. UNCHANGED <<path, via, hash, made>> /\ linkStage' = "opened"
        /\ screen' \in {Link!Fragment(made), Link!FirstScreen, hash}
    BY <1>3 DEF Link!OpenLink
  <2>2. Link!Fragment(made) \in Seq(Link!Chars \cup {"%20"}) /\ hash \in Seq(Link!Chars \cup {"%20"})
    BY Spelled, Larger, Link!Chars \subseteq Link!Chars \cup {"%20"} DEF LinkTypes
  <2> QED
    BY <2>1, <2>2 DEF LinkTypes
<1>4. CASE UNCHANGED Link!linkVars
  BY <1>4 DEF Link!linkVars, LinkTypes
<1> QED
  BY <1>2, <1>3, <1>4 DEF Link!Next

LEMMA LinkTypesHold == AllSpec => []Link!TypeOK
<1>1. LinkTypes => Link!TypeOK
  BY DEF LinkTypes, Link!TypeOK, Calling
<1>2. [AllNext]_allVars => [Link!Next]_(Link!linkVars)
  BY DEF AllNext, Only, allVars, linksV, Link!linkVars
<1> QED
  BY <1>1, <1>2, LinkInit, LinkStep, PTL DEF AllSpec

-----------------------------------------------------------------------------
\* Where AI streams are the subject the answer is one of Bodies.
Answering == subject = "ai" => body \in Bodies
LEMMA AiTypes == AllSpec => [](subject = "ai" => Ai!TypeOK)
<1>1. AllInit => Answering
  BY DEF AllInit, Ai!Init, Ai!InitWith, Answering
<1>2. Answering /\ [AllNext]_allVars => Answering'
  <2>1. [AllNext]_allVars => subject' = subject /\ [Ai!Next]_(Ai!streamVars)
    BY DEF AllNext, Only, allVars, aiV, Ai!streamVars
  <2>2. [Ai!Next]_(Ai!streamVars) => body' = body
    BY DEF Ai!Next, Ai!streamVars, Ai!Stream, Ai!Revoked, Ai!Unauthorized, Ai!Renewed,
      Ai!NotRenewed, Ai!Refused, Ai!Accepted, Ai!Read, Ai!ThrowingCallback, Ai!Broken, Ai!End,
      Ai!Reading
  <2> QED
    BY <2>1, <2>2 DEF Answering
<1>3. AiInv /\ Answering => (subject = "ai" => Ai!TypeOK)
  BY DEF AiInv, Answering, Ai!TypeOK
<1>4. AllSpec => []Answering
  BY <1>1, <1>2, PTL DEF AllSpec
<1> QED
  BY <1>3, <1>4, AiInvariant, PTL

=============================================================================
