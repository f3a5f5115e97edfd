-------------------------------- MODULE Room --------------------------------
(***************************************************************************)
(* multiplayer.join() in runtime.ts (1155-1495): a room whose state is an  *)
(* iroh document that the tabs' nodes replicate.  A write is throttled,    *)
(* set in the tab's own node and gossiped; the tab reads its node again    *)
(* some 30 ms after an event, and shows its own last write (the echo)      *)
(* until a read finds that value in the document, or another one 3 s after *)
(* the write.  Nothing but a read lifts an echo, and nothing but an event  *)
(* asks for a read.                                                        *)
(*                                                                         *)
(* The document keeps the last value set (tabs' clocks agree), so that a   *)
(* replica is a prefix of wrote.  A read is what the node has when it is   *)
(* asked, and a tab's reads end in their order.  Members' own state        *)
(* (setMyState) goes the same way without echo.                            *)
(***************************************************************************)
EXTENDS Naturals, FiniteSets, FiniteSetsExt, Sequences

CONSTANTS Tabs, Writers,     \* tabs that may write (mp:join); the others watch
          MemberOf,          \* tab -> member
          Values, None,      \* what setState() is called with
          MaxWrites          \* bound: its calls

VARIABLES phase,    \* join() and leave(), by tab
          present,  \* rendezvous: tabs announced
          others,   \* tab: roster, the tabs of the last peers answer
          met,      \* tab: known, the tabs handed to the document engine
          wrote,    \* the values set in the document, in order
          replica,  \* tab: how much of wrote its node has
          due,      \* tab: an engine event or the timer of refreshQueued asks for a read
          reading,  \* tab: how much of wrote the read under way has found, or None
          seen,     \* tab: the value of the last read, None before
          echo,     \* tab: sharedLocal while it is set, None otherwise
          aged,     \* tab: the echo is older than the grace period
          queued,   \* tab: the value the throttle will write, or None
          calls

roomVars == <<phase, present, others, met, wrote, replica, due, reading,
              seen, echo, aged, queued, calls>>

\* What the document has held.
Held == {wrote[i] : i \in 1..Len(wrote)}

Joined == {t \in Tabs : phase[t] = "joined"}

InitAt(first) ==
    /\ phase = [t \in Tabs |-> first] /\ present = {}
    /\ others = [t \in Tabs |-> {}] /\ met = [t \in Tabs |-> {}]
    /\ wrote = <<>> /\ replica = [t \in Tabs |-> 0]
    /\ due = [t \in Tabs |-> FALSE]
    /\ reading = [t \in Tabs |-> None]
    /\ seen = [t \in Tabs |-> None] /\ echo = [t \in Tabs |-> None]
    /\ aged = [t \in Tabs |-> FALSE] /\ queued = [t \in Tabs |-> None]
    /\ calls = 0

Init == InitAt("new")

docVars  == <<wrote, replica>>
viewVars == <<due, reading, seen, echo, aged, queued, calls>>

\* What the app sees: room.state and the members of room.peers, one per person.
State(t) == IF echo[t] # None THEN echo[t] ELSE seen[t]
Peers(t) == {MemberOf[u] : u \in others[t] \cup ({t} \cap Writers)}

-----------------------------------------------------------------------------
(* Presence                                                                *)

\* Announce, look around once, join with the peers found, read the document.
Join(t) ==
    /\ phase[t] = "new"
    /\ phase' = [phase EXCEPT ![t] = "joined"]
    /\ others' = [others EXCEPT ![t] = present \ {t}]
    /\ met' = [met EXCEPT ![t] = present \ {t}]
    /\ present' = present \cup ({t} \cap Writers)
    /\ due' = [due EXCEPT ![t] = TRUE]
    /\ UNCHANGED <<docVars, reading, seen, echo, aged, queued, calls>>

Announce(t) ==
    /\ t \in Joined \cap Writers
    /\ present' = present \cup {t}
    /\ UNCHANGED <<phase, others, met, docVars, viewVars>>

Discover(t) ==
    /\ t \in Joined
    /\ others' = [others EXCEPT ![t] = present \ {t}]
    /\ met' = [met EXCEPT ![t] = @ \cup (present \ {t})]
    /\ UNCHANGED <<phase, present, docVars, viewVars>>

\* leave() cancels the throttles; its goodbye may get lost, and a tab that is
\* closed says none.  The node's replica is gone.
Leave(t, heard) ==
    /\ t \in Joined
    /\ phase' = [phase EXCEPT ![t] = "left"]
    /\ present' = IF heard THEN present \ ({t} \cap Writers) ELSE present
    /\ replica' = [replica EXCEPT ![t] = 0]
    /\ due' = [due EXCEPT ![t] = FALSE]
    /\ queued' = [queued EXCEPT ![t] = None] /\ echo' = [echo EXCEPT ![t] = None]
    /\ seen' = [seen EXCEPT ![t] = None] /\ aged' = [aged EXCEPT ![t] = FALSE]
    /\ reading' = [reading EXCEPT ![t] = None]
    /\ others' = [others EXCEPT ![t] = {}] /\ met' = [met EXCEPT ![t] = {}]
    /\ UNCHANGED <<wrote, calls>>

\* The announce of a tab that is gone expires, and rows that old are skipped.
Lapse(t) ==
    /\ t \in present \ Joined
    /\ present' = present \ {t}
    /\ UNCHANGED <<phase, others, met, docVars, viewVars>>

-----------------------------------------------------------------------------
(* Writing and gossip                                                      *)

\* requireLiveWriter(), then the echo, then the throttle's latest value.
SetState(t, value) ==
    /\ t \in Joined \cap Writers /\ calls < MaxWrites
    /\ calls' = calls + 1
    /\ echo' = [echo EXCEPT ![t] = value] /\ aged' = [aged EXCEPT ![t] = FALSE]
    /\ queued' = [queued EXCEPT ![t] = value]
    /\ UNCHANGED <<phase, present, others, met, docVars, due, reading, seen>>

\* Mutant: an event during a read is taken to be in it.
OnEventBusy(t) == due' = [due EXCEPT ![t] = @ \/ reading[t] = None]

\* The event pump: any number of events before a read ask for one, those that come
\* while one is under way for the next.
OnEvent(t) == due' = [due EXCEPT ![t] = TRUE]

\* The throttle's timer: node.set(), which is an event of the own node too.
Write(t) ==
    /\ queued[t] # None
    /\ queued' = [queued EXCEPT ![t] = None]
    /\ wrote' = Append(wrote, queued[t])
    /\ replica' = [replica EXCEPT ![t] = Len(wrote')]
    /\ OnEvent(t)
    /\ UNCHANGED <<phase, present, others, met, reading, seen, echo, aged, calls>>

\* t's node takes over what u's has, once either was told of the other.
Sync(t, u) ==
    /\ {t, u} \subseteq Joined /\ (u \in met[t] \/ t \in met[u])
    /\ replica[t] < replica[u]
    /\ replica' = [replica EXCEPT ![t] = replica[u]]
    /\ OnEvent(t)
    /\ UNCHANGED <<phase, present, others, met, wrote, reading, seen, echo, aged, queued, calls>>

\* An event that changes nothing: a neighbour up or down, a sync finished.
Chatter(t) ==
    /\ t \in Joined /\ ~due[t] /\ OnEvent(t)
    /\ UNCHANGED <<phase, present, others, met, docVars, reading, seen, echo, aged, queued, calls>>

-----------------------------------------------------------------------------
(* Reading                                                                 *)

\* The timer of refreshEntries(), up to its await.
BeginRead(t) ==
    /\ due[t] /\ reading[t] = None
    /\ due' = [due EXCEPT ![t] = FALSE] /\ reading' = [reading EXCEPT ![t] = replica[t]]
    /\ UNCHANGED <<phase, present, others, met, docVars, seen, echo, aged, queued, calls>>

ValueAt(n) == IF n = 0 THEN None ELSE wrote[n]

\* Mutant: any read lifts the echo.
RefreshEntriesLift(t) ==
    /\ reading[t] # None /\ reading' = [reading EXCEPT ![t] = None]
    /\ seen' = [seen EXCEPT ![t] = ValueAt(reading[t])]
    /\ echo' = [echo EXCEPT ![t] = None] /\ aged' = [aged EXCEPT ![t] = FALSE]
    /\ UNCHANGED <<phase, present, others, met, docVars, due, queued, calls>>

\* What was read is shown.  The echo is lifted if it is the value read, or old.
RefreshEntries(t) ==
    /\ reading[t] # None /\ reading' = [reading EXCEPT ![t] = None]
    /\ seen' = [seen EXCEPT ![t] = ValueAt(reading[t])]
    /\ echo' = [echo EXCEPT ![t] = IF @ = seen'[t] \/ aged[t] THEN None ELSE @]
    /\ aged' = [aged EXCEPT ![t] = @ /\ echo'[t] # None]
    /\ UNCHANGED <<phase, present, others, met, docVars, due, queued, calls>>

\* Three seconds after the last setState().
Age(t) ==
    /\ echo[t] # None /\ ~aged[t] /\ queued[t] = None
    /\ aged' = [aged EXCEPT ![t] = TRUE]
    /\ UNCHANGED <<phase, present, others, met, docVars, due, reading, seen, echo, queued, calls>>

Timer(t)   == Join(t) \/ Announce(t) \/ Discover(t) \/ Lapse(t) \/ Write(t) \/ Age(t)
Reading(t) == BeginRead(t) \/ RefreshEntries(t)

Next ==
    \E t \in Tabs :
        \/ Timer(t) \/ (\E heard \in BOOLEAN : Leave(t, heard))
        \/ (\E value \in Values : SetState(t, value))
        \/ (\E u \in Tabs \ {t} : Sync(t, u)) \/ Chatter(t) \/ Reading(t)

Spec == Init /\ [][Next]_roomVars

-----------------------------------------------------------------------------
\* Every variable keeps its type.
TypeOK ==
    /\ phase \in [Tabs -> {"new", "joined", "left"}] /\ present \subseteq Writers
    /\ others \in [Tabs -> SUBSET Tabs] /\ met \in [Tabs -> SUBSET Tabs]
    /\ wrote \in Seq(Values) /\ replica \in [Tabs -> 0..Len(wrote)]
    /\ due \in [Tabs -> BOOLEAN] /\ aged \in [Tabs -> BOOLEAN]
    /\ reading \in [Tabs -> 0..Len(wrote) \cup {None}]
    /\ seen \in [Tabs -> Values \cup {None}]
    /\ echo \in [Tabs -> Values \cup {None}]
    /\ queued \in [Tabs -> Values \cup {None}]
    /\ calls \in 0..MaxWrites

\* A burst of writes does not flicker: while a value that is new to the document
\* is on its way there, the app that set it sees nothing else, whatever is read
\* in the meantime.  (A value the document has held before is not recognised: a
\* read that finds it in its old place lifts the echo, and what has overwritten it
\* since is shown until the new write lands.)
NoFlicker ==
    [][\A t \in Tabs :
          phase'[t] = "joined" /\ queued'[t] # None /\ queued'[t] \notin Held'
            => State(t)' = queued'[t]]_roomVars

\* When the writes are over, everybody in the room has read the last value that any
\* of their nodes holds, whatever was set, synced or read in which order, and shows
\* it, unless it is an own write that was overtaken: only a later event would lift
\* that echo.
Converges ==
    <>[](\A t \in Joined : LET last == ValueAt(Max({replica[u] : u \in Joined}))
                           IN seen[t] = last /\ (echo[t] = last => last = None))
=============================================================================
