-------------------------------- MODULE Mesh --------------------------------
(***************************************************************************)
(* multiplayer.connect() in runtime.ts (1520-1884): every tab announces    *)
(* itself at a rendezvous, polls who else is there and links up with them. *)
(* A mesh tab dials each peer itself; a swarm tab feeds the peers it has   *)
(* not met yet to the gossip engine, once.  Tabs are their endpoint ids.   *)
(*                                                                         *)
(* setting says who has mp:join (they announce, the others only look) and  *)
(* which topology it is; it stays as it is.                                *)
(*                                                                         *)
(* links is the transport's own registry of connections, linked what the   *)
(* SDK makes of its events.  A mesh's events reach nobody before the SDK   *)
(* subscribes, at the end of its setup; Early says whether peers may dial  *)
(* a tab before that.  The messages sent over the links are left out.      *)
(***************************************************************************)
EXTENDS Naturals, FiniteSets, Sequences

CONSTANTS Tabs,       \* endpoint ids, ordered
          Settings,   \* the settings to start from: [writers, swarm]
          Early,      \* may a tab be dialled before it reads its events?
          None,
          MaxFaults   \* bound: links, requests, dials and tabs that fail

VARIABLES setting,
          stage,     \* connect() and leave(), by tab
          listed,    \* rendezvous: tabs announced
          posting,   \* tabs with an announce on its way
          answer,    \* peers answer on its way to a tab
          roster,    \* tab: peers of the last answer
          known,     \* tab: peers the swarm has been fed
          dialing,   \* <<t, u>>: t's transport tries to reach u
          links,     \* tab: the transport's connections
          dead,      \* <<t, u>>: t's connection to u has ended, t has not noticed
          events,    \* transport events the tab has not read
          linked,    \* tab: connected, by its events
          faults

meshVars == <<stage, listed, posting, answer, roster, known, dialing, links,
              dead, events, linked, faults>>

Announcers == setting.writers
Swarm   == setting.swarm

Live == {t \in Tabs : stage[t] = "live"}
Up   == {t \in Tabs : stage[t] # "left"}       \* the transport runs
Listening == {t \in Tabs : stage[t] \in {"live", "leaving"}}

InitAt(first) ==
    /\ setting \in Settings
    /\ stage = [t \in Tabs |-> first] /\ listed = {} /\ posting = {}
    /\ answer = [t \in Tabs |-> None]
    /\ roster = [t \in Tabs |-> {}] /\ known = [t \in Tabs |-> {}]
    /\ dialing = {} /\ dead = {}
    /\ links = [t \in Tabs |-> {}] /\ linked = [t \in Tabs |-> {}]
    /\ events = [t \in Tabs |-> <<>>]
    /\ faults = 0

Init == InitAt("new")

\* The events of one step: change tells each tab about one peer, or about none.
Told(change) ==
    events' = [t \in Tabs |-> IF t \in DOMAIN change /\ t \in Listening
                              THEN Append(events[t], change[t]) ELSE events[t]]

\* The transport of t is closed: its peers' ends are dead.  Nobody reads what t knew.
Closed(t) ==
    /\ links' = [links EXCEPT ![t] = {}] /\ linked' = [linked EXCEPT ![t] = {}]
    /\ roster' = [roster EXCEPT ![t] = {}] /\ known' = [known EXCEPT ![t] = {}]
    /\ answer' = [answer EXCEPT ![t] = None] /\ events' = [events EXCEPT ![t] = <<>>]
    /\ dead' = {d \in dead : d[1] # t} \cup {<<u, t>> : u \in {v \in Tabs : t \in links[v]}}
    /\ dialing' = {d \in dialing : d[1] # t}

-----------------------------------------------------------------------------
(* Setup: announce, look around, join, listen.                             *)

\* Mutant: guests announce themselves as well.
AnnounceAll(t) ==
    /\ stage[t] = "new"
    /\ stage' = [stage EXCEPT ![t] = "announced"]
    /\ listed' = listed \cup {t}
    /\ UNCHANGED <<posting, answer, roster, known, dialing, links, dead, events,
                   linked, faults>>

Announce(t) ==
    /\ stage[t] = "new"
    /\ stage' = [stage EXCEPT ![t] = "announced"]
    /\ listed' = listed \cup ({t} \cap Announcers)
    /\ UNCHANGED <<posting, answer, roster, known, dialing, links, dead, events,
                   linked, faults>>

\* A setup that throws closes the node; what it announced stays until it lapses.
FailSetup(t) ==
    /\ stage[t] \in {"new", "announced", "found"} /\ faults < MaxFaults
    /\ stage' = [stage EXCEPT ![t] = "left"] /\ faults' = faults + 1
    /\ Closed(t)
    /\ UNCHANGED <<listed, posting>>

\* Swarm: join the topic with everybody on the roster; then read the events.
JoinTopic(t) ==
    /\ stage[t] = "found"
    /\ stage' = [stage EXCEPT ![t] = "live"]
    /\ known' = [known EXCEPT ![t] = @ \cup roster[t]]
    /\ dialing' = dialing \cup {<<t, u>> : u \in roster[t]}
    /\ UNCHANGED <<listed, posting, answer, roster, links, dead, events, linked, faults>>

-----------------------------------------------------------------------------
(* Discovery                                                               *)

Ask(t) ==
    /\ stage[t] \in {"announced", "live"} /\ answer[t] = None
    /\ stage' = [stage EXCEPT ![t] = IF @ = "announced" THEN "asked" ELSE @]
    /\ answer' = [answer EXCEPT ![t] = listed \ {t}]
    /\ UNCHANGED <<listed, posting, roster, known, dialing, links, dead, events,
                   linked, faults>>

\* The first answer, or its failure, ends a mesh's setup.
Asked(t) ==
    /\ answer' = [answer EXCEPT ![t] = None]
    /\ stage' = IF stage[t] # "asked" THEN stage
                ELSE [stage EXCEPT ![t] = IF Swarm THEN "found" ELSE "live"]

LoseAnswer(t) ==
    /\ answer[t] # None /\ faults < MaxFaults
    /\ Asked(t) /\ faults' = faults + 1
    /\ UNCHANGED <<listed, posting, roster, known, dialing, links, dead, events, linked>>

\* Mutant: a guest waits for those with larger ids.
ToDialSmaller(t, found) ==
    {u \in found : /\ u \notin linked[t]
                   /\ t < u
                   /\ u \notin links[t]}

\* Whom t dials: of two that announce, the smaller; a guest dials everybody.
\* The transport takes a connection it has for the one asked for.
ToDial(t, found) ==
    {u \in found : /\ u \notin linked[t]
                   /\ t \notin Announcers \/ t < u
                   /\ u \notin links[t]}

OnAnswer(t) ==
    /\ answer[t] # None
    /\ LET found == answer[t]
           fresh == IF ~Swarm THEN ToDial(t, found)
                    ELSE IF stage[t] = "asked" THEN {} ELSE found \ known[t]
       IN /\ roster' = [roster EXCEPT ![t] = found]
          /\ known' = [known EXCEPT ![t] = IF Swarm THEN @ \cup found ELSE @]
          /\ dialing' = dialing \cup {<<t, u>> : u \in fresh}
    /\ Asked(t)
    /\ UNCHANGED <<listed, posting, links, dead, events, linked, faults>>

-----------------------------------------------------------------------------
(* The transport (iroh): dialling, superseding, noticing a dead connection *)

Connect(t, u) ==
    /\ <<t, u>> \in dialing /\ {t, u} \subseteq Up
    /\ (Swarm \/ ~Early) => u \in Listening
    /\ Swarm => t \in Listening
    /\ dialing' = dialing \ {<<t, u>>}
    /\ links' = [links EXCEPT ![t] = @ \cup {u}, ![u] = @ \cup {t}]
    /\ dead' = dead \ {<<t, u>>, <<u, t>>}
    /\ LET other == [w \in {t, u} |-> IF w = t THEN u ELSE t]
       IN Told([w \in {v \in {t, u} : other[v] \notin links[v]} |->
                [up |-> TRUE, peer |-> other[w]]])
    /\ UNCHANGED <<stage, listed, posting, answer, roster, known, linked, faults>>

\* A dial of a tab that is gone fails; one of a tab that is not may, but nothing
\* feeds a swarm the same peer again.
FailDial(t, u) ==
    /\ <<t, u>> \in dialing
    /\ u \notin Up \/ (~Swarm /\ faults < MaxFaults)
    /\ faults' = IF u \in Up THEN faults + 1 ELSE faults
    /\ dialing' = dialing \ {<<t, u>>}
    /\ UNCHANGED <<stage, listed, posting, answer, roster, known, links, dead,
                   events, linked>>

Drop(t, u) ==
    /\ faults < MaxFaults /\ ~Swarm
    /\ u \in links[t] /\ t \in links[u] /\ <<t, u>> \notin dead /\ <<u, t>> \notin dead
    /\ faults' = faults + 1
    /\ dead' = dead \cup {<<t, u>>, <<u, t>>}
    /\ UNCHANGED <<stage, listed, posting, answer, roster, known, dialing, links,
                   events, linked>>

Notice(t, u) ==
    /\ <<t, u>> \in dead
    /\ dead' = dead \ {<<t, u>>}
    /\ links' = [links EXCEPT ![t] = @ \ {u}]
    /\ Told([w \in {t} |-> [up |-> FALSE, peer |-> u]])
    /\ UNCHANGED <<stage, listed, posting, answer, roster, known, dialing, linked, faults>>

\* Mutant: the end of a connection is not told.
OnEventUps(t) ==
    /\ t \in Listening /\ events[t] # <<>>
    /\ LET e == Head(events[t])
       IN linked' = [linked EXCEPT ![t] = IF e.up THEN @ \cup {e.peer} ELSE @]
    /\ events' = [events EXCEPT ![t] = Tail(@)]
    /\ UNCHANGED <<stage, listed, posting, answer, roster, known, dialing, links,
                   dead, faults>>

OnEvent(t) ==
    /\ t \in Listening /\ events[t] # <<>>
    /\ LET e == Head(events[t])
       IN linked' = [linked EXCEPT ![t] = IF e.up THEN @ \cup {e.peer} ELSE @ \ {e.peer}]
    /\ events' = [events EXCEPT ![t] = Tail(@)]
    /\ UNCHANGED <<stage, listed, posting, answer, roster, known, dialing, links,
                   dead, faults>>

-----------------------------------------------------------------------------
(* Heartbeat, leaving, the listing's life                                  *)

\* Mutant: the timer outlives leave().
HeartbeatOn(t) ==
    /\ t \in Announcers /\ t \notin posting /\ stage[t] \in {"live", "left"}
    /\ posting' = posting \cup {t}
    /\ UNCHANGED <<stage, listed, answer, roster, known, dialing, links, dead,
                   events, linked, faults>>

\* announce() awaits the address, then posts; leave() does not recall it.
Heartbeat(t) ==
    /\ t \in Live \cap Announcers /\ t \notin posting
    /\ posting' = posting \cup {t}
    /\ UNCHANGED <<stage, listed, answer, roster, known, dialing, links, dead,
                   events, linked, faults>>

PostAnnounce(t) ==
    /\ t \in posting
    /\ posting' = posting \ {t} /\ listed' = listed \cup {t}
    /\ UNCHANGED <<stage, answer, roster, known, dialing, links, dead, events,
                   linked, faults>>

Leave(t) ==
    /\ t \in Live
    /\ stage' = [stage EXCEPT ![t] = "leaving"]
    /\ UNCHANGED <<listed, posting, answer, roster, known, dialing, links, dead,
                   events, linked, faults>>

\* The goodbye may fail; leave() closes the node all the same.
Goodbye(t, heard) ==
    /\ stage[t] = "leaving"
    /\ stage' = [stage EXCEPT ![t] = "left"]
    /\ listed' = IF heard THEN listed \ ({t} \cap Announcers) ELSE listed
    /\ Closed(t)
    /\ UNCHANGED <<posting, faults>>

\* The tab is closed or crashes, without leave().
Vanish(t) ==
    /\ stage[t] \notin {"new", "left"} /\ faults < MaxFaults
    /\ faults' = faults + 1
    /\ stage' = [stage EXCEPT ![t] = "left"]
    /\ posting' = posting \ {t}
    /\ Closed(t)
    /\ UNCHANGED listed

\* 45 s without an announce: the tab has left, or its announces failed.
Lapse(t) ==
    /\ t \in listed /\ t \notin posting
    /\ stage[t] = "left" \/ (stage[t] = "live" /\ faults < MaxFaults)
    /\ listed' = listed \ {t}
    /\ faults' = IF stage[t] = "live" THEN faults + 1 ELSE faults
    /\ UNCHANGED <<stage, posting, answer, roster, known, dialing, links, dead,
                   events, linked>>

Stepping(t)   == Announce(t) \/ JoinTopic(t) \/ \E heard \in BOOLEAN : Goodbye(t, heard)
Polling(t)    == Ask(t) \/ OnAnswer(t)
Announcing(t) == Heartbeat(t) \/ PostAnnounce(t)
Dialing(t, u) == Connect(t, u) \/ FailDial(t, u)
Working(t)    == Stepping(t) \/ OnEvent(t) \/ \E u \in Tabs \ {t} : Dialing(t, u) \/ Notice(t, u)

Next ==
    /\ UNCHANGED setting
    /\ \E t \in Tabs :
        \/ Working(t) \/ Polling(t) \/ Announcing(t) \/ Lapse(t)
        \/ FailSetup(t) \/ LoseAnswer(t) \/ Leave(t) \/ Vanish(t)
        \/ \E u \in Tabs \ {t} : Drop(t, u)

Spec == Init /\ [][Next]_<<setting, meshVars>>

-----------------------------------------------------------------------------
\* Every variable keeps its type.
TypeOK ==
    /\ setting \in Settings
    /\ stage \in [Tabs -> {"new", "announced", "asked", "found", "live", "leaving", "left"}]
    /\ listed \subseteq Announcers /\ posting \subseteq Announcers
    /\ answer \in [Tabs -> (SUBSET Tabs) \cup {None}]
    /\ roster \in [Tabs -> SUBSET Tabs] /\ known \in [Tabs -> SUBSET Tabs]
    /\ dialing \subseteq Tabs \X Tabs /\ dead \subseteq Tabs \X Tabs
    /\ links \in [Tabs -> SUBSET Tabs] /\ linked \in [Tabs -> SUBSET Tabs]
    /\ \A t \in Tabs : events[t] \in Seq([up : BOOLEAN, peer : Tabs])
    /\ faults \in 0..MaxFaults

\* Once a live tab has read its events, the peers it calls connected are those
\* its transport holds a connection to, through supersessions and drops.
LinksAgree ==
    \A t \in Live : events[t] = <<>> => linked[t] = links[t]

\* Two tabs that stay, at least one of which announces, end up connected, each
\* in the other's eyes, whatever failed before.
Completes ==
    \A t, u \in Tabs :
        t < u /\ {t, u} \cap Announcers # {} =>
            (<>[]({t, u} \subseteq Live) => <>[](u \in linked[t] /\ t \in linked[u]))

\* A tab that is gone, with or without a goodbye, drops off every roster.
GoneForgotten ==
    <>[](\A t \in Tabs, u \in Live : stage[t] = "left" => t \notin roster[u] \cup linked[u])
=============================================================================
