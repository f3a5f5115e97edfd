----------------------------- MODULE MeshProofs -----------------------------
(***************************************************************************)
(* Theorems about the mesh in Page, for any number of tabs, whatever their *)
(* settings and however many links, requests, dials and tabs fail: the     *)
(* types, and that what the SDK calls connected is what its transport      *)
(* holds a connection to.                                                  *)
(*                                                                         *)
(* A tab catches up if the last event about a peer it has not read says    *)
(* whether it holds a connection to that peer, and it knows already about  *)
(* the peers of whom no event speaks.  To begin with it holds and knows    *)
(* nothing: this needs that nobody is dialled, or dials, before it listens.*)
(***************************************************************************)
EXTENDS Page, SequenceTheorems, TLAPS

Event == [up : BOOLEAN, peer : Tabs]

LEMMA MeshPart ==
  AllSpec => /\ \E first \in {"new", "left"} : Mesh!InitAt(first)
             /\ [][Mesh!Next]_<<setting, Mesh!meshVars>>
<1>1. AllInit => \E first \in {"new", "left"} : Mesh!InitAt(first)
  BY DEF AllInit
<1>2. [AllNext]_allVars => [Mesh!Next]_<<setting, Mesh!meshVars>>
  BY DEF AllNext, Only, allVars, meshV, Mesh!meshVars
<1> QED
  BY <1>1, <1>2, PTL DEF AllSpec

-----------------------------------------------------------------------------
(* Catching up                                                             *)

About(evs, p, i) == evs[i].peer = p
LastAbout(evs, p, i) == About(evs, p, i) /\ \A j \in 1..Len(evs) : j > i => ~About(evs, p, j)

\* Whoever has been told of known and has yet to read evs will know of held.
CatchesUp(evs, told, held) ==
  \A p \in Tabs :
    /\ \A i \in 1..Len(evs) : LastAbout(evs, p, i) => (evs[i].up <=> p \in held)
    /\ (\A i \in 1..Len(evs) : ~About(evs, p, i)) => (p \in told <=> p \in held)

After(e, peers) == IF e.up THEN peers \cup {e.peer} ELSE peers \ {e.peer}

LEMMA ReadAll ==
  ASSUME NEW k \in SUBSET Tabs, NEW held \in SUBSET Tabs, CatchesUp(<<>>, k, held)
  PROVE  k = held
BY DEF CatchesUp

LEMMA NothingYet == ASSUME NEW k PROVE CatchesUp(<<>>, k, k)
BY DEF CatchesUp

LEMMA OneMore ==
  ASSUME NEW evs \in Seq(Event), NEW e \in Event, NEW k, NEW held, CatchesUp(evs, k, held)
  PROVE  CatchesUp(Append(evs, e), k, After(e, held))
<1> DEFINE more == Append(evs, e)
<1>1. /\ Len(evs) \in Nat /\ Len(more) = Len(evs) + 1 /\ more[Len(evs) + 1] = e
      /\ \A i \in 1..Len(evs) : more[i] = evs[i]
  OBVIOUS
<1>2. e.peer \in Tabs /\ e.up \in BOOLEAN
  BY DEF Event
<1> HIDE DEF more
<1> SUFFICES ASSUME NEW p \in Tabs
             PROVE  /\ \A i \in 1..Len(more) :
                         LastAbout(more, p, i) => (more[i].up <=> p \in After(e, held))
                    /\ (\A i \in 1..Len(more) : ~About(more, p, i)) =>
                         (p \in k <=> p \in After(e, held))
  BY DEF CatchesUp, more
<1>3. CASE p = e.peer
  <2>1. About(more, p, Len(evs) + 1) /\ Len(evs) + 1 \in 1..Len(more)
    BY <1>1, <1>3 DEF About
  <2>2. ASSUME NEW i \in 1..Len(more), LastAbout(more, p, i)
        PROVE  more[i].up <=> p \in After(e, held)
    <3>1. i = Len(evs) + 1
      BY <1>1, <2>1, <2>2 DEF LastAbout
    <3> QED
      BY <1>1, <1>2, <1>3, <3>1 DEF After
  <2> QED
    BY <2>1, <2>2
<1>4. CASE p # e.peer
  <2>1. p \in After(e, held) <=> p \in held
    BY <1>4 DEF After
  <2>2. \A i \in 1..Len(more) : About(more, p, i) => i \in 1..Len(evs) /\ About(evs, p, i)
    BY <1>1, <1>4 DEF About
  <2>3. \A i \in 1..Len(evs) : About(evs, p, i) => About(more, p, i)
    BY <1>1 DEF About
  <2>4. \A i \in 1..Len(more) : LastAbout(more, p, i) => i \in 1..Len(evs) /\ LastAbout(evs, p, i)
    BY <1>1, <2>2, <2>3 DEF LastAbout
  <2> QED
    BY <1>1, <2>1, <2>2, <2>3, <2>4 DEF CatchesUp
<1> QED
  BY <1>3, <1>4

LEMMA OneRead ==
  ASSUME NEW evs \in Seq(Event), evs # <<>>, NEW k, NEW held, CatchesUp(evs, k, held)
  PROVE  CatchesUp(Tail(evs), After(Head(evs), k), held)
<1> DEFINE rest == Tail(evs)
           e == Head(evs)
<1>1. /\ Len(evs) \in Nat \ {0} /\ Len(rest) = Len(evs) - 1 /\ e = evs[1] /\ e \in Event
      /\ \A i \in 1..Len(rest) : rest[i] = evs[i + 1]
  OBVIOUS
<1> HIDE DEF rest, e
<1> SUFFICES ASSUME NEW p \in Tabs
             PROVE  /\ \A i \in 1..Len(rest) : LastAbout(rest, p, i) => (rest[i].up <=> p \in held)
                    /\ (\A i \in 1..Len(rest) : ~About(rest, p, i)) =>
                         (p \in After(e, k) <=> p \in held)
  BY DEF CatchesUp, rest, e
<1>2. \A j \in 2..Len(evs) : j - 1 \in 1..Len(rest) /\ (About(rest, p, j - 1) <=> About(evs, p, j))
  BY <1>1 DEF About
<1>3. \A i \in 1..Len(rest) : i + 1 \in 2..Len(evs) /\ (About(rest, p, i) <=> About(evs, p, i + 1))
  BY <1>1 DEF About
<1>4. ASSUME NEW i \in 1..Len(rest), LastAbout(rest, p, i) PROVE rest[i].up <=> p \in held
  <2>1. About(evs, p, i + 1) /\ i + 1 \in 1..Len(evs)
    BY <1>1, <1>3, <1>4 DEF LastAbout
  <2>2. ASSUME NEW j \in 1..Len(evs), j > i + 1 PROVE ~About(evs, p, j)
    <3>1. j - 1 > i /\ j \in 2..Len(evs)
      BY <1>1, <2>2
    <3> QED
      BY <1>2, <1>4, <3>1 DEF LastAbout
  <2>3. LastAbout(evs, p, i + 1)
    BY <2>1, <2>2 DEF LastAbout
  <2> QED
    BY <1>1, <2>1, <2>3 DEF CatchesUp
<1>5. ASSUME \A i \in 1..Len(rest) : ~About(rest, p, i) PROVE p \in After(e, k) <=> p \in held
  <2>1. \A j \in 2..Len(evs) : ~About(evs, p, j)
    BY <1>2, <1>5
  <2>2. CASE p = e.peer
    <3>1. LastAbout(evs, p, 1) /\ 1 \in 1..Len(evs)
      BY <1>1, <2>1, <2>2 DEF LastAbout, About
    <3>2. e.up <=> p \in held
      BY <1>1, <3>1 DEF CatchesUp
    <3> QED
      BY <2>2, <3>2 DEF After
  <2>3. CASE p # e.peer
    <3>1. \A j \in 1..Len(evs) : ~About(evs, p, j)
      BY <1>1, <2>1, <2>3 DEF About
    <3> QED
      BY <2>3, <3>1 DEF CatchesUp, After
  <2> QED
    BY <2>2, <2>3
<1> QED
  BY <1>4, <1>5

-----------------------------------------------------------------------------
(* Types                                                                   *)

MeshTypes == Mesh!TypeOK /\ events \in [Tabs -> Seq(Event)]

LEMMA MeshTypesInit == ASSUME NEW first \in {"new", "left"}, Mesh!InitAt(first) PROVE MeshTypes
<1>1. \A t \in Tabs : events[t] \in Seq(Event)
  BY DEF Mesh!InitAt
<1>2. events \in [Tabs -> Seq(Event)]
  BY <1>1 DEF Mesh!InitAt
<1>3. 0 \in 0..MaxFaults
  BY ShellAssumption
<1> QED
  BY <1>1, <1>2, <1>3 DEF Mesh!InitAt, MeshTypes, Mesh!TypeOK, Event

LEMMA ToldTypes ==
  ASSUME MeshTypes, NEW change, DOMAIN change \subseteq Tabs,
         \A t \in DOMAIN change : change[t] \in Event, Mesh!Told(change)
  PROVE  events' \in [Tabs -> Seq(Event)]
<1>1. ASSUME NEW t \in Tabs
      PROVE  (IF t \in DOMAIN change /\ t \in Mesh!Listening THEN Append(events[t], change[t])
              ELSE events[t]) \in Seq(Event)
  <2>1. events[t] \in Seq(Event)
    BY DEF MeshTypes
  <2> QED
    BY <2>1
<1> QED
  BY <1>1 DEF Mesh!Told

LEMMA ClosedTypes ==
  ASSUME MeshTypes, NEW t \in Tabs, Mesh!Closed(t)
  PROVE  /\ links' \in [Tabs -> SUBSET Tabs] /\ linked' \in [Tabs -> SUBSET Tabs]
         /\ roster' \in [Tabs -> SUBSET Tabs] /\ known' \in [Tabs -> SUBSET Tabs]
         /\ answer' \in [Tabs -> (SUBSET Tabs) \cup {None}] /\ events' \in [Tabs -> Seq(Event)]
         /\ dead' \subseteq Tabs \X Tabs /\ dialing' \subseteq Tabs \X Tabs
<1>1. <<>> \in Seq(Event)
  OBVIOUS
<1>2. events' \in [Tabs -> Seq(Event)]
  BY <1>1 DEF Mesh!Closed, MeshTypes
<1>3. dead' \subseteq Tabs \X Tabs /\ dialing' \subseteq Tabs \X Tabs
  BY DEF Mesh!Closed, MeshTypes, Mesh!TypeOK
<1> QED
  BY <1>2, <1>3 DEF Mesh!Closed, MeshTypes, Mesh!TypeOK

Stages == {"new", "announced", "asked", "found", "live", "leaving", "left"}

LEMMA AskedTypes ==
  ASSUME MeshTypes, NEW t \in Tabs, Mesh!Asked(t)
  PROVE  answer' \in [Tabs -> (SUBSET Tabs) \cup {None}] /\ stage' \in [Tabs -> Stages]
BY DEF Mesh!Asked, MeshTypes, Mesh!TypeOK, Stages

\* A step that neither closes a transport nor tells a tab of an event.
LEMMA SetupTypes ==
  ASSUME MeshTypes, UNCHANGED setting, NEW t \in Tabs,
         Mesh!Announce(t) \/ Mesh!JoinTopic(t) \/ Mesh!Ask(t) \/ Mesh!Heartbeat(t)
           \/ Mesh!PostAnnounce(t) \/ Mesh!Leave(t) \/ Mesh!Lapse(t)
  PROVE  MeshTypes'
<1> USE ShellAssumption DEF MeshTypes, Mesh!TypeOK
<1>0. Mesh!Announcers' = Mesh!Announcers /\ Mesh!Announcers \subseteq Tabs
  BY PageAssumption DEF Mesh!Announcers
<1>1. CASE Mesh!Announce(t)
  BY <1>0, <1>1 DEF Mesh!Announce
<1>2. CASE Mesh!JoinTopic(t)
  BY <1>0, <1>2 DEF Mesh!JoinTopic
<1>3. CASE Mesh!Ask(t)
  <2>1. listed \ {t} \in SUBSET Tabs
    BY <1>0
  <2> QED
    BY <1>0, <1>3, <2>1 DEF Mesh!Ask
<1>4. CASE Mesh!Heartbeat(t)
  BY <1>0, <1>4 DEF Mesh!Heartbeat
<1>5. CASE Mesh!PostAnnounce(t)
  BY <1>0, <1>5 DEF Mesh!PostAnnounce
<1>6. CASE Mesh!Leave(t)
  BY <1>0, <1>6 DEF Mesh!Leave
<1>7. CASE Mesh!Lapse(t)
  <2>1. meshFaults' \in 0..MaxFaults
    BY <1>7 DEF Mesh!Lapse
  <2> QED
    BY <1>0, <1>7, <2>1 DEF Mesh!Lapse
<1> QED
  BY <1>1, <1>2, <1>3, <1>4, <1>5, <1>6, <1>7

LEMMA CloseTypes ==
  ASSUME MeshTypes, UNCHANGED setting, NEW t \in Tabs,
         Mesh!FailSetup(t) \/ Mesh!Vanish(t) \/ \E heard \in BOOLEAN : Mesh!Goodbye(t, heard)
  PROVE  MeshTypes'
<1>1. Mesh!Closed(t)
  BY DEF Mesh!FailSetup, Mesh!Vanish, Mesh!Goodbye
<1>2. /\ stage' \in [Tabs -> Stages] /\ listed' \subseteq listed /\ posting' \subseteq posting
  BY DEF Mesh!FailSetup, Mesh!Vanish, Mesh!Goodbye, MeshTypes, Mesh!TypeOK, Stages
<1>3. meshFaults' \in 0..MaxFaults
  BY ShellAssumption DEF Mesh!FailSetup, Mesh!Vanish, Mesh!Goodbye, MeshTypes, Mesh!TypeOK
<1>4. Mesh!Announcers' = Mesh!Announcers
  BY DEF Mesh!Announcers
<1> QED
  BY <1>1, <1>2, <1>3, <1>4, ClosedTypes DEF MeshTypes, Mesh!TypeOK, Stages, Event

LEMMA AnswerTypes ==
  ASSUME MeshTypes, UNCHANGED setting, NEW t \in Tabs, Mesh!OnAnswer(t) \/ Mesh!LoseAnswer(t)
  PROVE  MeshTypes'
<1>1. answer' \in [Tabs -> (SUBSET Tabs) \cup {None}] /\ stage' \in [Tabs -> Stages]
  BY AskedTypes DEF Mesh!OnAnswer, Mesh!LoseAnswer
<1>2. answer[t] \in SUBSET Tabs
  BY DEF Mesh!OnAnswer, Mesh!LoseAnswer, MeshTypes, Mesh!TypeOK
<1>3. Mesh!Announcers' = Mesh!Announcers
  BY DEF Mesh!Announcers
<1>4. CASE Mesh!LoseAnswer(t)
  <2>1. meshFaults' \in 0..MaxFaults
    BY <1>4, ShellAssumption DEF Mesh!LoseAnswer, MeshTypes, Mesh!TypeOK
  <2> QED
    BY <1>1, <1>3, <1>4, <2>1 DEF Mesh!LoseAnswer, MeshTypes, Mesh!TypeOK, Stages
<1>5. CASE Mesh!OnAnswer(t)
  <2>1. roster' \in [Tabs -> SUBSET Tabs] /\ known' \in [Tabs -> SUBSET Tabs]
    <3>1. known[t] \cup answer[t] \in SUBSET Tabs
      BY <1>2 DEF MeshTypes, Mesh!TypeOK
    <3> QED
      BY <1>2, <1>5, <3>1 DEF Mesh!OnAnswer, MeshTypes, Mesh!TypeOK
  <2>2. dialing' \subseteq Tabs \X Tabs
    BY <1>2, <1>5 DEF Mesh!OnAnswer, Mesh!ToDial, MeshTypes, Mesh!TypeOK
  <2> QED
    BY <1>1, <1>3, <1>5, <2>1, <2>2 DEF Mesh!OnAnswer, MeshTypes, Mesh!TypeOK, Stages
<1> QED
  BY <1>4, <1>5

LEMMA LinkTypes ==
  ASSUME MeshTypes, UNCHANGED setting, NEW t \in Tabs, NEW u \in Tabs \ {t},
         Mesh!Connect(t, u) \/ Mesh!FailDial(t, u) \/ Mesh!Drop(t, u) \/ Mesh!Notice(t, u)
  PROVE  MeshTypes'
<1> USE ShellAssumption DEF MeshTypes, Mesh!TypeOK
<1>0. Mesh!Announcers' = Mesh!Announcers
  BY DEF Mesh!Announcers
<1>1. CASE Mesh!Connect(t, u)
  <2>1. events' \in [Tabs -> Seq(Event)]
    <3> DEFINE other == [w \in {t, u} |-> IF w = t THEN u ELSE t]
               change == [w \in {v \in {t, u} : other[v] \notin links[v]} |->
                            [up |-> TRUE, peer |-> other[w]]]
    <3>1. Mesh!Told(change)
      BY <1>1 DEF Mesh!Connect
    <3>2. DOMAIN change \subseteq Tabs /\ \A w \in DOMAIN change : change[w] \in Event
      BY DEF Event
    <3> HIDE DEF change
    <3> QED
      BY <3>1, <3>2, ToldTypes
  <2>2. links' \in [Tabs -> SUBSET Tabs]
    BY <1>1 DEF Mesh!Connect
  <2> QED
    BY <1>0, <1>1, <2>1, <2>2 DEF Mesh!Connect, Event
<1>2. CASE Mesh!FailDial(t, u)
  <2>1. meshFaults' \in 0..MaxFaults
    BY <1>2 DEF Mesh!FailDial
  <2> QED
    BY <1>0, <1>2, <2>1 DEF Mesh!FailDial
<1>3. CASE Mesh!Drop(t, u)
  <2>1. meshFaults' \in 0..MaxFaults
    BY <1>3 DEF Mesh!Drop
  <2>2. dead' \subseteq Tabs \X Tabs
    BY <1>3 DEF Mesh!Drop
  <2> QED
    BY <1>0, <1>3, <2>1, <2>2 DEF Mesh!Drop
<1>4. CASE Mesh!Notice(t, u)
  <2>1. events' \in [Tabs -> Seq(Event)]
    <3> DEFINE change == [w \in {t} |-> [up |-> FALSE, peer |-> u]]
    <3>1. Mesh!Told(change)
      BY <1>4 DEF Mesh!Notice
    <3>2. DOMAIN change \subseteq Tabs /\ \A w \in DOMAIN change : change[w] \in Event
      BY DEF Event
    <3> HIDE DEF change
    <3> QED
      BY <3>1, <3>2, ToldTypes
  <2>2. links' \in [Tabs -> SUBSET Tabs]
    BY <1>4 DEF Mesh!Notice
  <2> QED
    BY <1>0, <1>4, <2>1, <2>2 DEF Mesh!Notice, Event
<1> QED
  BY <1>1, <1>2, <1>3, <1>4

LEMMA FirstEvent ==
  ASSUME NEW s \in Seq(Event), s # <<>> PROVE Head(s) \in Event /\ Tail(s) \in Seq(Event)
OBVIOUS

LEMMA EventTypes ==
  ASSUME MeshTypes, UNCHANGED setting, NEW t \in Tabs, Mesh!OnEvent(t)
  PROVE  MeshTypes'
<1> USE DEF MeshTypes, Mesh!TypeOK
<1>0. Mesh!Announcers' = Mesh!Announcers
  BY DEF Mesh!Announcers
<1>1. events[t] \in Seq(Event) /\ events[t] # <<>>
  BY DEF Mesh!OnEvent
<1>2. Head(events[t]) \in Event /\ Tail(events[t]) \in Seq(Event)
  BY <1>1, FirstEvent
<1>3. linked' \in [Tabs -> SUBSET Tabs]
  <2>1. linked[t] \cup {Head(events[t]).peer} \in SUBSET Tabs
        /\ linked[t] \ {Head(events[t]).peer} \in SUBSET Tabs
    BY <1>2 DEF Event
  <2> QED
    BY <2>1 DEF Mesh!OnEvent
<1>4. events' \in [Tabs -> Seq(Event)]
  BY <1>2 DEF Mesh!OnEvent
<1> QED
  BY <1>0, <1>3, <1>4 DEF Mesh!OnEvent, Event

LEMMA MeshTypesStep == MeshTypes /\ [Mesh!Next]_<<setting, Mesh!meshVars>> => MeshTypes'
<1> SUFFICES ASSUME MeshTypes, [Mesh!Next]_<<setting, Mesh!meshVars>> PROVE MeshTypes'
  OBVIOUS
<1>1. CASE UNCHANGED <<setting, Mesh!meshVars>>
  BY <1>1 DEF Mesh!meshVars, MeshTypes, Mesh!TypeOK, Mesh!Announcers
<1>2. ASSUME UNCHANGED setting, NEW t \in Tabs, Mesh!OnEvent(t) PROVE MeshTypes'
  BY <1>2, EventTypes
<1>3. CASE Mesh!Next
  BY <1>2, <1>3, SetupTypes, CloseTypes, AnswerTypes, LinkTypes
  DEF Mesh!Next, Mesh!Working, Mesh!Stepping, Mesh!Polling, Mesh!Announcing, Mesh!Dialing
<1> QED
  BY <1>1, <1>3

-----------------------------------------------------------------------------
(* Links                                                                   *)

\* A tab may be dialled before it listens to events in no mesh.
NoneEarly == Early => \A s \in Settings : s.swarm

Quiet ==
  \A t \in Tabs : t \notin Mesh!Listening => events[t] = <<>> /\ linked[t] = {} /\ links[t] = {}
Asking == \A t \in Tabs : answer[t] # None => stage[t] \in {"asked", "live", "leaving"}
Dialers == \A t, u \in Tabs : <<t, u>> \in dialing => t \in Mesh!Listening
Caught == \A t \in Tabs : CatchesUp(events[t], linked[t], links[t])
MeshInv == MeshTypes /\ Quiet /\ Asking /\ Dialers /\ Caught

LEMMA MeshInit == ASSUME NEW first \in {"new", "left"}, Mesh!InitAt(first) PROVE MeshInv
<1>1. MeshTypes
  BY MeshTypesInit
<1>2. Quiet /\ Asking /\ Dialers
  BY DEF Mesh!InitAt, Mesh!Listening, Quiet, Asking, Dialers
<1>3. Caught
  BY NothingYet DEF Mesh!InitAt, Caught
<1> QED
  BY <1>1, <1>2, <1>3 DEF MeshInv

\* A step that links nobody and tells nobody anything.
LEMMA LinksStay ==
  ASSUME MeshInv, MeshTypes', UNCHANGED <<links, linked, events>>, Asking', Dialers',
         Mesh!Listening \subseteq Mesh!Listening'
  PROVE  MeshInv'
BY DEF MeshInv, Quiet, Caught

LEMMA SetupInv ==
  ASSUME MeshInv, MeshTypes', NEW t \in Tabs,
         Mesh!Announce(t) \/ Mesh!JoinTopic(t) \/ Mesh!Ask(t) \/ Mesh!Heartbeat(t)
           \/ Mesh!PostAnnounce(t) \/ Mesh!Leave(t) \/ Mesh!Lapse(t)
  PROVE  MeshInv'
<1>1. UNCHANGED <<links, linked, events>>
  BY DEF Mesh!Announce, Mesh!JoinTopic, Mesh!Ask, Mesh!Heartbeat, Mesh!PostAnnounce, Mesh!Leave,
         Mesh!Lapse
<1>2. Mesh!Listening \subseteq Mesh!Listening'
  BY DEF Mesh!Announce, Mesh!JoinTopic, Mesh!Ask, Mesh!Heartbeat, Mesh!PostAnnounce, Mesh!Leave,
         Mesh!Lapse, Mesh!Listening, Mesh!Live, MeshInv, MeshTypes, Mesh!TypeOK
<1>3. Asking'
  BY DEF Mesh!Announce, Mesh!JoinTopic, Mesh!Ask, Mesh!Heartbeat, Mesh!PostAnnounce, Mesh!Leave,
         Mesh!Lapse, Mesh!Live, MeshInv, MeshTypes, Mesh!TypeOK, Asking
<1>4. Dialers'
  <2>1. CASE Mesh!JoinTopic(t)
    <3>1. t \in Mesh!Listening'
      BY <2>1 DEF Mesh!JoinTopic, Mesh!Listening, MeshInv, MeshTypes, Mesh!TypeOK
    <3>2. \A w, u \in Tabs : <<w, u>> \in dialing' => <<w, u>> \in dialing \/ w = t
      BY <2>1 DEF Mesh!JoinTopic
    <3> QED
      BY <1>2, <3>1, <3>2 DEF MeshInv, Dialers
  <2>2. CASE ~Mesh!JoinTopic(t)
    <3>1. UNCHANGED dialing
      BY <2>2 DEF Mesh!Announce, Mesh!Ask, Mesh!Heartbeat, Mesh!PostAnnounce, Mesh!Leave, Mesh!Lapse
    <3> QED
      BY <1>2, <3>1 DEF MeshInv, Dialers
  <2> QED
    BY <2>1, <2>2
<1> QED
  BY <1>1, <1>2, <1>3, <1>4, LinksStay

LEMMA CloseInv ==
  ASSUME MeshInv, MeshTypes', NEW t \in Tabs,
         Mesh!FailSetup(t) \/ Mesh!Vanish(t) \/ \E heard \in BOOLEAN : Mesh!Goodbye(t, heard)
  PROVE  MeshInv'
<1>1. Mesh!Closed(t) /\ stage' = [stage EXCEPT ![t] = "left"]
  BY DEF Mesh!FailSetup, Mesh!Vanish, Mesh!Goodbye
<1>2. ASSUME NEW w \in Tabs
      PROVE  IF w = t THEN events'[w] = <<>> /\ linked'[w] = {} /\ links'[w] = {} /\ answer'[w] = None
             ELSE /\ events'[w] = events[w] /\ linked'[w] = linked[w] /\ links'[w] = links[w]
                  /\ answer'[w] = answer[w] /\ stage'[w] = stage[w]
  BY <1>1 DEF Mesh!Closed, MeshInv, MeshTypes, Mesh!TypeOK
<1>3. Mesh!Listening' = Mesh!Listening \ {t}
  BY <1>1 DEF Mesh!Listening, MeshInv, MeshTypes, Mesh!TypeOK
<1>4. Quiet' /\ Asking'
  BY <1>2, <1>3 DEF MeshInv, Quiet, Asking
<1>5. Dialers'
  <2>1. \A w, u \in Tabs : <<w, u>> \in dialing' => <<w, u>> \in dialing /\ w # t
    BY <1>1 DEF Mesh!Closed
  <2> QED
    BY <1>3, <2>1 DEF MeshInv, Dialers
<1>6. Caught'
  <2> SUFFICES ASSUME NEW w \in Tabs PROVE CatchesUp(events'[w], linked'[w], links'[w])
    BY DEF Caught
  <2>1. CASE w = t
    BY <1>2, <2>1, NothingYet
  <2>2. CASE w # t
    BY <1>2, <2>2 DEF MeshInv, Caught
  <2> QED
    BY <2>1, <2>2
<1> QED
  BY <1>4, <1>5, <1>6 DEF MeshInv

LEMMA AnswerInv ==
  ASSUME MeshInv, MeshTypes', NEW t \in Tabs, Mesh!OnAnswer(t) \/ Mesh!LoseAnswer(t)
  PROVE  MeshInv'
<1>1. UNCHANGED <<links, linked, events>> /\ Mesh!Asked(t) /\ answer[t] # None
  BY DEF Mesh!OnAnswer, Mesh!LoseAnswer
<1>2. stage[t] \in {"asked", "live", "leaving"}
  BY <1>1 DEF MeshInv, Asking
<1>3. Mesh!Listening \subseteq Mesh!Listening' /\ (~Mesh!Swarm => t \in Mesh!Listening')
      /\ (stage[t] # "asked" => t \in Mesh!Listening')
  BY <1>1, <1>2 DEF Mesh!Asked, Mesh!Listening, MeshInv, MeshTypes, Mesh!TypeOK
<1>4. Asking'
  BY <1>1 DEF Mesh!Asked, MeshInv, MeshTypes, Mesh!TypeOK, Asking
<1>5. Dialers'
  <2>1. \A w, u \in Tabs : <<w, u>> \in dialing' => <<w, u>> \in dialing \/ (w = t /\ t \in Mesh!Listening')
    <3>1. CASE Mesh!LoseAnswer(t)
      BY <3>1 DEF Mesh!LoseAnswer
    <3>2. CASE Mesh!OnAnswer(t)
      <4>1. CASE Mesh!Swarm /\ stage[t] = "asked"
        <5>1. dialing' = dialing
          BY <3>2, <4>1 DEF Mesh!OnAnswer
        <5> QED
          BY <5>1
      <4>2. CASE ~(Mesh!Swarm /\ stage[t] = "asked")
        BY <1>3, <3>2, <4>2 DEF Mesh!OnAnswer
      <4> QED
        BY <4>1, <4>2
    <3> QED
      BY <3>1, <3>2
  <2> QED
    BY <1>3, <2>1 DEF MeshInv, Dialers
<1> QED
  BY <1>1, <1>3, <1>4, <1>5, LinksStay

\* A tab that listens is told of what happens to one of its connections.
LEMMA ToldCatchesUp ==
  ASSUME MeshInv, NEW t \in Tabs, t \in Mesh!Listening, NEW e \in Event,
         events'[t] = Append(events[t], e), links'[t] = After(e, links[t])
  PROVE  CatchesUp(events'[t], linked[t], links'[t])
<1>1. events[t] \in Seq(Event) /\ CatchesUp(events[t], linked[t], links[t])
  BY DEF MeshInv, MeshTypes, Caught
<1> QED
  BY <1>1, OneMore

\* Both ends of a new connection listen, and are told of it unless they have it already.
LEMMA ConnectInv ==
  ASSUME NoneEarly, MeshInv, MeshTypes', NEW t \in Tabs, NEW u \in Tabs \ {t}, Mesh!Connect(t, u)
  PROVE  MeshInv'
<1>1. {t, u} \subseteq Mesh!Listening
  <2>1. Mesh!Swarm \/ ~Early
    BY DEF NoneEarly, Mesh!Swarm, MeshInv, MeshTypes, Mesh!TypeOK
  <2> QED
    BY <2>1 DEF Mesh!Connect, MeshInv, Dialers
<1> DEFINE other == [w \in {t, u} |-> IF w = t THEN u ELSE t]
           change == [w \in {v \in {t, u} : other[v] \notin links[v]} |->
                        [up |-> TRUE, peer |-> other[w]]]
<1>2. /\ Mesh!Told(change) /\ UNCHANGED <<stage, answer, linked>> /\ dialing' \subseteq dialing
      /\ links' = [links EXCEPT ![t] = @ \cup {u}, ![u] = @ \cup {t}]
  BY DEF Mesh!Connect
<1>3. Mesh!Listening' = Mesh!Listening
  BY <1>2 DEF Mesh!Listening
<1>4. ASSUME NEW w \in Tabs, w \notin {t, u}
      PROVE  events'[w] = events[w] /\ links'[w] = links[w]
  BY <1>2, <1>4 DEF Mesh!Told, MeshInv, MeshTypes, Mesh!TypeOK
<1>5. ASSUME NEW w \in {t, u}
      PROVE  CatchesUp(events'[w], linked[w], links'[w])
  <2>1. links'[w] = links[w] \cup {other[w]} /\ other[w] \in Tabs
    BY <1>2 DEF MeshInv, MeshTypes, Mesh!TypeOK
  <2>2. CASE other[w] \in links[w]
    <3>1. links'[w] = links[w] /\ events'[w] = events[w]
      BY <1>2, <2>1, <2>2 DEF Mesh!Told
    <3> QED
      BY <3>1 DEF MeshInv, Caught
  <2>3. CASE other[w] \notin links[w]
    <3> DEFINE e == [up |-> TRUE, peer |-> other[w]]
    <3>1. w \in DOMAIN change /\ change[w] = e
      BY <2>3
    <3>2. events'[w] = Append(events[w], e)
      BY <1>1, <1>2, <3>1 DEF Mesh!Told
    <3>3. e \in Event /\ links'[w] = After(e, links[w])
      BY <2>1 DEF Event, After
    <3> QED
      BY <1>1, <3>2, <3>3, ToldCatchesUp
  <2> QED
    BY <2>2, <2>3
<1>6. Caught'
  BY <1>2, <1>4, <1>5 DEF MeshInv, Caught
<1>7. Quiet'
  BY <1>1, <1>2, <1>3, <1>4 DEF MeshInv, Quiet
<1>8. Asking' /\ Dialers'
  BY <1>2, <1>3 DEF MeshInv, Asking, Dialers
<1> QED
  BY <1>6, <1>7, <1>8 DEF MeshInv

LEMMA NoticeInv ==
  ASSUME MeshInv, MeshTypes', NEW t \in Tabs, NEW u \in Tabs \ {t}, Mesh!Notice(t, u)
  PROVE  MeshInv'
<1> DEFINE e == [up |-> FALSE, peer |-> u]
<1>1. /\ Mesh!Told([w \in {t} |-> e]) /\ UNCHANGED <<stage, answer, linked, dialing>>
      /\ links' = [links EXCEPT ![t] = @ \ {u}]
  BY DEF Mesh!Notice
<1>2. Mesh!Listening' = Mesh!Listening
  BY <1>1 DEF Mesh!Listening
<1>3. ASSUME NEW w \in Tabs, w # t PROVE events'[w] = events[w] /\ links'[w] = links[w]
  BY <1>1, <1>3 DEF Mesh!Told, MeshInv, MeshTypes, Mesh!TypeOK
<1>4. e \in Event /\ links'[t] = After(e, links[t])
  BY <1>1 DEF Event, After, MeshInv, MeshTypes, Mesh!TypeOK
<1>5. CASE t \in Mesh!Listening
  <2>1. events'[t] = Append(events[t], e)
    BY <1>1, <1>5 DEF Mesh!Told
  <2>2. CatchesUp(events'[t], linked[t], links'[t])
    BY <1>4, <1>5, <2>1, ToldCatchesUp
  <2>3. Caught' /\ Quiet'
    BY <1>1, <1>2, <1>3, <1>5, <2>2 DEF MeshInv, Caught, Quiet
  <2> QED
    BY <1>1, <1>2, <2>3 DEF MeshInv, Asking, Dialers
<1>6. CASE t \notin Mesh!Listening
  <2>1. events'[t] = events[t] /\ links'[t] = links[t]
    BY <1>1, <1>6 DEF Mesh!Told, MeshInv, MeshTypes, Mesh!TypeOK, Quiet
  <2>2. Caught' /\ Quiet'
    BY <1>1, <1>2, <1>3, <2>1 DEF MeshInv, Caught, Quiet
  <2> QED
    BY <1>1, <1>2, <2>2 DEF MeshInv, Asking, Dialers
<1> QED
  BY <1>5, <1>6

LEMMA EventInv ==
  ASSUME MeshInv, MeshTypes', NEW t \in Tabs, Mesh!OnEvent(t)
  PROVE  MeshInv'
<1>1. /\ t \in Mesh!Listening /\ events[t] # <<>> /\ UNCHANGED <<stage, answer, dialing, links>>
      /\ events' = [events EXCEPT ![t] = Tail(events[t])]
      /\ linked' = [linked EXCEPT ![t] = After(Head(events[t]), linked[t])]
  BY DEF Mesh!OnEvent, After, MeshInv, MeshTypes, Mesh!TypeOK
<1>2. Mesh!Listening' = Mesh!Listening
  BY <1>1 DEF Mesh!Listening
<1>3. ASSUME NEW w \in Tabs, w # t PROVE events'[w] = events[w] /\ linked'[w] = linked[w]
  BY <1>1, <1>3 DEF MeshInv, MeshTypes, Mesh!TypeOK
<1>4. events'[t] = Tail(events[t]) /\ linked'[t] = After(Head(events[t]), linked[t])
  BY <1>1 DEF MeshInv, MeshTypes, Mesh!TypeOK
<1>5. CatchesUp(events'[t], linked'[t], links[t])
  <2>1. events[t] \in Seq(Event) /\ CatchesUp(events[t], linked[t], links[t])
    BY DEF MeshInv, MeshTypes, Caught
  <2> QED
    BY <1>1, <1>4, <2>1, OneRead
<1>6. Caught' /\ Quiet'
  BY <1>1, <1>2, <1>3, <1>5 DEF MeshInv, Caught, Quiet
<1> QED
  BY <1>1, <1>2, <1>6 DEF MeshInv, Asking, Dialers

LEMMA MeshStep == NoneEarly /\ MeshInv /\ [Mesh!Next]_<<setting, Mesh!meshVars>> => MeshInv'
<1> SUFFICES ASSUME NoneEarly, MeshInv, [Mesh!Next]_<<setting, Mesh!meshVars>> PROVE MeshInv'
  OBVIOUS
<1>1. MeshTypes'
  BY MeshTypesStep DEF MeshInv
<1>2. CASE UNCHANGED <<setting, Mesh!meshVars>>
  BY <1>1, <1>2 DEF Mesh!meshVars, Mesh!Listening, MeshInv, Quiet, Asking, Dialers, Caught
<1>3. ASSUME NEW t \in Tabs, NEW u \in Tabs \ {t}, Mesh!FailDial(t, u) \/ Mesh!Drop(t, u) PROVE MeshInv'
  <2>1. UNCHANGED <<links, linked, events, stage, answer>> /\ dialing' \subseteq dialing
    BY <1>3 DEF Mesh!FailDial, Mesh!Drop
  <2> QED
    BY <1>1, <2>1 DEF Mesh!Listening, MeshInv, Quiet, Asking, Dialers, Caught
<1>4. CASE Mesh!Next
  BY <1>1, <1>3, <1>4, SetupInv, CloseInv, AnswerInv, ConnectInv, NoticeInv, EventInv
  DEF Mesh!Next, Mesh!Working, Mesh!Stepping, Mesh!Polling, Mesh!Announcing, Mesh!Dialing
<1> QED
  BY <1>2, <1>4

-----------------------------------------------------------------------------
LEMMA MeshTypesHold == AllSpec => []MeshTypes
<1>1. (\E first \in {"new", "left"} : Mesh!InitAt(first)) => MeshTypes
  BY MeshTypesInit
<1> QED
  BY <1>1, MeshTypesStep, MeshPart, PTL

\* Once a live tab has read its events it calls connected the peers its transport holds a
\* connection to, and no others: the event handlers of connect() in src/src/runtime.ts, however
\* connections are made, superseded, dropped and noticed.  The premise is the one under which the run
\* checks it: in a mesh nobody is dialled before it listens, which the code does not make sure of.
THEOREM ConnectedIsLinked == ASSUME NoneEarly PROVE AllSpec => []LinksAgree
<1>1. (\E first \in {"new", "left"} : Mesh!InitAt(first)) => MeshInv
  BY MeshInit
<1>2. MeshInv /\ [Mesh!Next]_<<setting, Mesh!meshVars>> => MeshInv'
  BY MeshStep
<1>3. MeshInv => LinksAgree
  <2> SUFFICES ASSUME MeshInv, NEW t \in Tabs, events[t] = <<>> PROVE linked[t] = links[t]
    BY DEF LinksAgree, Mesh!LinksAgree, Mesh!Live
  <2>1. linked[t] \in SUBSET Tabs /\ links[t] \in SUBSET Tabs /\ CatchesUp(<<>>, linked[t], links[t])
    BY DEF MeshInv, MeshTypes, Mesh!TypeOK, Caught
  <2> QED
    BY <2>1, ReadAll
<1> QED
  BY <1>1, <1>2, <1>3, MeshPart, PTL
=============================================================================
