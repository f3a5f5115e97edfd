----------------------------- MODULE PageProofs -----------------------------
(***************************************************************************)
(* Theorems about the other parts of Page, for all values of the           *)
(* constants, and the types of all of them.                                *)
(*                                                                         *)
(* The shell: the token has left the address once it is exchanged, and the *)
(* cookie is there from the revision on; a visible notice has a revision   *)
(* to go to, and a frame sent to a revision by name has one, so that only  *)
(* a bare frame takes the first answer for what it shows.                  *)
(*                                                                         *)
(* The agent: if the app sends nothing before the record is loaded, the    *)
(* transcript begins with what is stored from then on.                     *)
(*                                                                         *)
(* The room: a value that waits for its throttle and is new to the         *)
(* document is the tab's echo and too young to be given up; no read finds  *)
(* it, so none lifts the echo.                                             *)
(*                                                                         *)
(* The development page: that its channels are numbered within bounds      *)
(* takes counting those that are still to come.  An armed prompt is a      *)
(* gesture not spent yet; a reply that says ok is a card shown before,     *)
(* whichever channel it is on.                                             *)
(***************************************************************************)
EXTENDS MeshProofs

LEMMA ShellPart ==
  AllSpec => (\E first \in {"start", "left"} : InitAt(first)) /\ [][Next]_vars
<1>1. AllInit => \E first \in {"start", "left"} : InitAt(first)
  BY DEF AllInit
<1>2. [AllNext]_allVars => [Next]_vars
  BY DEF AllNext, Only, allVars
<1> QED
  BY <1>1, <1>2, PTL DEF AllSpec

-----------------------------------------------------------------------------
(* The shell                                                               *)
StoredBefore ==
  /\ page \in {"revision", "open"} => cookie /\ ~url
  /\ page = "storing" => ~url
Noticed ==
  /\ named => page = "open" /\ committed = framed /\ framed # None
  /\ banner => page = "open" /\ latest # None
  /\ poll # "none" => page = "open"
ShellInv == TypeOK /\ StoredBefore /\ Noticed

\* The kinds of step, by what they leave alone.
bootVars == <<url, cookie, page>>
shownVars == <<page, named, framed, noticeVars>>

LEMMA NoticesStay ==
  ASSUME Noticed, UNCHANGED shownVars, poll' # "none" => page = "open" PROVE Noticed'
BY DEF Noticed, shownVars, noticeVars

LEMMA BootStays == ASSUME StoredBefore, UNCHANGED bootVars PROVE StoredBefore'
BY DEF StoredBefore, bootVars

LEMMA ShellInit == ASSUME NEW first \in {"start", "left"}, InitAt(first) PROVE ShellInv
<1>1. TypeOK
  <2>1. 0 \in 0..MaxDeploys /\ 0 \in 0..MaxFaults /\ 0 \in 0..MaxReloads
    BY ShellAssumption
  <2>2. url \in BOOLEAN /\ cookie \in BOOLEAN /\ named \in BOOLEAN /\ banner \in BOOLEAN
    BY DEF InitAt
  <2> QED
    BY <2>1, <2>2 DEF InitAt, TypeOK, Booting, Revision, Poll
<1>2. StoredBefore /\ Noticed
  BY DEF InitAt, StoredBefore, Noticed
<1> QED
  BY <1>1, <1>2 DEF ShellInv

LEMMA StepTypes == TypeOK /\ [Next]_vars => TypeOK'
<1> SUFFICES ASSUME TypeOK, [Next]_vars PROVE TypeOK'
  OBVIOUS
<1> USE ShellAssumption DEF TypeOK, Booting, Revision, Poll, noticeVars
<1>1. CASE Boot
  BY <1>1 DEF Boot, Exchange, StoreCookie, FromCookie, OpenFrame
<1>2. CASE FailBoot \/ OpenBareFrame \/ FailPoll
  BY <1>2 DEF FailBoot, OpenBareFrame, FailPoll, Fault
<1>3. CASE Ask \/ AnswerPoll
  BY <1>3 DEF Ask, AnswerPoll
<1>4. CASE OnAnswer
  <2>1. committed' \in Revision /\ latest' \in Revision
    BY <1>4 DEF OnAnswer
  <2>2. banner' \in BOOLEAN
    BY <1>4 DEF OnAnswer
  <2> QED
    BY <1>4, <2>1, <2>2 DEF OnAnswer
<1>5. CASE ClickUpdate \/ DismissUpdate
  BY <1>5 DEF ClickUpdate, DismissUpdate
<1>6. ASSUME NEW c \in Cids, Deploy(c) PROVE TypeOK'
  BY <1>6 DEF Deploy
<1>7. CASE Reload
  <2>1. reloads' \in 0..MaxReloads
    BY <1>7 DEF Reload
  <2> QED
    BY <1>7, <2>1 DEF Reload
<1>8. CASE UNCHANGED vars
  BY <1>8 DEF vars
<1> QED
  BY <1>1, <1>2, <1>3, <1>4, <1>5, <1>6, <1>7, <1>8 DEF Next, Polling

LEMMA StepBoot == TypeOK /\ StoredBefore /\ [Next]_vars => StoredBefore'
<1> SUFFICES ASSUME TypeOK, StoredBefore, [Next]_vars PROVE StoredBefore'
  OBVIOUS
<1>1. CASE Boot \/ FailBoot \/ OpenBareFrame
  BY <1>1 DEF TypeOK, StoredBefore, Boot, Exchange, StoreCookie, FromCookie, OpenFrame, FailBoot,
              OpenBareFrame
<1>2. CASE Reload
  BY <1>2 DEF StoredBefore, Reload
<1>3. CASE Polling \/ FailPoll \/ ClickUpdate \/ DismissUpdate \/ UNCHANGED vars
           \/ \E c \in Cids : Deploy(c)
  BY <1>3, BootStays
  DEF Polling, Ask, AnswerPoll, OnAnswer, FailPoll, ClickUpdate, DismissUpdate, Deploy, vars, bootVars
<1> QED
  BY <1>1, <1>2, <1>3 DEF Next

LEMMA StepNotices == TypeOK /\ Noticed /\ [Next]_vars => Noticed'
<1> SUFFICES ASSUME TypeOK, Noticed, [Next]_vars PROVE Noticed'
  OBVIOUS
<1>1. CASE OpenFrame
  BY <1>1, ShellAssumption DEF OpenFrame, Noticed, TypeOK
<1>2. CASE OpenBareFrame
  BY <1>2 DEF OpenBareFrame, Noticed, TypeOK, noticeVars
<1>3. CASE OnAnswer
  <2>1. CASE committed = None
    BY <1>3, <2>1, ShellAssumption DEF OnAnswer, Noticed
  <2>2. CASE committed # None /\ committed = poll
    BY <1>3, <2>2 DEF OnAnswer, Noticed
  <2>3. CASE committed # None /\ committed # poll
    BY <1>3, <2>3, ShellAssumption DEF OnAnswer, Noticed
  <2> QED
    BY <2>1, <2>2, <2>3
<1>4. CASE ClickUpdate \/ DismissUpdate \/ Reload
  BY <1>4 DEF ClickUpdate, DismissUpdate, Reload, Noticed
<1>5. CASE Exchange \/ StoreCookie \/ FromCookie \/ FailBoot
  BY <1>5 DEF Exchange, StoreCookie, FromCookie, FailBoot, Noticed, noticeVars
<1>6. CASE Ask \/ AnswerPoll \/ FailPoll
           \/ UNCHANGED vars \/ \E c \in Cids : Deploy(c)
  BY <1>6, NoticesStay
  DEF Noticed, Ask, AnswerPoll, FailPoll, Deploy, vars,
      shownVars, noticeVars
<1> QED
  BY <1>1, <1>2, <1>3, <1>4, <1>5, <1>6 DEF Next, Boot, Polling

LEMMA ShellStep == ShellInv /\ [Next]_vars => ShellInv'
BY StepTypes, StepBoot, StepNotices DEF ShellInv

LEMMA ShellInvariant == AllSpec => []ShellInv
<1>1. (\E first \in {"start", "left"} : InitAt(first)) => ShellInv
  BY ShellInit
<1> QED
  BY <1>1, ShellStep, ShellPart, PTL

\* Every variable of the shell keeps its type.
THEOREM ShellTypes == AllSpec => []TypeOK
<1>1. ShellInv => TypeOK
  BY DEF ShellInv
<1> QED
  BY <1>1, ShellInvariant, PTL

\* A page that has opened its app can be reloaded: boot() in src/src/host.ts stores the cookie
\* before it goes on, and drops the token from the address only once it has been exchanged.
THEOREM ReloadRestores == AllSpec => []Restorable
<1>1. ShellInv => Restorable
  BY DEF ShellInv, StoredBefore, Restorable
<1> QED
  BY <1>1, ShellInvariant, PTL

\* The shell compares each revision it reads with the one its frame shows: commitRevision and
\* checkForAppUpdate() in src/src/host.ts, over clicks during a poll, deployments and reloads.
THEOREM ComparesWithShown == AllSpec => []CommittedShown
<1>1. ShellInv => CommittedShown
  BY DEF ShellInv, Noticed, CommittedShown
<1> QED
  BY <1>1, ShellInvariant, PTL
-----------------------------------------------------------------------------
(* The agent                                                               *)

\* Unless the app sent before ready(): before the record is loaded there is no turn, and from then
\* on the transcript begins with what is stored.
Opened ==
  /\ load \in {"going", "done", "broken"}
  /\ load = "going" /\ ~hasty => /\ transcript = {} /\ run = "idle" /\ ~turnActive
                                 /\ \A m \in Sends : sent[m] = "unsent"
Continues == load = "done" /\ ~hasty => stored \subseteq transcript

LEMMA AgentPart ==
  AllSpec => /\ \E first \in {"going", "done"} : Agent!InitAt(first)
             /\ [][Agent!Next]_(Agent!agentVars)
<1>1. AllInit => \E first \in {"going", "done"} : Agent!InitAt(first)
  BY DEF AllInit
<1>2. [AllNext]_allVars => [Agent!Next]_(Agent!agentVars)
  BY DEF AllNext, Only, allVars, agentV, Agent!agentVars
<1> QED
  BY <1>1, <1>2, PTL DEF AllSpec

\* What a send, or a prompt that fails, makes of the stages.
LEMMA Handed ==
  ASSUME Agent!TypeOK, NEW m \in Sends, Agent!Hand(m)
  PROVE  /\ sent' \in [Sends -> {"unsent", "building", "handed", "late", "failed"}]
         /\ run' \in {"idle", "prompted", "running", "ending"}
         /\ prompt' \subseteq Sends /\ steering' \subseteq Sends
<1> USE DEF Agent!TypeOK, Agent!Hand, Agent!IsStreaming
<1>1. sent' \in [Sends -> {"unsent", "building", "handed", "late", "failed"}]
  OBVIOUS
<1> QED
  BY <1>1

LEMMA LateStages ==
  ASSUME NEW ms, NEW stages \in [Sends -> {"unsent", "building", "handed", "late", "failed"}]
  PROVE  Agent!Late(ms, stages) \in [Sends -> {"unsent", "building", "handed", "late", "failed"}]
BY DEF Agent!Late

LEMMA AgentTypeInit ==
  ASSUME NEW first \in {"going", "done"}, Agent!InitAt(first) PROVE Agent!TypeOK
BY DEF Agent!InitAt, Agent!TypeOK

LEMMA AgentTypeStep == Agent!TypeOK /\ [Agent!Next]_(Agent!agentVars) => Agent!TypeOK'
<1> SUFFICES ASSUME Agent!TypeOK, [Agent!Next]_(Agent!agentVars) PROVE Agent!TypeOK'
  OBVIOUS
<1>1. CASE Agent!Pull \/ \E ok \in BOOLEAN : Agent!Load(ok)
  BY <1>1 DEF Agent!Pull, Agent!Load, Agent!TypeOK
<1>2. ASSUME NEW m \in Sends, Agent!Send(m) PROVE Agent!TypeOK'
  <2>1. UNCHANGED <<stored, pulled, load, transcript, aborting>> /\ turnActive' \in BOOLEAN /\ hasty' \in BOOLEAN
    BY <1>2 DEF Agent!Send, Agent!TypeOK
  <2>2. CASE m \in WithImages
    BY <1>2, <2>1, <2>2 DEF Agent!Send, Agent!TypeOK
  <2>3. CASE m \notin WithImages
    BY <1>2, <2>1, <2>3, Handed DEF Agent!Send, Agent!TypeOK
  <2> QED
    BY <2>2, <2>3
<1>3. ASSUME NEW m \in Sends, Agent!Built(m) PROVE Agent!TypeOK'
  BY <1>3, Handed DEF Agent!Built, Agent!TypeOK
<1>4. ASSUME NEW m \in Sends, Agent!BuildFails(m) PROVE Agent!TypeOK'
  BY <1>4 DEF Agent!BuildFails, Agent!TypeOK
<1>5. CASE Agent!PromptFails
  <2>1. [m \in Sends |-> IF m \in prompt THEN "failed" ELSE sent[m]]
          \in [Sends -> {"unsent", "building", "handed", "late", "failed"}]
    BY DEF Agent!TypeOK
  <2> QED
    BY <1>5, <2>1, LateStages DEF Agent!PromptFails, Agent!TypeOK
<1>6. CASE Agent!Abort
  <2>1. Agent!Late(steering, sent) \in [Sends -> {"unsent", "building", "handed", "late", "failed"}]
    BY LateStages DEF Agent!TypeOK
  <2> QED
    BY <1>6, <2>1 DEF Agent!Abort, Agent!IsStreaming, Agent!TypeOK
<1>7. CASE Agent!AgentStart \/ Agent!TakeSteering \/ Agent!AgentEnd \/ Agent!FinishRun
  BY <1>7 DEF Agent!AgentStart, Agent!TakeSteering, Agent!AgentEnd, Agent!FinishRun, Agent!TypeOK
<1>8. CASE UNCHANGED Agent!agentVars
  BY <1>8 DEF Agent!agentVars, Agent!TypeOK
<1> QED
  BY <1>1, <1>2, <1>3, <1>4, <1>5, <1>6, <1>7, <1>8 DEF Agent!Next, Agent!Working

\* Only the agent's own behaviours matter: the session of the others has loaded nothing.
Resumed == subject = "agent" => Opened /\ Continues

LEMMA ResumedInit == AllInit => Resumed
BY DEF AllInit, Agent!InitAt, Resumed, Opened, Continues

LEMMA ResumedStep ==
  ASSUME PullFirst, Resumed, [AllNext]_allVars
  PROVE  Resumed' /\ (stored \subseteq stored' \/ hasty)
<1>1. CASE subject # "agent" \/ UNCHANGED agentV
  <2>1. UNCHANGED <<agentV, subject>>
    BY <1>1 DEF AllNext, Only, allVars
  <2> QED
    BY <2>1 DEF agentV, Resumed, Opened, Continues
<1>2. CASE subject = "agent" /\ ~UNCHANGED agentV
  <2> SUFFICES (Opened /\ Continues)' /\ (stored \subseteq stored' \/ hasty)
    BY DEF Resumed
  <2>1. Agent!Next /\ Opened /\ Continues
    BY <1>2 DEF AllNext, Only, allVars, Resumed
  <2> USE <2>1 DEF Opened, Continues
  <2>2. CASE Agent!Pull \/ Agent!FinishRun \/ Agent!PromptFails \/ Agent!Abort
    BY <2>2 DEF Agent!Pull, Agent!FinishRun, Agent!PromptFails, Agent!Abort, Agent!IsStreaming
  <2>3. ASSUME NEW ok \in BOOLEAN, Agent!Load(ok) PROVE (Opened /\ Continues)' /\ (stored \subseteq stored' \/ hasty)
    BY <2>3 DEF Agent!Load
  <2>4. ASSUME NEW m \in Sends, Agent!Send(m)
        PROVE  (Opened /\ Continues)' /\ (stored \subseteq stored' \/ hasty)
    BY <2>4 DEF Agent!Send
  <2>5. ASSUME NEW m \in Sends, Agent!Built(m) \/ Agent!BuildFails(m)
        PROVE  (Opened /\ Continues)' /\ (stored \subseteq stored' \/ hasty)
    BY <2>5 DEF Agent!Built, Agent!BuildFails, Agent!Hand
  <2>6. CASE Agent!AgentStart \/ Agent!TakeSteering \/ Agent!AgentEnd
    BY <2>6 DEF Agent!AgentStart, Agent!TakeSteering, Agent!AgentEnd
  <2> QED
    BY <2>2, <2>3, <2>4, <2>5, <2>6 DEF Agent!Next, Agent!Working
<1> QED
  BY <1>1, <1>2

\* The save after each turn of createAgentSession() (src/src/agent/index.ts) drops no message that was
\* stored before, over sends, images, aborts and steering, if the replica was up to date when the
\* session loaded and the app sends nothing before ready().
THEOREM ConversationsAreKept ==
  ASSUME PullFirst PROVE AllSpec => HistoryKept
<1>1. Resumed /\ [AllNext]_allVars => Resumed'
  BY ResumedStep
<1>2. Resumed /\ [AllNext]_allVars => [stored \subseteq stored' \/ hasty]_(Agent!agentVars)
  BY ResumedStep
<1> QED
  BY <1>1, <1>2, ResumedInit, PTL DEF AllSpec, HistoryKept, Agent!HistoryKept


-----------------------------------------------------------------------------
(* The room                                                                *)

LEMMA RoomPart ==
  AllSpec => (\E first \in {"new", "left"} : Room!InitAt(first)) /\ [][Room!Next]_(Room!roomVars)
<1>1. AllInit => \E first \in {"new", "left"} : Room!InitAt(first)
  BY DEF AllInit
<1>2. [AllNext]_allVars => [Room!Next]_(Room!roomVars)
  BY DEF AllNext, Only, allVars, roomV, Room!roomVars
<1> QED
  BY <1>1, <1>2, PTL DEF AllSpec

\* A value that waits for its throttle and is new to the document is the one shown, and too young
\* to be given up.
NewTo(v, written) == \A i \in 1..Len(written) : written[i] # v
Waiting ==
  \A t \in Tabs : queued[t] # None /\ NewTo(queued[t], wrote) => echo[t] = queued[t] /\ ~aged[t]
RoomInv == Room!TypeOK /\ Waiting

LEMMA Written ==
  ASSUME NEW v \in Values, wrote \in Seq(Values)
  PROVE  /\ Append(wrote, v) \in Seq(Values) /\ Len(Append(wrote, v)) = Len(wrote) + 1
         /\ Len(wrote) \in Nat
         /\ \A i \in 1..Len(wrote) + 1 : Append(wrote, v)[i] = IF i <= Len(wrote) THEN wrote[i] ELSE v
OBVIOUS

LEMMA RoomInit == ASSUME NEW first \in {"new", "left"}, Room!InitAt(first) PROVE RoomInv
<1> USE PageAssumption
<1>1. wrote \in Seq(Values) /\ Len(wrote) = 0 /\ 0 \in 0..MaxWrites /\ 0 \in 0..0
  BY DEF Room!InitAt
<1>2. Room!TypeOK
  BY <1>1 DEF Room!InitAt, Room!TypeOK
<1>3. Waiting
  BY <1>1 DEF Room!InitAt, Waiting
<1> QED
  BY <1>2, <1>3 DEF RoomInv

\* A step that writes, shows and queues nothing.
LEMMA RoomStays ==
  ASSUME RoomInv, Room!TypeOK', UNCHANGED <<wrote, echo, aged, queued>>
  PROVE  RoomInv'
BY DEF RoomInv, Waiting

LEMMA PresenceInv ==
  ASSUME RoomInv, NEW t \in Tabs,
         Room!Join(t) \/ Room!Announce(t) \/ Room!Discover(t) \/ Room!Lapse(t) \/ Room!Chatter(t)
  PROVE  RoomInv'
<1>1. UNCHANGED <<wrote, replica, reading, seen, echo, aged, queued, calls>>
  BY DEF Room!Join, Room!Announce, Room!Discover, Room!Lapse, Room!Chatter, Room!docVars,
         Room!viewVars
<1>2. present' \subseteq Writers /\ Writers \subseteq Tabs
  BY PageAssumption DEF Room!Join, Room!Announce, Room!Discover, Room!Lapse, Room!Chatter,
     RoomInv, Room!TypeOK
<1>3. phase' \in [Tabs -> {"new", "joined", "left"}]
  BY DEF Room!Join, Room!Announce, Room!Discover, Room!Lapse, Room!Chatter, RoomInv, Room!TypeOK
<1>4. others' \in [Tabs -> SUBSET Tabs] /\ met' \in [Tabs -> SUBSET Tabs]
  <2>1. present \ {t} \in SUBSET Tabs
    BY PageAssumption DEF RoomInv, Room!TypeOK
  <2> QED
    <3> USE <2>1 DEF RoomInv, Room!TypeOK
    <3>1. CASE Room!Join(t)
      BY <3>1 DEF Room!Join
    <3>2. CASE Room!Discover(t)
      <4>1. met[t] \cup (present \ {t}) \in SUBSET Tabs
        OBVIOUS
      <4> QED
        BY <3>2, <4>1 DEF Room!Discover
    <3>3. CASE Room!Announce(t) \/ Room!Lapse(t) \/ Room!Chatter(t)
      BY <3>3 DEF Room!Announce, Room!Lapse, Room!Chatter
    <3> QED
      BY <3>1, <3>2, <3>3
<1>5. due' \in [Tabs -> BOOLEAN]
  BY DEF Room!Join, Room!Announce, Room!Discover, Room!Lapse, Room!Chatter, Room!OnEvent,
         Room!docVars, Room!viewVars, RoomInv, Room!TypeOK
<1>6. Room!TypeOK'
  BY <1>1, <1>2, <1>3, <1>4, <1>5 DEF RoomInv, Room!TypeOK
<1> QED
  BY <1>1, <1>6, RoomStays

LEMMA LeaveInv ==
  ASSUME RoomInv, NEW t \in Tabs, NEW heard \in BOOLEAN, Room!Leave(t, heard)
  PROVE  RoomInv'
<1>1. Room!TypeOK'
  BY DEF Room!Leave, RoomInv, Room!TypeOK
<1>2. Waiting'
  BY DEF Room!Leave, RoomInv, Room!TypeOK, Waiting, NewTo
<1> QED
  BY <1>1, <1>2 DEF RoomInv

LEMMA SetStateInv ==
  ASSUME RoomInv, NEW t \in Tabs, NEW value \in Values, Room!SetState(t, value)
  PROVE  RoomInv'
<1>1. /\ queued' = [queued EXCEPT ![t] = value] /\ echo' = [echo EXCEPT ![t] = value]
      /\ aged' = [aged EXCEPT ![t] = FALSE] /\ calls < MaxWrites /\ calls' = calls + 1
      /\ UNCHANGED <<phase, present, others, met, wrote, replica, due, reading, seen>>
  BY DEF Room!SetState, Room!docVars
<1>2. calls' \in 0..MaxWrites
  BY <1>1, PageAssumption DEF RoomInv, Room!TypeOK
<1>3. Room!TypeOK'
  BY <1>1, <1>2 DEF RoomInv, Room!TypeOK
<1>4. ASSUME NEW u \in Tabs, queued'[u] # None, NewTo(queued'[u], wrote)
      PROVE  echo'[u] = queued'[u] /\ ~aged'[u]
  <2>1. CASE u = t
    BY <1>1, <2>1 DEF RoomInv, Room!TypeOK
  <2>2. CASE u # t
    BY <1>1, <1>4, <2>2 DEF RoomInv, Room!TypeOK, Waiting
  <2> QED
    BY <2>1, <2>2
<1> QED
  BY <1>1, <1>3, <1>4 DEF RoomInv, Waiting, NewTo

LEMMA WriteInv ==
  ASSUME RoomInv, NEW t \in Tabs, Room!Write(t)
  PROVE  RoomInv'
<1> DEFINE v == queued[t]
<1>1. v \in Values /\ v # None /\ wrote \in Seq(Values)
  BY DEF Room!Write, RoomInv, Room!TypeOK
<1>2. /\ wrote' = Append(wrote, v) /\ queued' = [queued EXCEPT ![t] = None]
      /\ replica' = [replica EXCEPT ![t] = Len(wrote')] /\ due' = [due EXCEPT ![t] = TRUE]
      /\ UNCHANGED <<phase, present, others, met, reading, seen, echo, aged, calls>>
  BY DEF Room!Write, Room!OnEvent
<1> HIDE DEF v
<1>3. /\ wrote' \in Seq(Values) /\ Len(wrote') = Len(wrote) + 1 /\ Len(wrote) \in Nat
      /\ \A i \in 1..Len(wrote') : wrote'[i] = IF i <= Len(wrote) THEN wrote[i] ELSE v
  BY <1>1, <1>2, Written
<1>4. 0..Len(wrote) \subseteq 0..Len(wrote') /\ Len(wrote') \in 0..Len(wrote')
  BY <1>3
<1>5. replica' \in [Tabs -> 0..Len(wrote')] /\ reading' \in [Tabs -> 0..Len(wrote') \cup {None}]
  <2>1. replica \in [Tabs -> 0..Len(wrote)] /\ reading \in [Tabs -> 0..Len(wrote) \cup {None}]
    BY DEF RoomInv, Room!TypeOK
  <2>2. replica \in [Tabs -> 0..Len(wrote')] /\ reading \in [Tabs -> 0..Len(wrote') \cup {None}]
    BY <1>4, <2>1
  <2> QED
    BY <1>2, <1>4, <2>2
<1>6. Room!TypeOK'
  BY <1>2, <1>3, <1>5 DEF RoomInv, Room!TypeOK
<1>7. ASSUME NEW u \in Tabs, queued'[u] # None, NewTo(queued'[u], wrote')
      PROVE  echo[u] = queued'[u] /\ ~aged[u]
  <2>1. u # t /\ queued'[u] = queued[u]
    BY <1>2, <1>7 DEF RoomInv, Room!TypeOK
  <2>2. NewTo(queued[u], wrote)
    BY <1>3, <1>7, <2>1 DEF NewTo
  <2> QED
    BY <1>7, <2>1, <2>2 DEF RoomInv, Waiting
<1> QED
  BY <1>2, <1>6, <1>7 DEF RoomInv, Waiting, NewTo

LEMMA SyncInv ==
  ASSUME RoomInv, NEW t \in Tabs, NEW u \in Tabs, Room!Sync(t, u)
  PROVE  RoomInv'
<1>1. UNCHANGED <<wrote, echo, aged, queued>>
  BY DEF Room!Sync
<1>2. Room!TypeOK'
  BY DEF Room!Sync, Room!OnEvent, RoomInv, Room!TypeOK
<1> QED
  BY <1>1, <1>2, RoomStays

LEMMA BeginReadInv ==
  ASSUME RoomInv, NEW t \in Tabs, Room!BeginRead(t)
  PROVE  RoomInv'
<1>1. UNCHANGED <<wrote, echo, aged, queued>>
  BY DEF Room!BeginRead, Room!docVars
<1>2. Room!TypeOK'
  BY DEF Room!BeginRead, Room!docVars, RoomInv, Room!TypeOK
<1> QED
  BY <1>1, <1>2, RoomStays

LEMMA RefreshInv ==
  ASSUME RoomInv, NEW t \in Tabs, Room!RefreshEntries(t)
  PROVE  RoomInv'
<1> DEFINE value == Room!ValueAt(reading[t])
<1>1. /\ reading[t] # None /\ reading' = [reading EXCEPT ![t] = None]
      /\ seen' = [seen EXCEPT ![t] = value]
      /\ echo' = [echo EXCEPT ![t] = IF @ = seen'[t] \/ aged[t] THEN None ELSE @]
      /\ aged' = [aged EXCEPT ![t] = @ /\ echo'[t] # None]
      /\ UNCHANGED <<phase, present, others, met, wrote, replica, due, queued, calls>>
  BY DEF Room!RefreshEntries, Room!docVars
<1>2. /\ value \in Values \cup {None}
      /\ queued[t] # None /\ NewTo(queued[t], wrote) => value # queued[t]
  <2>1. wrote \in Seq(Values) /\ reading[t] \in 0..Len(wrote) /\ Len(wrote) \in Nat
    BY <1>1 DEF RoomInv, Room!TypeOK
  <2>2. reading[t] # 0 => reading[t] \in 1..Len(wrote) /\ wrote[reading[t]] \in Values
    BY <2>1
  <2> QED
    BY <2>1, <2>2 DEF Room!ValueAt, NewTo
<1> HIDE DEF value
<1>3. seen'[t] = value
  BY <1>1 DEF RoomInv, Room!TypeOK
<1>4. Room!TypeOK'
  <2>1. aged' \in [Tabs -> BOOLEAN]
    BY <1>1 DEF RoomInv, Room!TypeOK
  <2> QED
    BY <1>1, <1>2, <2>1 DEF RoomInv, Room!TypeOK
<1>5. ASSUME NEW u \in Tabs, queued[u] # None, NewTo(queued[u], wrote)
      PROVE  echo'[u] = queued[u] /\ ~aged'[u]
  <2>1. echo[u] = queued[u] /\ ~aged[u]
    BY <1>5 DEF RoomInv, Waiting
  <2>2. CASE u = t
    BY <1>1, <1>2, <1>3, <1>5, <2>1, <2>2 DEF RoomInv, Room!TypeOK
  <2>3. CASE u # t
    BY <1>1, <2>1, <2>3 DEF RoomInv, Room!TypeOK
  <2> QED
    BY <2>2, <2>3
<1> QED
  BY <1>1, <1>4, <1>5 DEF RoomInv, Waiting, NewTo

LEMMA AgeInv ==
  ASSUME RoomInv, NEW t \in Tabs, Room!Age(t)
  PROVE  RoomInv'
<1>1. Room!TypeOK'
  BY DEF Room!Age, Room!docVars, RoomInv, Room!TypeOK
<1>2. UNCHANGED <<wrote, echo, queued>> /\ queued[t] = None
  BY DEF Room!Age, Room!docVars
<1>3. \A u \in Tabs : queued[u] # None => aged'[u] = aged[u]
  BY <1>2 DEF Room!Age, RoomInv, Room!TypeOK
<1>4. Waiting'
  BY <1>2, <1>3 DEF RoomInv, Waiting
<1> QED
  BY <1>1, <1>4 DEF RoomInv

LEMMA RoomStep == RoomInv /\ [Room!Next]_(Room!roomVars) => RoomInv'
<1> SUFFICES ASSUME RoomInv, [Room!Next]_(Room!roomVars) PROVE RoomInv'
  OBVIOUS
<1>1. CASE UNCHANGED Room!roomVars
  BY <1>1 DEF Room!roomVars, RoomInv, Room!TypeOK, Waiting
<1>2. CASE Room!Next
  BY <1>2, PresenceInv, LeaveInv, SetStateInv, WriteInv, SyncInv, BeginReadInv, RefreshInv, AgeInv
  DEF Room!Next, Room!Timer, Room!Reading
<1> QED
  BY <1>1, <1>2

LEMMA RoomInvariant == AllSpec => []RoomInv
<1>1. (\E first \in {"new", "left"} : Room!InitAt(first)) => RoomInv
  BY RoomInit
<1> QED
  BY <1>1, RoomStep, RoomPart, PTL

\* multiplayer.join() of src/src/runtime.ts: while a tab's last write waits for its throttle, and
\* its value is one the document has not held yet, the tab shows it, whatever it reads of others.
THEOREM WritesDoNotFlicker == AllSpec => NoFlicker
<1>1. RoomInv' => \A t \in Tabs :
                      phase'[t] = "joined" /\ queued'[t] # None /\ queued'[t] \notin Room!Held'
                        => Room!State(t)' = queued'[t]
  BY DEF RoomInv, Waiting, NewTo, Room!State, Room!Held
<1> QED
  BY <1>1, RoomInvariant, PTL DEF NoFlicker, Room!NoFlicker

-----------------------------------------------------------------------------
(* The development page                                                    *)

LEMMA HostPart ==
  AllSpec => (\E app \in BOOLEAN : Host!InitAt(app)) /\ [][Host!Next]_(Host!pageVars)
<1>1. AllInit => \E app \in BOOLEAN : Host!InitAt(app)
  <2>1. (subject = "host") \in BOOLEAN
    OBVIOUS
  <2> QED
    BY <2>1 DEF AllInit
<1>2. [AllNext]_allVars => [Host!Next]_(Host!pageVars)
  BY DEF AllNext, Only, allVars, hostV, Host!pageVars
<1> QED
  BY <1>1, <1>2, PTL DEF AllSpec

Bit(b) == IF b THEN 1 ELSE 0

\* A document for each reload and one for the sign-in; a channel for each hello and load event
\* there has been, of two for each document.
Documents == doc = pageReloads + 1 + Bit(signedIn)
ChannelsMade ==
  /\ channel + Bit(hello) + Bit(~sdk) + Bit(loadEvent) <= 2 * doc
  /\ session # "none" => channel # 0
Prompted == prompts <= tries
Renews == \A k \in {"asked"} \cup Host!Accounts : renewing[k] > 0 => channel # 0
HostInv == Host!TypeOK /\ Documents /\ ChannelsMade /\ Prompted /\ Renews

\* The names of groups of variables always stand for what they name.
USE DEF Host!frame, Host!inUse, Host!sdkVars, Host!tokens, Host!server, Host!counters

LEMMA FirstTaken ==
  ASSUME NEW S, NEW s \in Seq(S), s # <<>> PROVE Head(s) \in S /\ Tail(s) \in Seq(S)
OBVIOUS

LEMMA HostInit == ASSUME NEW app \in BOOLEAN, Host!InitAt(app) PROVE HostInv
<1> USE PageAssumption, ShellAssumption
<1>1. /\ 0 \in 0..MaxGestures /\ 0 \in 0..MaxTries /\ 0 \in 0..MaxReloads /\ 1 \in Host!Docs
  BY DEF Host!Docs
<1>2. inits \in Seq(Host!InitMsg)
  BY DEF Host!InitAt
<1>3. Host!TypeOK
  BY <1>1, <1>2 DEF Host!InitAt, Host!TypeOK, Host!Renewal, Host!Accounts
<1>4. Documents /\ ChannelsMade /\ Prompted /\ Renews
  BY DEF Host!InitAt, Documents, ChannelsMade, Prompted, Renews, Bit
<1> QED
  BY <1>3, <1>4 DEF HostInv

\* A new document still fits the bounds, and so do the channels it may ask for.
LEMMA NewDocumentInv ==
  ASSUME HostInv, Host!NewDocument,
         UNCHANGED <<channel, session, hello, up, renewing, shown, gestures, prompts>>,
         signing' \in BOOLEAN, tries' \in 0..MaxTries, prompts' <= tries',
         \/ pageReloads < MaxReloads /\ pageReloads' = pageReloads + 1 /\ UNCHANGED signedIn
         \/ ~signedIn /\ signedIn' = TRUE /\ UNCHANGED pageReloads
  PROVE  HostInv'
<1> USE ShellAssumption
<1>1. /\ doc' = doc + 1 /\ sdk' = FALSE /\ loadEvent' = TRUE /\ inits' = <<>> /\ down' = {}
      /\ sdkPort' = 0 /\ gate' = FALSE /\ fallback' = FALSE /\ access' = "none" /\ awaits' = FALSE
      /\ armed' = FALSE /\ granted' \subseteq granted
      /\ asked' = [r \in Delegated |-> IF asked[r] = "waiting" THEN "gone" ELSE asked[r]]
  BY DEF Host!NewDocument
<1>2. /\ pageReloads \in 0..MaxReloads /\ channel \in Nat /\ doc \in Nat
      /\ {hello, sdk, loadEvent, signedIn} \subseteq BOOLEAN
  BY DEF HostInv, Host!TypeOK, Host!Docs, Host!Channels
<1>3. Documents' /\ pageReloads' \in 0..MaxReloads /\ signedIn' \in BOOLEAN
  <2>1. doc = pageReloads + 1 + Bit(signedIn)
    BY DEF HostInv, Documents
  <2>2. CASE pageReloads < MaxReloads /\ pageReloads' = pageReloads + 1 /\ UNCHANGED signedIn
    <3>1. doc' = pageReloads' + 1 + Bit(signedIn)
      BY <1>1, <1>2, <2>1, <2>2 DEF Bit
    <3> QED
      BY <1>2, <2>2, <3>1 DEF Documents
  <2>3. CASE ~signedIn /\ signedIn' = TRUE /\ UNCHANGED pageReloads
    <3>1. doc = pageReloads + 1
      BY <1>2, <2>1, <2>3 DEF Bit
    <3>2. doc' = pageReloads' + 1 + 1
      BY <1>1, <1>2, <2>3, <3>1
    <3>3. Documents'
      BY <2>3, <3>2 DEF Documents, Bit
    <3> QED
      BY <1>2, <2>3, <3>3
  <2> QED
    BY <2>2, <2>3
<1>4. doc' \in Host!Docs
  <2>1. Bit(signedIn)' \in {0, 1} /\ doc' = pageReloads' + 1 + Bit(signedIn)'
    BY <1>3 DEF Documents, Bit
  <2> QED
    BY <1>3, <2>1 DEF Host!Docs
<1>5. ChannelsMade' /\ Prompted' /\ Renews'
  BY <1>1, <1>2, PageAssumption DEF HostInv, Host!TypeOK, ChannelsMade, Prompted, Renews, Bit
<1>6. inits' \in Seq(Host!InitMsg)
  BY <1>1
<1>7. asked' \in [Delegated -> {"idle", "waiting", "done", "refused", "gone"}]
  BY <1>1 DEF HostInv, Host!TypeOK
<1>8. Host!TypeOK'
  BY <1>1, <1>3, <1>4, <1>6, <1>7 DEF HostInv, Host!TypeOK
<1> QED
  BY <1>3, <1>5, <1>8 DEF HostInv

\* A step within a document that asks for no channel.
LEMMA SameDocument ==
  ASSUME HostInv, Host!TypeOK', Renews', UNCHANGED <<channel, doc, loadEvent, signedIn, pageReloads>>,
         UNCHANGED <<hello, sdk>> \/ (~sdk /\ sdk' /\ hello'), session' # "none" => session # "none",
         prompts' <= tries'
  PROVE  HostInv'
<1>1. channel \in Nat /\ doc \in Nat /\ {hello, sdk, loadEvent} \subseteq BOOLEAN
  BY ShellAssumption DEF HostInv, Host!TypeOK, Host!Docs, Host!Channels
<1> QED
  BY <1>1 DEF HostInv, Documents, ChannelsMade, Prompted, Bit

LEMMA ChannelInv ==
  ASSUME HostInv, Host!OnHello \/ Host!OnLoad PROVE HostInv'
<1> USE ShellAssumption
<1>1. /\ channel' = channel + 1 /\ session' = "asked"
      /\ UNCHANGED <<doc, sdk, inits, sdkPort, gate, armed, asked, up, down, shown, signedIn, signing,
                     fallback, access, awaits, renewing, granted, gestures, prompts, tries, pageReloads>>
      /\ \/ hello /\ hello' = FALSE /\ UNCHANGED loadEvent
         \/ loadEvent /\ loadEvent' = FALSE /\ UNCHANGED hello
  BY DEF Host!OnHello, Host!OnLoad, Host!Connect
<1>2. /\ channel \in Nat /\ doc \in 1..(MaxReloads + 2) /\ {hello, sdk, loadEvent} \subseteq BOOLEAN
  BY DEF HostInv, Host!TypeOK, Host!Docs, Host!Channels
<1>3. ChannelsMade'
  BY <1>1, <1>2 DEF HostInv, ChannelsMade, Bit
<1>4. channel' \in Host!Channels
  <2>1. channel' <= 2 * doc /\ channel' \in Nat \ {0}
    BY <1>1, <1>2, <1>3 DEF ChannelsMade, Bit
  <2>2. 2 * doc <= 2 * (MaxReloads + 2)
    BY <1>2
  <2> QED
    BY <1>2, <2>1, <2>2 DEF Host!Channels
<1>5. Host!TypeOK'
  <2>1. /\ hello' \in BOOLEAN /\ loadEvent' \in BOOLEAN
        /\ session' \in {"none", "asked", "open", "gated"} /\ channel' \in {0} \cup Host!Channels
    BY <1>1, <1>2, <1>4
  <2>2. /\ up' \subseteq Host!UpMsg /\ down' \subseteq Host!DownMsg
        /\ renewing' \in Host!Renewal /\ granted' \subseteq Host!Grant
        /\ inits' \in Seq(Host!InitMsg)
    BY <1>1 DEF HostInv, Host!TypeOK
  <2> QED
    BY <1>1, <2>1, <2>2 DEF HostInv, Host!TypeOK
<1>6. Documents' /\ Prompted'
  BY <1>1 DEF HostInv, Documents, Prompted
<1>7. Renews'
  BY <1>1, <1>2 DEF Renews
<1> QED
  BY <1>3, <1>5, <1>6, <1>7 DEF HostInv

LEMMA SessionInv ==
  ASSUME HostInv, Host!RunSdk \/ Host!ServeSession \/ Host!OnInit PROVE HostInv'
<1>1. /\ UNCHANGED <<channel, doc, loadEvent, signedIn, pageReloads, prompts, tries>>
      /\ UNCHANGED <<hello, sdk>> \/ (~sdk /\ sdk' /\ hello')
      /\ session' # "none" => session # "none"
      /\ UNCHANGED renewing
  BY DEF Host!RunSdk, Host!ServeSession, Host!OnInit
<1>2. CASE Host!RunSdk \/ Host!ServeSession
  <2>1. CASE Host!RunSdk
    <3>1. Host!TypeOK'
      BY <2>1 DEF Host!RunSdk, HostInv, Host!TypeOK
    <3> QED
      BY <1>1, <3>1, SameDocument DEF HostInv, Prompted, Renews
  <2>2. CASE Host!ServeSession
    <3>1. Host!TypeOK'
      BY <2>2 DEF Host!ServeSession, HostInv, Host!TypeOK
    <3> QED
      BY <1>1, <3>1, SameDocument DEF HostInv, Prompted, Renews
  <2> QED
    BY <1>2, <2>1, <2>2
<1>3. CASE Host!OnInit
  <2>1. /\ inits # <<>> /\ inits \in Seq(Host!InitMsg)
    BY <1>3 DEF Host!OnInit, HostInv, Host!TypeOK
  <2>2. Head(inits) \in Host!InitMsg
        /\ Tail(inits) \in Seq(Host!InitMsg)
    BY <2>1, FirstTaken
  <2>3. /\ sdkPort' \in {0} \cup Host!Channels /\ {gate', fallback', awaits'} \subseteq BOOLEAN
        /\ access' \in {"none"} \cup Host!Accounts /\ granted' \subseteq Host!Grant
    BY <1>3, <2>2 DEF Host!OnInit, HostInv, Host!TypeOK, Host!Accounts, Host!InitMsg
  <2>4. Host!TypeOK'
    BY <1>3, <2>2, <2>3 DEF Host!OnInit, HostInv, Host!TypeOK
  <2> QED
    BY <1>1, <2>4, SameDocument DEF HostInv, Prompted, Renews
<1> QED
  BY <1>2, <1>3

LEMMA PostInitInv ==
  ASSUME HostInv, NEW failed \in BOOLEAN, Host!PostInit(failed) PROVE HostInv'
<1>1. [ch |-> channel, gate |-> failed \/ session = "gated", failed |-> failed] \in Host!InitMsg
  BY DEF Host!PostInit, HostInv, Host!TypeOK, ChannelsMade, Host!InitMsg
<1>2. inits' \in Seq(Host!InitMsg)
  BY <1>1 DEF Host!PostInit, HostInv, Host!TypeOK
<1>3. Host!TypeOK'
  BY <1>2 DEF Host!PostInit, HostInv, Host!TypeOK
<1> QED
  BY <1>3, SameDocument DEF Host!PostInit, HostInv, Prompted, Renews

LEMMA MessageInv ==
  ASSUME HostInv, NEW msg,
         \/ msg \in up /\ Host!Handle(msg)
         \/ msg \in down /\ Host!OnReply(msg)
  PROVE  HostInv'
<1>1. UNCHANGED <<channel, session, doc, sdk, loadEvent, hello, signedIn, pageReloads, prompts, tries>>
  BY DEF Host!Handle, Host!OnRequest, Host!OnSignIn, Host!OnRefresh, Host!OnReply
<1>2. CASE msg \in up /\ Host!OnRequest(msg)
  <2>1. msg.ch \in Host!Channels /\ msg.what \in Delegated
    BY <1>2 DEF Host!OnRequest, HostInv, Host!TypeOK, Host!UpMsg
  <2>2. down' \subseteq Host!DownMsg
    <3>1. down \subseteq Host!DownMsg
      BY DEF HostInv, Host!TypeOK
    <3>2. CASE msg.ch = channel
      <4>1. down' = down \cup {[ch |-> channel, id |-> msg.what, ok |-> msg.what \in Shares]}
        BY <1>2, <3>2 DEF Host!OnRequest
      <4>2. [ch |-> channel, id |-> msg.what, ok |-> msg.what \in Shares]
              \in Host!DownMsg
        BY <2>1, <3>2 DEF Host!DownMsg
      <4> QED
        BY <3>1, <4>1, <4>2
    <3>3. CASE msg.ch # channel
      BY <1>2, <3>1, <3>3 DEF Host!OnRequest
    <3> QED
      BY <3>2, <3>3
  <2>3. shown' \subseteq Shares /\ up' \subseteq up
    BY <1>2 DEF Host!OnRequest, HostInv, Host!TypeOK
  <2>4. Host!TypeOK' /\ Renews'
    BY <1>1, <1>2, <2>2, <2>3 DEF Host!OnRequest, HostInv, Host!TypeOK, Renews
  <2> QED
    BY <1>1, <2>4, SameDocument DEF HostInv, Prompted
<1>3. CASE msg \in up /\ Host!OnSignIn(msg)
  <2>1. Host!TypeOK' /\ Renews'
    BY <1>1, <1>3 DEF Host!OnSignIn, HostInv, Host!TypeOK, Renews
  <2> QED
    BY <1>1, <2>1, SameDocument DEF HostInv, Prompted
<1>4. CASE msg \in down /\ Host!OnReply(msg)
  <2>1. asked' \in [Delegated -> {"idle", "waiting", "done", "refused", "gone"}]
    BY <1>4 DEF Host!OnReply, HostInv, Host!TypeOK
  <2>2. Host!TypeOK' /\ Renews'
    BY <1>1, <1>4, <2>1 DEF Host!OnReply, HostInv, Host!TypeOK, Renews
  <2> QED
    BY <1>1, <2>2, SameDocument DEF HostInv, Prompted
<1>5. CASE msg \in up /\ Host!OnRefresh(msg)
  <2>1. renewing' \in Host!Renewal
    BY <1>5 DEF Host!OnRefresh, HostInv, Host!TypeOK, Host!Renewal
  <2>2. Host!TypeOK'
    BY <1>1, <1>5, <2>1 DEF Host!OnRefresh, HostInv, Host!TypeOK
  <2>3. msg.ch # 0
    BY <1>5 DEF Host!OnRefresh, HostInv, Host!TypeOK, Host!Channels, Host!UpMsg
  <2>4. Renews'
    BY <1>1, <1>5, <2>3 DEF Host!OnRefresh, HostInv, Renews
  <2> QED
    BY <1>1, <2>2, <2>4, SameDocument DEF HostInv, Prompted
<1> QED
  BY <1>2, <1>3, <1>4, <1>5 DEF Host!Handle

\* The answers to requests for a token.
LEMMA TokenInv ==
  ASSUME HostInv,
         \/ Host!ServeRenewal
         \/ \E account \in Host!Accounts, f \in BOOLEAN : Host!FinishRenewal(account, f)
         \/ \E msg \in granted : Host!OnGranted(msg)
  PROVE  HostInv'
<1>1. CASE Host!ServeRenewal
  <2>1. renewing' \in Host!Renewal
    <3>1. renewing \in Host!Renewal /\ renewing["asked"] > 0
      BY <1>1 DEF Host!ServeRenewal, HostInv, Host!TypeOK, Host!Renewal
    <3>2. PICK account \in Host!Accounts :
            renewing' = [[renewing EXCEPT !["asked"] = @ - 1] EXCEPT ![account] = @ + 1]
      BY <1>1 DEF Host!ServeRenewal, Host!Accounts
    <3>3. [renewing EXCEPT !["asked"] = @ - 1] \in Host!Renewal
      BY <3>1 DEF Host!Renewal
    <3>4. \A counts \in Host!Renewal : [counts EXCEPT ![account] = @ + 1] \in Host!Renewal
      BY DEF Host!Renewal
    <3> QED
      BY <3>2, <3>3, <3>4
  <2>2. Host!TypeOK'
    BY <1>1, <2>1 DEF Host!ServeRenewal, HostInv, Host!TypeOK
  <2>3. channel' # 0
    BY <1>1 DEF Host!ServeRenewal, HostInv, Host!TypeOK, Renews
  <2>4. Renews'
    BY <2>3 DEF Renews
  <2> QED
    BY <1>1, <2>2, <2>4, SameDocument DEF Host!ServeRenewal, HostInv, Prompted
<1>2. ASSUME NEW account \in Host!Accounts, NEW f \in BOOLEAN, Host!FinishRenewal(account, f)
      PROVE  HostInv'
  <2>1. renewing' \in Host!Renewal
    BY <1>2 DEF Host!FinishRenewal, HostInv, Host!TypeOK, Host!Renewal
  <2>2. channel \in Host!Channels
    BY <1>2 DEF Host!FinishRenewal, HostInv, Host!TypeOK, Renews
  <2>3. [ch |-> channel, access |-> IF f THEN "none" ELSE account] \in Host!Grant
    BY <2>2 DEF Host!Grant
  <2>4. Host!TypeOK'
    BY <1>2, <2>1, <2>3 DEF Host!FinishRenewal, HostInv, Host!TypeOK
  <2>5. Renews'
    BY <1>2 DEF Host!FinishRenewal, HostInv, Renews
  <2> QED
    BY <1>2, <2>4, <2>5, SameDocument DEF Host!FinishRenewal, HostInv, Prompted
<1>3. ASSUME NEW msg \in granted, Host!OnGranted(msg) PROVE HostInv'
  <2>1. access' \in {"none"} \cup Host!Accounts /\ granted' \subseteq Host!Grant
    BY <1>3 DEF Host!OnGranted, HostInv, Host!TypeOK, Host!Grant
  <2>2. /\ awaits' = FALSE
        /\ UNCHANGED <<channel, session, doc, sdk, loadEvent, hello, inits, sdkPort, gate, fallback, armed,
                      up, down, renewing, asked, shown, signedIn, signing, gestures, prompts, tries,
                      pageReloads>>
    BY <1>3 DEF Host!OnGranted
  <2>3. /\ channel' \in {0} \cup Host!Channels /\ session' \in {"none", "asked", "open", "gated"}
        /\ doc' \in Host!Docs /\ sdk' \in BOOLEAN /\ loadEvent' \in BOOLEAN /\ hello' \in BOOLEAN
        /\ inits' \in Seq(Host!InitMsg)
        /\ sdkPort' \in {0} \cup Host!Channels /\ gate' \in BOOLEAN /\ fallback' \in BOOLEAN
    BY <2>2 DEF HostInv, Host!TypeOK
  <2>4. /\ awaits' \in BOOLEAN /\ armed' \in BOOLEAN
        /\ up' \subseteq Host!UpMsg /\ down' \subseteq Host!DownMsg /\ renewing' \in Host!Renewal
    BY <2>2 DEF HostInv, Host!TypeOK
  <2>5. asked' \in [Delegated -> {"idle", "waiting", "done", "refused", "gone"}]
    BY <2>2 DEF HostInv, Host!TypeOK
  <2>6. /\ shown' \subseteq Shares /\ signedIn' \in BOOLEAN /\ signing' \in BOOLEAN
        /\ gestures' \in 0..MaxGestures /\ prompts' \in 0..MaxTries /\ tries' \in 0..MaxTries
        /\ pageReloads' \in 0..MaxReloads
    BY <2>2 DEF HostInv, Host!TypeOK
  <2>7. Host!TypeOK'
    BY <2>1, <2>3, <2>4, <2>5, <2>6 DEF Host!TypeOK
  <2> QED
    BY <1>3, <2>7, SameDocument DEF Host!OnGranted, HostInv, Prompted, Renews
<1> QED
  BY <1>1, <1>2, <1>3

LEMMA AppInv ==
  ASSUME HostInv,
         Host!Gesture \/ Host!RefusedWrite \/ Host!AskToken
           \/ \E r \in Delegated : Host!Ask(r) \/ Host!Timeout(r)
  PROVE  HostInv'
<1> USE PageAssumption
<1>1. /\ UNCHANGED <<channel, session, doc, sdk, loadEvent, hello, renewing, signedIn, pageReloads>>
      /\ Renews'
  BY DEF Host!Gesture, Host!RefusedWrite, Host!AskToken, Host!Ask, Host!Timeout, HostInv, Renews
<1>2. CASE Host!Gesture
  <2>1. Host!TypeOK'
    BY <1>2 DEF Host!Gesture, HostInv, Host!TypeOK
  <2> QED
    BY <1>1, <1>2, <2>1, SameDocument DEF Host!Gesture, HostInv, Prompted
<1>3. CASE Host!RefusedWrite
  <2>1. /\ tries \in 0..MaxTries /\ prompts \in 0..MaxTries /\ prompts <= tries
        /\ tries < MaxTries /\ tries' = tries + 1 /\ prompts' \in {prompts, prompts + 1}
    BY <1>3 DEF Host!RefusedWrite, HostInv, Host!TypeOK, Prompted
  <2>2. tries' \in 0..MaxTries /\ prompts' \in 0..MaxTries /\ prompts' <= tries'
    BY <2>1
  <2>3. up' \subseteq Host!UpMsg /\ armed' \in BOOLEAN
    <3>1. sdkPort \in Host!Channels /\ armed \in BOOLEAN
          /\ up \subseteq Host!UpMsg
      BY <1>3 DEF Host!RefusedWrite, HostInv, Host!TypeOK
    <3>2. [ch |-> sdkPort, what |-> "sign-in"] \in Host!UpMsg
      BY <3>1 DEF Host!UpMsg
    <3>3. up' \subseteq up \cup {[ch |-> sdkPort, what |-> "sign-in"]} /\ armed' \in {armed, FALSE}
      BY <1>3 DEF Host!RefusedWrite
    <3> QED
      BY <3>1, <3>2, <3>3
  <2>4. Host!TypeOK'
    BY <1>1, <1>3, <2>2, <2>3 DEF Host!RefusedWrite, HostInv, Host!TypeOK
  <2> QED
    BY <1>1, <2>2, <2>4, SameDocument
<1>4. ASSUME NEW r \in Delegated, Host!Ask(r) \/ Host!Timeout(r) PROVE HostInv'
  <2>1. up' \subseteq Host!UpMsg
    BY <1>4 DEF Host!Ask, Host!Timeout, HostInv, Host!TypeOK, Host!UpMsg
  <2>2. Host!TypeOK'
    BY <1>1, <1>4, <2>1, PageAssumption DEF Host!Ask, Host!Timeout, HostInv, Host!TypeOK
  <2>3. prompts' <= tries'
    BY <1>4 DEF Host!Ask, Host!Timeout, HostInv, Host!TypeOK, Prompted
  <2> QED
    BY <1>1, <1>4, <2>2, <2>3, SameDocument DEF Host!Ask, Host!Timeout
<1>5. CASE Host!AskToken
  <2>1. /\ tries' \in 0..MaxTries /\ prompts' <= tries' /\ session' = session
        /\ up' = up \cup {[ch |-> sdkPort, what |-> "refresh"]} /\ sdkPort \in Host!Channels
    BY <1>5 DEF Host!AskToken, HostInv, Host!TypeOK, Prompted
  <2>2. up' \subseteq Host!UpMsg
    BY <2>1 DEF HostInv, Host!TypeOK, Host!UpMsg
  <2>3. Host!TypeOK'
    BY <1>5, <2>1, <2>2 DEF Host!AskToken, HostInv, Host!TypeOK
  <2> QED
    BY <1>1, <2>1, <2>3, SameDocument
<1> QED
  BY <1>2, <1>3, <1>4, <1>5

LEMMA SignInInv == ASSUME HostInv, Host!SignIn PROVE HostInv'
<1>1. CASE signedIn
  <2>1. Host!TypeOK'
    BY <1>1 DEF Host!SignIn, HostInv, Host!TypeOK
  <2> QED
    BY <1>1, <2>1, SameDocument DEF Host!SignIn, HostInv, Prompted, Renews
<1>2. CASE ~signedIn
  <2>1. tries' \in 0..MaxTries /\ prompts' <= tries'
    BY <1>2 DEF Host!SignIn, HostInv, Host!TypeOK, Prompted
  <2> QED
    BY <1>2, <2>1, NewDocumentInv DEF Host!SignIn
<1> QED
  BY <1>1, <1>2

LEMMA HostStep == HostInv /\ [Host!Next]_(Host!pageVars) => HostInv'
<1> SUFFICES ASSUME HostInv, [Host!Next]_(Host!pageVars) PROVE HostInv'
  OBVIOUS
<1>1. CASE Host!Reload
  <2>1. signing' \in BOOLEAN
    BY <1>1 DEF Host!Reload, HostInv, Host!TypeOK
  <2>2. tries' \in 0..MaxTries /\ prompts' <= tries'
    BY <1>1, PageAssumption DEF Host!Reload, HostInv, Host!TypeOK, Prompted
  <2> QED
    BY <1>1, <2>1, <2>2, NewDocumentInv DEF Host!Reload
<1>2. CASE UNCHANGED Host!pageVars
  BY <1>2 DEF Host!pageVars, HostInv, Host!TypeOK, Documents, ChannelsMade, Prompted, Renews
<1>3. CASE Host!Progress
  BY <1>3, SessionInv, ChannelInv, PostInitInv, MessageInv, TokenInv, SignInInv DEF Host!Progress
<1> QED
  BY <1>1, <1>2, <1>3, AppInv DEF Host!Next

LEMMA HostInvariant == AllSpec => []HostInv
<1>1. (\E app \in BOOLEAN : Host!InitAt(app)) => HostInv
  BY HostInit
<1> QED
  BY <1>1, HostStep, HostPart, PTL

-----------------------------------------------------------------------------
\* What prompts cost, and what a reply that says so stands for.
Counted == gestures \in Nat /\ prompts \in Nat /\ prompts <= gestures
Unspent == armed => prompts < gestures

Replies == \A msg \in down : msg.ok => msg.id \in shown
AskedOf == asked = [r \in Delegated |-> asked[r]]

PromptsInv == Counted /\ Unspent /\ Replies /\ AskedOf /\ Host!DoneWasShown

LEMMA PromptsInit == ASSUME NEW app \in BOOLEAN, Host!InitAt(app) PROVE PromptsInv
  BY DEF Host!InitAt, PromptsInv, Counted, Unspent, Replies, AskedOf, Host!DoneWasShown

\* A reload takes the armed prompt with it, and the replies on their way.
LEMMA DocumentInv ==
  ASSUME PromptsInv, Host!NewDocument, shown' = shown,
         UNCHANGED <<gestures, prompts>>
  PROVE  PromptsInv'
<1>1. Counted' /\ Unspent'
  BY DEF PromptsInv, Host!NewDocument, Counted, Unspent
<1>2. Replies'
  BY DEF Host!NewDocument, Replies
<1>3. AskedOf' /\ Host!DoneWasShown'
  BY DEF PromptsInv, Host!NewDocument, AskedOf, Host!DoneWasShown
<1> QED
  BY <1>1, <1>2, <1>3 DEF PromptsInv

\* What neither counts, arms, replies nor shows.
LEMMA QuietInv ==
  ASSUME PromptsInv, UNCHANGED <<armed, gestures, prompts, down, asked, shown>>
  PROVE  PromptsInv'
  BY DEF PromptsInv, Counted, Unspent, Replies, AskedOf, Host!DoneWasShown

LEMMA HandshakeInv ==
  ASSUME PromptsInv,
         Host!RunSdk \/ Host!OnHello \/ Host!OnLoad \/ Host!ServeSession
           \/ (\E f \in BOOLEAN : Host!PostInit(f)) \/ Host!OnInit
  PROVE  PromptsInv'
<1>1. CASE Host!RunSdk \/ Host!ServeSession \/ Host!OnInit
  BY <1>1, QuietInv DEF Host!RunSdk, Host!ServeSession, Host!OnInit
<1>2. CASE Host!OnHello \/ Host!OnLoad
  BY <1>2, QuietInv DEF Host!OnHello, Host!OnLoad, Host!Connect
<1>3. ASSUME NEW f \in BOOLEAN, Host!PostInit(f) PROVE PromptsInv'
  BY <1>3, QuietInv DEF Host!PostInit
<1> QED
  BY <1>1, <1>2, <1>3

LEMMA RequestInv ==
  ASSUME PromptsInv, NEW msg \in up, Host!OnRequest(msg) PROVE PromptsInv'
<1>1. Counted' /\ Unspent'
  BY DEF Host!OnRequest, PromptsInv, Counted, Unspent
<1>2. shown \subseteq shown' /\ asked' = asked
  BY DEF Host!OnRequest, Host!sdkVars
<1>3. AskedOf' /\ Host!DoneWasShown'
  BY <1>2 DEF PromptsInv, AskedOf, Host!DoneWasShown
<1>4. Replies'
  <2> SUFFICES ASSUME NEW m \in down', m.ok PROVE m.id \in shown'
    BY DEF Replies
  <2>1. CASE m \in down
    BY <2>1, <1>2 DEF PromptsInv, Replies
  <2>2. CASE m \notin down
    <3>1. /\ m = [ch |-> channel, id |-> msg.what, ok |-> msg.what \in Shares]
          /\ shown' = shown \cup ({msg.what} \cap Shares)
      BY <2>2 DEF Host!OnRequest
    <3> QED
      BY <3>1
  <2> QED
    BY <2>1, <2>2
<1> QED
  BY <1>1, <1>3, <1>4 DEF PromptsInv

LEMMA ReplyInv ==
  ASSUME PromptsInv, NEW msg \in down, Host!OnReply(msg) PROVE PromptsInv'
<1>1. Counted' /\ Unspent' /\ Replies'
  BY DEF Host!OnReply, PromptsInv, Counted, Unspent, Replies
<1>2. AskedOf' /\ Host!DoneWasShown'
  BY DEF Host!OnReply, PromptsInv, Replies, AskedOf, Host!DoneWasShown
<1> QED
  BY <1>1, <1>2 DEF PromptsInv

LEMMA AskInv ==
  ASSUME PromptsInv, NEW r \in Delegated, Host!Ask(r) \/ Host!Timeout(r) PROVE PromptsInv'
<1>1. Counted' /\ Unspent' /\ Replies'
  BY DEF Host!Ask, Host!Timeout, PromptsInv, Counted, Unspent, Replies
<1>2. AskedOf' /\ Host!DoneWasShown'
  BY DEF Host!Ask, Host!Timeout, PromptsInv, AskedOf, Host!DoneWasShown
<1> QED
  BY <1>1, <1>2 DEF PromptsInv

\* A prompt spends the gesture that armed it.
LEMMA PromptInv == ASSUME PromptsInv, Host!Gesture \/ Host!RefusedWrite PROVE PromptsInv'
<1>1. CASE Host!Gesture
  BY <1>1 DEF Host!Gesture, PromptsInv, Counted, Unspent, Replies, AskedOf, Host!DoneWasShown
<1>2. CASE Host!RefusedWrite
  BY <1>2 DEF Host!RefusedWrite, PromptsInv, Counted, Unspent, Replies, AskedOf, Host!DoneWasShown
<1> QED
  BY <1>1, <1>2

LEMMA SignedInInv == ASSUME PromptsInv, Host!SignIn PROVE PromptsInv'
<1>1. CASE signedIn
  BY <1>1, QuietInv DEF Host!SignIn
<1>2. CASE ~signedIn
  BY <1>2, DocumentInv DEF Host!SignIn
<1> QED
  BY <1>1, <1>2

LEMMA PromptsStep == PromptsInv /\ [Host!Next]_(Host!pageVars) => PromptsInv'
<1> SUFFICES ASSUME PromptsInv, [Host!Next]_(Host!pageVars) PROVE PromptsInv'
  OBVIOUS
<1>1. CASE Host!Progress
  <2>1. ASSUME NEW msg \in up, Host!OnSignIn(msg) PROVE PromptsInv'
    BY <2>1, QuietInv DEF Host!OnSignIn
  <2>2. ASSUME NEW msg \in up, Host!OnRefresh(msg) PROVE PromptsInv'
    BY <2>2, QuietInv DEF Host!OnRefresh
  <2>3. CASE Host!ServeRenewal
    BY <2>3, QuietInv DEF Host!ServeRenewal
  <2>4. ASSUME NEW account, NEW f, Host!FinishRenewal(account, f) PROVE PromptsInv'
    BY <2>4, QuietInv DEF Host!FinishRenewal
  <2>5. ASSUME NEW msg \in granted, Host!OnGranted(msg) PROVE PromptsInv'
    BY <2>5, QuietInv DEF Host!OnGranted
  <2> QED
    BY <1>1, <2>1, <2>2, <2>3, <2>4, <2>5, HandshakeInv, RequestInv, ReplyInv, SignedInInv
    DEF Host!Progress, Host!Handle
<1>2. CASE Host!Reload
  BY <1>2, DocumentInv DEF Host!Reload
<1>3. CASE UNCHANGED Host!pageVars
  BY <1>3, QuietInv DEF Host!pageVars
<1>4. CASE Host!AskToken
  BY <1>4, QuietInv DEF Host!AskToken
<1> QED
  BY <1>1, <1>2, <1>3, <1>4, PromptInv, AskInv DEF Host!Next

LEMMA PromptsInvariant == AllSpec => []PromptsInv
<1>1. (\E app \in BOOLEAN : Host!InitAt(app)) => PromptsInv
  BY PromptsInit
<1> QED
  BY <1>1, PromptsStep, HostPart, PTL

\* The sign-in gate of src/src/runtime.ts: the viewer sees at most one prompt per gesture, over
\* reloads, repeated inits and any number of refused writes.
THEOREM PromptsAreRationed == AllSpec => []OnePromptPerGesture
<1>1. PromptsInv => OnePromptPerGesture
  BY DEF PromptsInv, Counted, OnePromptPerGesture, Host!OnePromptPerGesture
<1> QED
  BY <1>1, PromptsInvariant, PTL

\* A request delegated to the development page (src/src/sandbox/runtime.ts) that the app is told is
\* done has been shown, whichever channel it and its answer took.
THEOREM DoneIsShown == AllSpec => []Host!DoneWasShown
<1>1. PromptsInv => Host!DoneWasShown
  BY DEF PromptsInv
<1> QED
  BY <1>1, PromptsInvariant, PTL

-----------------------------------------------------------------------------
LEMMA AgentInvariant == AllSpec => []Agent!TypeOK
<1>1. (\E first \in {"going", "done"} : Agent!InitAt(first)) => Agent!TypeOK
  BY AgentTypeInit
<1> QED
  BY <1>1, AgentTypeStep, AgentPart, PTL

\* Every variable of every part keeps its type.
THEOREM PageTypes == AllSpec => []AllTypes
<1>1. ShellInv /\ MeshTypes /\ RoomInv /\ Agent!TypeOK /\ HostInv => AllTypes
  BY DEF ShellInv, MeshTypes, RoomInv, HostInv, AllTypes
<1> QED
  BY <1>1, ShellInvariant, MeshTypesHold, RoomInvariant, AgentInvariant, HostInvariant, PTL
=============================================================================
