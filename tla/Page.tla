-------------------------------- MODULE Page --------------------------------
(***************************************************************************)
(* What runs in a page, with its fairness: the shell, the development      *)
(* server's page and the SDK in it, a multiplayer room, the mesh between   *)
(* its tabs, and an agent's conversation.  They share no variables, so a   *)
(* behaviour is about one of them, the subject; the others stay where      *)
(* nothing of theirs goes on.                                              *)
(***************************************************************************)
EXTENDS Shell

CONSTANTS
  Parts,                                    \* the subjects
  Tabs,                                     \* Mesh, Room
  Settings, Early,                          \* Mesh
  Writers, MemberOf, Values,                \* Room
  Stored, Sends, WithImages, PullFirst,     \* Agent
  MaxWrites,                                \* Room
  Delegated, Shares, MaxGestures, MaxTries  \* Host

\* Who may write is a tab; the bounds are numbers, and None is neither a number nor a value.
ASSUME PageAssumption ==
  /\ Writers \subseteq Tabs /\ \A s \in Settings : s.writers \subseteq Tabs
  /\ MaxGestures \in Nat /\ MaxTries \in Nat /\ MaxWrites \in Nat
  /\ None \notin Nat /\ None \notin Values

VARIABLES
  subject,
  setting, stage, listed, posting, answer, roster, known, dialing, links, dead, events, linked,
  meshFaults,
  phase, present, others, met, wrote, replica, due, reading, seen, echo, aged, queued, calls,
  stored, pulled, load, transcript, run, prompt, aborting, steering, turnActive, sent, hasty,
  channel, session, doc, sdk, loadEvent, hello, inits, sdkPort, gate, fallback, access, awaits,
  armed, up, down, renewing, granted, asked, shown, signedIn, signing, gestures, prompts, tries,
  pageReloads

meshV == <<setting, stage, listed, posting, answer, roster, known, dialing, links, dead, events,
           linked, meshFaults>>
roomV == <<phase, present, others, met, wrote, replica, due, reading, seen, echo, aged, queued,
           calls>>
agentV == <<stored, pulled, load, transcript, run, prompt, aborting, steering, turnActive, sent,
            hasty>>
hostV == <<channel, session, doc, sdk, loadEvent, hello, inits, sdkPort, gate, fallback, access,
           awaits, armed, up, down, renewing, granted, asked, shown, signedIn, signing, gestures,
           prompts, tries, pageReloads>>
allVars == <<subject, vars, meshV, roomV, agentV, hostV>>

Mesh == INSTANCE Mesh WITH faults <- meshFaults
Room == INSTANCE Room
Agent == INSTANCE AgentSession
Host == INSTANCE HostPage WITH Requests <- Delegated, reloads <- pageReloads

AllInit ==
  /\ subject \in Parts
  /\ InitAt(IF subject = "shell" THEN "start" ELSE "left")
  /\ subject # "shell" => url /\ cookie /\ deployed = CHOOSE c \in Cids : TRUE
  /\ Mesh!InitAt(IF subject = "mesh" THEN "new" ELSE "left")
  /\ subject # "mesh" => setting = CHOOSE s \in Settings : TRUE
  /\ Room!InitAt(IF subject = "room" THEN "new" ELSE "left")
  /\ Agent!InitAt(IF subject = "agent" THEN "going" ELSE "done")
  /\ Host!InitAt(subject = "host")

Only(part) == subject = part /\ UNCHANGED subject

AllNext ==
  \/ Only("shell") /\ Next /\ UNCHANGED <<meshV, roomV, agentV, hostV>>
  \/ Only("mesh") /\ Mesh!Next /\ UNCHANGED <<vars, roomV, agentV, hostV>>
  \/ Only("room") /\ Room!Next /\ UNCHANGED <<vars, meshV, agentV, hostV>>
  \/ Only("agent") /\ Agent!Next /\ UNCHANGED <<vars, meshV, roomV, hostV>>
  \/ Only("host") /\ Host!Next /\ UNCHANGED <<vars, meshV, roomV, agentV>>

\* Fairness.  Of a part that is not the subject nothing is enabled; saying so spares TLC
\* the search.

\* The shell's awaits end, with an answer or a failure, and its polls go on.
ShellFair ==
  /\ WF_vars(subject = "shell" /\ Boot) /\ WF_vars(subject = "shell" /\ Polling)

\* Polls and heartbeats go on; awaits end, events are read, a dead connection is noticed,
\* and what is not announced again lapses.
MeshFair ==
  \A t \in Tabs :
    /\ WF_(Mesh!meshVars)(subject = "mesh" /\ Mesh!Polling(t))
    /\ WF_(Mesh!meshVars)(subject = "mesh" /\ Mesh!Working(t))
    /\ WF_(Mesh!meshVars)(subject = "mesh" /\ (Mesh!Announcing(t) \/ Mesh!Lapse(t)))

\* Timers fire and polls go on until they have nothing to do, nodes that know of one another
\* sync, and reads end.  Nobody owes a tab an event that changes nothing.
RoomFair ==
  \A t \in Tabs :
    /\ WF_(Room!roomVars)(/\ subject = "room"
                          /\ Room!Timer(t) \/ \E u \in Tabs \ {t} : Room!Sync(t, u))
    /\ WF_(Room!roomVars)(subject = "room" /\ Room!Reading(t))

\* In a turn, and in a document, what is under way comes to its end: there is only so much of it.
AgentFair == WF_(Agent!agentVars)(subject = "agent" /\ Agent!Working)
HostFair  == WF_(Host!pageVars)(subject = "host" /\ Host!Progress)

AllFairness == ShellFair /\ MeshFair /\ RoomFair /\ AgentFair /\ HostFair

AllSpec == AllInit /\ [][AllNext]_allVars /\ AllFairness

\* Every variable of every part keeps its type.
AllTypes == TypeOK /\ Mesh!TypeOK /\ Room!TypeOK /\ Agent!TypeOK /\ Host!TypeOK

\* The properties of the parts, each stated and explained in its module.
LinksAgree == Mesh!LinksAgree
Completes == Mesh!Completes
GoneForgotten == Mesh!GoneForgotten
NoFlicker == Room!NoFlicker
Converges == Room!Converges
HistoryKept == Agent!HistoryKept
Delivered == Agent!Delivered
GateLifts == Host!GateLifts
AnswerComes == Host!AnswerComes
OnePromptPerGesture == Host!OnePromptPerGesture
=============================================================================
