---------------------------- MODULE AgentSession ----------------------------
(***************************************************************************)
(* An agent session that resumes a stored conversation (agent/index.ts     *)
(* 490-693, runtime.ts 2409-2434).  The stored record is a value in the    *)
(* app's key-value store: loading reads this browser's replica of it,      *)
(* saving overwrites the whole record.  Sends with images are handed to    *)
(* the agent later than sends without; a turn that is running by then      *)
(* takes them as steering.  Messages are model values; replies are left    *)
(* out, and with them what a turn consists of.                             *)
(*                                                                         *)
(* The agent is pi's: a run starts, takes steering messages as it goes,    *)
(* emits agent_end, and only then stops streaming (finishRun).             *)
(***************************************************************************)
EXTENDS FiniteSets

CONSTANTS Stored,       \* messages of the conversation before this session
          Sends,        \* messages the app sends
          WithImages,   \* those of them that carry images
          PullFirst     \* is the replica up to date before the session loads?

VARIABLES stored,      \* the record in the store
          pulled,      \* has this browser's replica been pulled?
          load,        \* loadedPromise: "going", "done", or "broken": no engine
          transcript,  \* agent.state.messages
          run,         \* the agent: idle, prompted, running, ending
          prompt,      \* messages of the prompt that is starting
          aborting,
          steering,    \* messages waiting to be taken by a run
          turnActive,  \* what the app sees as streaming
          sent,        \* stage of each send
          hasty        \* has the app sent before ready()?

agentVars == <<stored, pulled, load, transcript, run, prompt, aborting, steering,
               turnActive, sent, hasty>>

InitAt(first) ==
    /\ stored = Stored /\ pulled = FALSE /\ load = first
    /\ transcript = {} /\ run = "idle" /\ prompt = {} /\ aborting = FALSE
    /\ steering = {} /\ turnActive = FALSE
    /\ sent = [m \in Sends |-> "unsent"] /\ hasty = FALSE

Init == InitAt("going")

IsStreaming == run # "idle"

-----------------------------------------------------------------------------
(* Loading                                                                 *)

Pull ==
    /\ ~pulled /\ pulled' = TRUE
    /\ UNCHANGED <<stored, load, transcript, run, prompt, aborting, steering, turnActive, sent,
                   hasty>>

\* Mutant: only a session that has begun is given the stored transcript.
LoadLate(ok) ==
    /\ load = "going" /\ (PullFirst => pulled)
    /\ load' = IF ok THEN "done" ELSE "broken"
    /\ transcript' = IF ok /\ pulled /\ transcript # {} THEN stored ELSE transcript
    /\ UNCHANGED <<stored, pulled, run, prompt, aborting, steering, turnActive, sent, hasty>>

\* Seed the transcript, unless a send came first.  When the store's engine
\* cannot be imported the error is logged, and every save fails as well.
Load(ok) ==
    /\ load = "going" /\ (PullFirst => pulled)
    /\ load' = IF ok THEN "done" ELSE "broken"
    /\ transcript' = IF ok /\ pulled /\ transcript = {} THEN stored ELSE transcript
    /\ UNCHANGED <<stored, pulled, run, prompt, aborting, steering, turnActive, sent, hasty>>

-----------------------------------------------------------------------------
(* Sending                                                                 *)

\* Messages left in the agent's queue by a run that ended or is about to: they
\* are late, and wait for the next run.
Late(ms, stages) == [m \in Sends |-> IF m \in ms THEN "late" ELSE stages[m]]

\* After the content is built: steer a running turn, or prompt.
Hand(m) ==
    /\ sent' = [sent EXCEPT ![m] = IF run = "ending" \/ aborting THEN "late" ELSE "handed"]
    /\ IF IsStreaming
       THEN steering' = steering \cup {m} /\ UNCHANGED <<run, prompt>>
       ELSE run' = "prompted" /\ prompt' = {m} /\ UNCHANGED steering

\* send() waits for nothing, and may come before ready().
Send(m) ==
    /\ sent[m] = "unsent"
    /\ hasty' = (hasty \/ load = "going")
    /\ turnActive' = (turnActive \/ ~IsStreaming)
    /\ IF m \in WithImages
       THEN sent' = [sent EXCEPT ![m] = "building"] /\ UNCHANGED <<run, prompt, steering>>
       ELSE Hand(m)
    /\ UNCHANGED <<stored, pulled, load, transcript, aborting>>

Built(m) ==
    /\ sent[m] = "building"
    /\ Hand(m)
    /\ UNCHANGED <<stored, pulled, load, transcript, aborting, turnActive, hasty>>

\* An image that cannot be read clears the turn, whosever it is.
BuildFails(m) ==
    /\ sent[m] = "building"
    /\ sent' = [sent EXCEPT ![m] = "failed"] /\ turnActive' = FALSE
    /\ UNCHANGED <<stored, pulled, load, transcript, run, prompt, aborting, steering, hasty>>

PromptFails ==
    /\ run = "prompted"
    /\ run' = "idle" /\ prompt' = {} /\ aborting' = FALSE /\ turnActive' = FALSE
    /\ sent' = Late(steering, [m \in Sends |-> IF m \in prompt THEN "failed" ELSE sent[m]])
    /\ UNCHANGED <<stored, pulled, load, transcript, steering, hasty>>

\* abort() clears the turn eagerly; the run ends when it notices.
Abort ==
    /\ ~aborting /\ (turnActive \/ IsStreaming)
    /\ aborting' = IsStreaming /\ turnActive' = FALSE
    /\ sent' = Late(steering, sent)
    /\ UNCHANGED <<stored, pulled, load, transcript, run, prompt, steering, hasty>>

-----------------------------------------------------------------------------
(* The agent's run                                                         *)

AgentStart ==
    /\ run = "prompted"
    /\ run' = "running" /\ turnActive' = TRUE
    /\ transcript' = transcript \cup prompt /\ prompt' = {}
    /\ UNCHANGED <<stored, pulled, load, aborting, steering, sent, hasty>>

TakeSteering ==
    /\ run = "running" /\ ~aborting /\ steering # {}
    /\ transcript' = transcript \cup steering /\ steering' = {}
    /\ UNCHANGED <<stored, pulled, load, run, prompt, aborting, turnActive, sent, hasty>>

\* Mutant: the turn is read off the agent, which still streams.
AgentEndLatched ==
    /\ run = "running" /\ (steering = {} \/ aborting)
    /\ run' = "ending" /\ turnActive' = IsStreaming
    /\ stored' = IF load = "broken" THEN stored ELSE transcript
    /\ UNCHANGED <<pulled, load, transcript, prompt, aborting, steering, sent, hasty>>

\* agent_end: the listener clears the turn and saves the conversation.
AgentEnd ==
    /\ run = "running" /\ (steering = {} \/ aborting)
    /\ run' = "ending" /\ turnActive' = FALSE
    /\ stored' = IF load = "broken" THEN stored ELSE transcript
    /\ UNCHANGED <<pulled, load, transcript, prompt, aborting, steering, sent, hasty>>

FinishRun ==
    /\ run = "ending"
    /\ run' = "idle" /\ aborting' = FALSE
    /\ UNCHANGED <<stored, pulled, load, transcript, prompt, steering, turnActive, sent, hasty>>

Working ==
    \/ \E m \in Sends : Built(m) \/ BuildFails(m)
    \/ PromptFails \/ AgentStart \/ TakeSteering \/ AgentEnd \/ FinishRun

Next ==
    \/ Pull \/ (\E ok \in BOOLEAN : Load(ok))
    \/ (\E m \in Sends : Send(m)) \/ Abort \/ Working

Spec == Init /\ [][Next]_agentVars

-----------------------------------------------------------------------------
\* Every variable keeps its type.
TypeOK ==
    /\ stored \subseteq Stored \cup Sends /\ transcript \subseteq Stored \cup Sends
    /\ pulled \in BOOLEAN /\ load \in {"going", "done", "broken"}
    /\ run \in {"idle", "prompted", "running", "ending"}
    /\ prompt \subseteq Sends /\ steering \subseteq Sends
    /\ aborting \in BOOLEAN /\ turnActive \in BOOLEAN
    /\ sent \in [Sends -> {"unsent", "building", "handed", "late", "failed"}]
    /\ hasty \in BOOLEAN

\* A conversation that is resumed and continued never loses a message that was
\* stored: each turn saves a transcript that begins with the stored one.  Only an app
\* that sends before ready() may lose it: what it sent is not overwritten by the
\* stored transcript, which is skipped, and overwritten itself when the turn ends.
HistoryKept == [][stored \subseteq stored' \/ hasty]_agentVars

\* What the app sends while its turn goes on, or as the prompt of one, gets into
\* the transcript, unless the prompt fails or the app aborts the turn; and no turn
\* stays open.  (What it sends while a run ends or is being aborted is late: it waits
\* in the agent's queue for a run that may never come.)
Delivered ==
    <>[](~turnActive /\ \A m \in Sends : sent[m] = "handed" => m \in transcript)
=============================================================================
