-------------------------------- MODULE Shell --------------------------------
(***************************************************************************)
(* The shell page of an app opened on a phone (src/src/host.ts): how it    *)
(* comes by a session (a handoff token in its address, or the cookie an    *)
(* earlier visit left), which revision of the app it puts into the frame,  *)
(* and how it tells the user of a newer one.                               *)
(*                                                                         *)
(* A handoff token is exchanged for a refresh token, which is stored as a  *)
(* cookie before anything else, so that a reload finds it.  The revision   *)
(* is read once before the frame opens and polled from then on; every read *)
(* is an await, during which revisions are deployed, the user clicks or    *)
(* dismisses the notice, and the page may be reloaded.                     *)
(***************************************************************************)
EXTENDS Naturals

CONSTANTS
  Cids,        \* revisions of the app (their content ids)
  None,        \* no revision
  MaxDeploys,  \* bound: deployments
  MaxFaults,   \* bound: requests that fail
  MaxReloads   \* bound: reloads of the page

ASSUME ShellAssumption ==
  /\ Cids \cap {None, "none", "asked"} = {}
  /\ MaxDeploys \in Nat
  /\ MaxFaults \in Nat
  /\ MaxReloads \in Nat

VARIABLES
  url,        \* the address still carries the handoff token
  cookie,     \* the refresh cookie is stored
  page,       \* where boot() is
  named,      \* the frame's address names its revision
  deployed,   \* the revision the server has
  framed,     \* the revision in the frame
  committed,  \* committedContentCid
  latest,     \* latestContentCid
  snoozed,    \* snoozedContentCid
  banner,     \* the notice is visible
  poll,       \* the revision poll: updateCheckInFlight and what was answered
  deploys, faults, reloads

vars == <<url, cookie, page, named, deployed, framed, committed, latest, snoozed, banner, poll,
          deploys, faults, reloads>>
noticeVars == <<committed, latest, snoozed, banner>>

Booting == {"start", "storing", "revision"}
Revision == Cids \cup {None}
Poll == {"none", "asked"} \cup Cids

InitAt(first) ==
  /\ url \in BOOLEAN
  /\ cookie \in BOOLEAN
  /\ page = first
  /\ named = FALSE
  /\ deployed \in Cids
  /\ framed = None
  /\ committed = None
  /\ latest = None
  /\ snoozed = None
  /\ banner = FALSE
  /\ poll = "none"
  /\ deploys = 0
  /\ faults = 0
  /\ reloads = 0

Init == InitAt("start")

Fault == faults < MaxFaults /\ faults' = faults + 1

\* bootstrap(token) succeeds, and the token leaves the address.
Exchange ==
  /\ page = "start" /\ url
  /\ url' = FALSE
  /\ page' = "storing"
  /\ UNCHANGED <<cookie, named, deployed, framed, noticeVars, poll, deploys, faults, reloads>>

StoreCookie ==
  /\ page = "storing"
  /\ cookie' = TRUE
  /\ page' = "revision"
  /\ UNCHANGED <<url, named, deployed, framed, noticeVars, poll, deploys, faults, reloads>>

\* No handoff token: accessFromCookie().
FromCookie ==
  /\ page = "start" /\ ~url
  /\ page' = IF cookie THEN "revision" ELSE "failed"
  /\ UNCHANGED <<url, cookie, named, deployed, framed, noticeVars, poll, deploys, faults, reloads>>

\* The handoff, the cookie's storing or the access request fails: boot() shows a message.
FailBoot ==
  /\ page \in {"start", "storing"}
  /\ Fault
  /\ page' = "failed"
  /\ UNCHANGED <<url, cookie, named, deployed, framed, noticeVars, poll, deploys, reloads>>

\* The revision is read; the frame is sent to it, and the polling begins.
OpenFrame ==
  /\ page = "revision"
  /\ page' = "open"
  /\ named' = TRUE
  /\ framed' = deployed
  /\ committed' = deployed
  /\ UNCHANGED <<url, cookie, deployed, latest, snoozed, banner, poll, deploys, faults, reloads>>

\* The revision cannot be read: the frame takes what the server has.
OpenBareFrame ==
  /\ page = "revision"
  /\ Fault
  /\ page' = "open"
  /\ framed' = deployed
  /\ UNCHANGED <<url, cookie, named, deployed, noticeVars, poll, deploys, reloads>>

\* The interval, a focus or a wake: checkForAppUpdate(), one at a time.
Ask ==
  /\ page = "open" /\ poll = "none"
  /\ poll' = "asked"
  /\ UNCHANGED <<url, cookie, page, named, deployed, framed, noticeVars, deploys, faults, reloads>>

AnswerPoll ==
  /\ poll = "asked"
  /\ poll' = deployed
  /\ UNCHANGED <<url, cookie, page, named, deployed, framed, noticeVars, deploys, faults, reloads>>

\* Mutant: who has dismissed one revision is never told of another.
OnAnswerOnce ==
  /\ poll \in Cids
  /\ poll' = "none"
  /\ CASE committed = None ->
            committed' = poll /\ UNCHANGED <<latest, banner>>
       [] committed = poll ->
            latest' = None /\ banner' = FALSE /\ UNCHANGED committed
       [] OTHER ->
            /\ latest' = poll
            /\ banner' = (banner \/ snoozed = None)
            /\ UNCHANGED committed
  /\ UNCHANGED <<url, cookie, page, named, deployed, framed, snoozed, deploys, faults, reloads>>

OnAnswer ==
  /\ poll \in Cids
  /\ poll' = "none"
  /\ CASE committed = None ->
            committed' = poll /\ UNCHANGED <<latest, banner>>
       [] committed = poll ->
            latest' = None /\ banner' = FALSE /\ UNCHANGED committed
       [] OTHER ->
            /\ latest' = poll
            /\ banner' = (banner \/ poll # snoozed)
            /\ UNCHANGED committed
  /\ UNCHANGED <<url, cookie, page, named, deployed, framed, snoozed, deploys, faults, reloads>>

\* Offline, or not the JSON it should be: the finally clause.
FailPoll ==
  /\ poll # "none"
  /\ Fault
  /\ poll' = "none"
  /\ UNCHANGED <<url, cookie, page, named, deployed, framed, noticeVars, deploys, reloads>>

\* The notice's button.  A visible notice always has a latest revision.
ClickUpdate ==
  /\ banner
  /\ committed' = latest
  /\ framed' = latest
  /\ named' = TRUE
  /\ latest' = None
  /\ banner' = FALSE
  /\ UNCHANGED <<url, cookie, page, deployed, snoozed, poll, deploys, faults, reloads>>

DismissUpdate ==
  /\ banner
  /\ snoozed' = latest
  /\ banner' = FALSE
  /\ UNCHANGED <<url, cookie, page, named, deployed, framed, committed, latest, poll, deploys, faults,
                 reloads>>

Deploy(c) ==
  /\ deploys < MaxDeploys
  /\ c # deployed
  /\ deployed' = c
  /\ deploys' = deploys + 1
  /\ UNCHANGED <<url, cookie, page, named, framed, noticeVars, poll, faults, reloads>>

Reload ==
  /\ page \notin {"start", "left"}
  /\ reloads < MaxReloads
  /\ reloads' = reloads + 1
  /\ page' = "start"
  /\ named' = FALSE
  /\ framed' = None
  /\ committed' = None
  /\ latest' = None
  /\ snoozed' = None
  /\ banner' = FALSE
  /\ poll' = "none"
  /\ UNCHANGED <<url, cookie, deployed, deploys, faults>>

Boot == Exchange \/ StoreCookie \/ FromCookie \/ OpenFrame
Polling == Ask \/ AnswerPoll \/ OnAnswer

Next ==
  \/ Boot \/ FailBoot \/ OpenBareFrame
  \/ Polling \/ FailPoll
  \/ ClickUpdate \/ DismissUpdate
  \/ \E c \in Cids : Deploy(c)
  \/ Reload

Spec == Init /\ [][Next]_vars

-----------------------------------------------------------------------------
\* Every variable keeps its type.
TypeOK ==
  /\ url \in BOOLEAN
  /\ cookie \in BOOLEAN
  /\ page \in Booting \cup {"open", "failed", "left"}
  /\ named \in BOOLEAN
  /\ deployed \in Cids
  /\ {framed, committed, latest, snoozed} \subseteq Revision
  /\ banner \in BOOLEAN
  /\ poll \in Poll
  /\ deploys \in 0..MaxDeploys
  /\ faults \in 0..MaxFaults
  /\ reloads \in 0..MaxReloads

\* A page that has opened its app has left behind what a reload needs (host.ts:8, "full page
\* reload restores the session"), whatever failed on the way there.
Restorable == page = "open" => cookie /\ ~url

\* What the shell compares new revisions with is what its frame shows, over deployments, polls in
\* flight while the user clicks, and reloads, if the frame was ever sent to a revision by name.
CommittedShown == named => committed = framed

\* A shell that compares with what its frame shows does not miss what stays deployed: it is shown,
\* offered, or was dismissed, over polls that fail, that a click overtakes, or that read a revision
\* rolled back since.  A frame sent to a revision by name is always compared with (CommittedShown).
\* One whose boot could not read the revision is compared with what the first poll finds
\* (host.ts:426): a deployment between the two is adopted without a word, and is the case this
\* property leaves out.
NoticesDeploy ==
  <>[](page = "open" /\ committed = framed =>
         \/ deployed = framed
         \/ banner /\ latest = deployed
         \/ snoozed = deployed)
=============================================================================
