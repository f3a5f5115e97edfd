------------------------------ MODULE LocalLock ------------------------------
(***************************************************************************)
(* The lock on the development server's data directory,                     *)
(* acquireLocalLock() in src/src/sandbox/local-data.ts.                     *)
(*                                                                          *)
(* Development servers are processes of one machine.  Each runs through the *)
(* lock's system calls one at a time, and other processes run in between:   *)
(* create the file if there is none, else read who owns it, ask whether     *)
(* that process still runs, unlink the file if not, try again; once it is   *)
(* created, write the owner.  Processes are killed at any point, and their  *)
(* process ids go to new processes.                                         *)
(*                                                                          *)
(* Every acquisition has a number of its own (the lock's random token); the *)
(* file an acquisition creates is named by it, so a file that was unlinked  *)
(* while its creator still writes to it is not the file at the path.        *)
(***************************************************************************)
EXTENDS Naturals

CONSTANTS
  Pids,       \* process ids
  MaxStarts,  \* bound: processes started
  MaxTries,   \* bound: acquisitions
  None,       \* no process id
  CanTell,    \* does the system tell when a process started?
  Overlap     \* may one server acquire while another one is at it?

ASSUME LockAssumption ==
  /\ None \notin Pids
  /\ MaxStarts \in Nat
  /\ MaxTries \in Nat
  /\ CanTell \in BOOLEAN
  /\ Overlap \in BOOLEAN

LOCK_ATTEMPTS == 3

VARIABLES
  starts,   \* processes started so far
  proc,     \* proc[p]: start time of the process that runs as p; 0 if none does
  pc,       \* pc[p]: what it is about to do
  att,      \* att[p]: its attempt at creating the file
  acq,      \* acq[p]: the number of its last acquisition
  seen,     \* seen[p]: the acquisition whose owner it read in the file; 0 for none
  saving,   \* acquisitions under which a data file is being written
  tries,    \* acquisitions so far
  author,   \* author[a]: process id and start time of acquisition a
  file,     \* the acquisition that created the lock file there is; 0 if there is none
  written   \* acquisitions that have written their owner record

vars == <<starts, proc, pc, att, acq, seen, saving, tries, author, file, written>>

Tries     == 1..MaxTries
Acquiring == {"open", "read", "probe", "compare", "unlink", "write"}
Releasing == {"release", "unlinkOwn"}

TypeOK ==
  /\ starts \in 0..MaxStarts
  /\ proc \in [Pids -> 0..MaxStarts]
  /\ pc \in [Pids -> {"off", "idle", "held", "refused"} \cup Acquiring \cup Releasing]
  /\ att \in [Pids -> 1..LOCK_ATTEMPTS]
  /\ acq \in [Pids -> Tries \cup {0}]
  /\ seen \in [Pids -> Tries \cup {0}]
  /\ saving \subseteq Tries
  /\ tries \in 0..MaxTries
  /\ author \in [Tries -> [pid : Pids \cup {None}, start : 0..MaxStarts]]
  /\ file \in Tries \cup {0}
  /\ written \subseteq Tries

Init ==
  /\ starts = 0
  /\ proc = [p \in Pids |-> 0]
  /\ pc = [p \in Pids |-> "off"]
  /\ att = [p \in Pids |-> 1]
  /\ acq = [p \in Pids |-> 0]
  /\ seen = [p \in Pids |-> 0]
  /\ saving = {}
  /\ tries = 0
  /\ author = [a \in Tries |-> [pid |-> None, start |-> 0]]
  /\ file = 0
  /\ written = {}

Goto(p, label) == pc' = [pc EXCEPT ![p] = label]

(***************************************************************************)
(* Processes                                                               *)
(***************************************************************************)

\* A process starts, a development server or any other, under a free id.
StartProcess(p) ==
  /\ pc[p] = "off"
  /\ starts < MaxStarts
  /\ starts' = starts + 1
  /\ proc' = [proc EXCEPT ![p] = starts + 1]
  /\ Goto(p, "idle")
  /\ UNCHANGED <<att, acq, seen, saving, tries, author, file, written>>

\* A process ends: killed outright, or after its exit handler has released.
EndProcess(p) ==
  /\ pc[p] # "off"
  /\ proc' = [proc EXCEPT ![p] = 0]
  /\ Goto(p, "off")
  /\ saving' = {a \in saving : author[a].pid # p}
  /\ UNCHANGED <<starts, att, acq, seen, tries, author, file, written>>

(***************************************************************************)
(* Acquiring                                                               *)
(***************************************************************************)

\* Mutant: attempts are counted from 0.
BeginAcquireFrom0(p) ==
  /\ pc[p] = "idle"
  /\ tries < MaxTries
  /\ Overlap \/ \A q \in Pids : pc[q] \notin Acquiring
  /\ tries' = tries + 1
  /\ acq' = [acq EXCEPT ![p] = tries + 1]
  /\ author' = [author EXCEPT ![tries + 1] = [pid |-> p, start |-> proc[p]]]
  /\ att' = [att EXCEPT ![p] = 0]
  /\ Goto(p, "open")
  /\ UNCHANGED <<starts, proc, seen, saving, file, written>>

BeginAcquire(p) ==
  /\ pc[p] = "idle"
  /\ tries < MaxTries
  /\ Overlap \/ \A q \in Pids : pc[q] \notin Acquiring
  /\ tries' = tries + 1
  /\ acq' = [acq EXCEPT ![p] = tries + 1]
  /\ author' = [author EXCEPT ![tries + 1] = [pid |-> p, start |-> proc[p]]]
  /\ att' = [att EXCEPT ![p] = 1]
  /\ Goto(p, "open")
  /\ UNCHANGED <<starts, proc, seen, saving, file, written>>

\* openSync(path, "wx")
OpenExclusive(p) ==
  /\ pc[p] = "open"
  /\ IF file = 0 THEN file' = acq[p] /\ Goto(p, "write")
                 ELSE UNCHANGED file /\ Goto(p, "read")
  /\ UNCHANGED <<starts, proc, att, acq, seen, saving, tries, author, written>>

\* readOwner(): no owner if the file is gone or nothing is written to it yet.
OwnerRead == IF file \in written THEN file ELSE 0

\* The last attempt is refused whoever the owner is.  No owner, or an owner with
\* this process's id (which holds nothing: it is acquiring), is stale.
ReadOwner(p) ==
  /\ pc[p] = "read"
  /\ seen' = [seen EXCEPT ![p] = OwnerRead]
  /\ Goto(p, IF att[p] = LOCK_ATTEMPTS THEN "refused"
             ELSE IF OwnerRead = 0 THEN "unlink"
             ELSE IF author[OwnerRead].pid = p THEN "unlink" ELSE "probe")
  /\ UNCHANGED <<starts, proc, att, acq, saving, tries, author, file, written>>

\* Mutant: any error of kill() is taken for a process that is gone.
ProbeOwnerGone(p) ==
  /\ pc[p] = "probe"
  /\ pc' \in {[pc EXCEPT ![p] = "unlink"], [pc EXCEPT ![p] = "compare"]}
  /\ UNCHANGED <<starts, proc, att, acq, seen, saving, tries, author, file, written>>

\* process.kill(owner.pid, 0)
ProbeOwner(p) ==
  /\ pc[p] = "probe"
  /\ Goto(p, IF proc[author[seen[p]].pid] = 0 THEN "unlink" ELSE "compare")
  /\ UNCHANGED <<starts, proc, att, acq, seen, saving, tries, author, file, written>>

\* Mutant: a running process is taken for the owner, whenever it started.
StartDiffersNever(owner) == FALSE

\* Mutant: the start times are compared the wrong way round.
StartDiffersNot(owner) == CanTell /\ proc[owner.pid] = owner.start

\* processStart(owner.pid) against owner.start.
StartDiffers(owner) ==
  /\ CanTell
  /\ proc[owner.pid] # 0
  /\ proc[owner.pid] # owner.start

CompareStart(p) ==
  /\ pc[p] = "compare"
  /\ Goto(p, IF StartDiffers(author[seen[p]]) THEN "unlink" ELSE "refused")
  /\ UNCHANGED <<starts, proc, att, acq, seen, saving, tries, author, file, written>>

\* unlinkSync(path), whatever file is there by now, and the next attempt.
UnlinkStale(p) ==
  /\ pc[p] = "unlink"
  /\ file' = 0
  /\ att' = [att EXCEPT ![p] = @ + 1]
  /\ Goto(p, "open")
  /\ UNCHANGED <<starts, proc, acq, seen, saving, tries, author, written>>

\* The owner record goes to the file this acquisition created, at the path or not.
WriteOwner(p) ==
  /\ pc[p] = "write"
  /\ written' = written \cup {acq[p]}
  /\ Goto(p, "held")
  /\ UNCHANGED <<starts, proc, att, acq, seen, saving, tries, author, file>>

(***************************************************************************)
(* Holding and releasing                                                   *)
(***************************************************************************)

\* JsonStore.update() writes a data file; close() does not wait for it to end.
BeginSave(p) ==
  /\ pc[p] = "held"
  /\ saving' = saving \cup {acq[p]}
  /\ UNCHANGED <<starts, proc, pc, att, acq, seen, tries, author, file, written>>

EndSave(p) ==
  /\ \E a \in saving : author[a].pid = p /\ saving' = saving \ {a}
  /\ UNCHANGED <<starts, proc, pc, att, acq, seen, tries, author, file, written>>

\* release(), from close() or from the process's exit handler.
Release(p) ==
  /\ pc[p] = "held"
  /\ Goto(p, "release")
  /\ UNCHANGED <<starts, proc, att, acq, seen, saving, tries, author, file, written>>

\* readOwner(path)?.token === owner.token
CheckOwn(p) ==
  /\ pc[p] = "release"
  /\ Goto(p, IF OwnerRead = acq[p] THEN "unlinkOwn" ELSE "idle")
  /\ UNCHANGED <<starts, proc, att, acq, seen, saving, tries, author, file, written>>

UnlinkOwn(p) ==
  /\ pc[p] = "unlinkOwn"
  /\ file' = 0
  /\ Goto(p, "idle")
  /\ UNCHANGED <<starts, proc, att, acq, seen, saving, tries, author, written>>

(***************************************************************************)
(* Specification                                                           *)
(***************************************************************************)
AcquireStep(p) ==
  \/ OpenExclusive(p) \/ ReadOwner(p) \/ ProbeOwner(p) \/ CompareStart(p)
  \/ UnlinkStale(p) \/ WriteOwner(p)

Next ==
  \E p \in Pids :
    \/ StartProcess(p) \/ EndProcess(p) \/ BeginAcquire(p) \/ AcquireStep(p)
    \/ BeginSave(p) \/ EndSave(p) \/ Release(p) \/ CheckOwn(p) \/ UnlinkOwn(p)

\* acquireLocalLock() is synchronous: once begun it runs on.
Fairness == \A p \in Pids : WF_vars(AcquireStep(p))

Spec     == Init /\ [][Next]_vars
FairSpec == Spec /\ Fairness

(***************************************************************************)
(* Properties                                                              *)
(***************************************************************************)

\* The lock is a lock: "so two servers never write the same data"
\* (local-data.ts 138-140).
MutualExclusion == \A p, q \in Pids : pc[p] = "held" /\ pc[q] = "held" => p = q

\* The file at the path names the server that holds the lock until that server
\* releases it: no take-over removes the lock of a running server, and a release
\* removes no lock but its own.
HolderNamed == \A p \in Pids : pc[p] \in {"held", "unlinkOwn"} => OwnerRead = acq[p]

\* A server that acquires while no other server is around gets the lock, whatever
\* killed servers left behind and whoever has their process ids now; unless that
\* process ends between the two questions asked about it.
ServerAt(q) == pc[q] \in Acquiring \cup Releasing \cup {"held"}

StaleTakenOver ==
  \A p \in Pids :
    pc[p] = "open" ~> \/ pc[p] \in {"held", "off"}
                      \/ pc[p] = "compare" /\ proc[author[seen[p]].pid] = 0
                      \/ \E q \in Pids \ {p} : ServerAt(q)
==============================================================================
