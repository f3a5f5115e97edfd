-------------------------------- MODULE Drive --------------------------------
(***************************************************************************)
(* The development server's file store (src/src/sandbox/runtime.ts) under  *)
(* the SDK's drive operations (src/src/runtime.ts).                        *)
(*                                                                         *)
(* Creating a file takes three requests: presign gives it a content id,    *)
(* upload puts its bytes into the pending directory, confirm moves them to *)
(* the files directory and enters them into the index, a JsonStore: one    *)
(* update at a time, first in the file, then in memory.  Removing takes    *)
(* entries out of the index first and their bytes away afterwards.  Every  *)
(* await is a place where the handlers of other requests run, where the    *)
(* file system may fail, and where the server may stop and start again.    *)
(*                                                                         *)
(* An operation that creates a file stands for the content id it is given. *)
(***************************************************************************)
EXTENDS Integers, Sequences, FiniteSets

CONSTANTS
  Creates,     \* operations that create a file: drive.write and drive.upload
  CreateOnly,  \* those that are drive.write
  Removes,     \* operations that remove: drive.remove(name), drive.delete(cid)
  ByName,      \* those that are drive.remove
  Names,       \* file names
  Serial,      \* do writes of one name wait for one another?
  MaxFaults,   \* bound: failing file operations and lost requests
  MaxCrashes   \* bound: restarts of the server

ASSUME DriveAssumption ==
  /\ CreateOnly \subseteq Creates
  /\ ByName \subseteq Removes
  /\ Creates \cap Removes = {}
  /\ Serial \in BOOLEAN
  /\ MaxFaults \in Nat
  /\ MaxCrashes \in Nat

Ops == Creates \cup Removes

VARIABLES
  pc,       \* pc[o]: how far operation o is
  name,     \* name[o]: the file name it is about
  goal,     \* goal[o]: the content ids a removal found in the index
  pending,  \* content ids with bytes in the pending directory
  files,    \* content ids with bytes in the files directory
  queue,    \* operations whose index update is queued; the head is being written
  renamed,  \* the head's new index is in the file already
  disk,     \* content ids in the index file
  current,  \* content ids in drive.value
  dropped,  \* content ids that a removal has taken out of the index
  faults, crashes

vars == <<pc, name, goal, pending, files, queue, renamed, disk, current, dropped, faults, crashes>>

Requests == {"presign", "confirm"}                            \* on its way to the server
Handling == {"stat", "rename", "update", "rm"}                \* awaited by its handler
Settled  == {"done", "failed"}

TypeOK ==
  /\ pc \in [Ops -> {"idle", "upload"} \cup Requests \cup Handling \cup Settled]
  /\ name \in [Ops -> Names]
  /\ goal \in [Removes -> SUBSET Creates]
  /\ pending \subseteq Creates
  /\ files \subseteq Creates
  /\ queue \in Seq(Ops)
  /\ renamed \in BOOLEAN
  /\ disk \subseteq Creates
  /\ current \subseteq Creates
  /\ dropped \subseteq Creates
  /\ faults \in 0..MaxFaults
  /\ crashes \in 0..MaxCrashes

Init ==
  /\ pc = [o \in Ops |-> "idle"]
  /\ name \in [Ops -> Names]
  /\ goal = [o \in Removes |-> {}]
  /\ pending = {}
  /\ files = {}
  /\ queue = <<>>
  /\ renamed = FALSE
  /\ disk = {}
  /\ current = {}
  /\ dropped = {}
  /\ faults = 0
  /\ crashes = 0

Goto(o, label) == pc' = [pc EXCEPT ![o] = label]

indexVars == <<queue, renamed, disk, current, dropped>>
byteVars  == <<pending, files>>
boundVars == <<faults, crashes>>

(***************************************************************************)
(* Creating: drive.write and drive.upload                                  *)
(***************************************************************************)
InFlight(o) == pc[o] \notin {"idle"} \cup Settled

StartCreate(o) ==
  /\ o \in Creates
  /\ pc[o] = "idle"
  /\ Serial => \A q \in Creates : name[q] = name[o] => ~InFlight(q)
  /\ Goto(o, "presign")
  /\ UNCHANGED <<name, goal, byteVars, indexVars, boundVars>>

Presign(o) ==
  /\ pc[o] = "presign"
  /\ Goto(o, "upload")
  /\ UNCHANGED <<name, goal, byteVars, indexVars, boundVars>>

\* Mutant: bytes are kept under the file's name.
UploadByName(o) ==
  /\ pc[o] = "upload"
  /\ pending' = pending \cup {name[o]}
  /\ Goto(o, "confirm")
  /\ UNCHANGED <<name, goal, files, indexVars, boundVars>>

\* Bytes are taken under any content id, presigned by this server or not.
Upload(o) ==
  /\ pc[o] = "upload"
  /\ pending' = pending \cup {o}
  /\ Goto(o, "confirm")
  /\ UNCHANGED <<name, goal, files, indexVars, boundVars>>

\* Mutant: the name is looked up among the files whose bytes are pending.
NameTakenPending(o) == \E f \in pending \ {o} : name[f] = name[o]

\* POST /drive/confirm up to its first await: a write of a name that is in the
\* index is refused with 409.
NameTaken(o) == \E f \in current : name[f] = name[o]

Confirm(o) ==
  /\ pc[o] = "confirm"
  /\ Goto(o, IF o \in CreateOnly /\ NameTaken(o) THEN "failed" ELSE "stat")
  /\ UNCHANGED <<name, goal, byteVars, indexVars, boundVars>>

\* No bytes: 404.
StatBytes(o) ==
  /\ pc[o] = "stat"
  /\ Goto(o, IF o \in pending THEN "rename" ELSE "failed")
  /\ UNCHANGED <<name, goal, byteVars, indexVars, boundVars>>

\* The bytes move, then the new entry queues in drive.update().
MoveBytes(o) ==
  /\ pc[o] = "rename"
  /\ pending' = pending \ {o}
  /\ files' = files \cup {o}
  /\ queue' = Append(queue, o)
  /\ Goto(o, "update")
  /\ UNCHANGED <<name, goal, renamed, disk, current, dropped, boundVars>>

(***************************************************************************)
(* Removing: drive.remove and drive.delete                                 *)
(***************************************************************************)

\* Mutant: the bytes go before the index does.
StartRemoveBytes(o) ==
  /\ o \in Removes
  /\ pc[o] = "idle"
  /\ \E found \in IF o \in ByName THEN {{f \in current : name[f] = name[o]}}
                                  ELSE {{f} : f \in current} :
       /\ found # {}
       /\ goal' = [goal EXCEPT ![o] = found]
       /\ files' = files \ found
  /\ queue' = Append(queue, o)
  /\ Goto(o, "update")
  /\ UNCHANGED <<name, pending, renamed, disk, current, dropped, boundVars>>

\* DELETE finds the files by name, or the one by content id; none is a 404.
StartRemove(o) ==
  /\ o \in Removes
  /\ pc[o] = "idle"
  /\ \E found \in IF o \in ByName THEN {{f \in current : name[f] = name[o]}}
                                  ELSE {{f} : f \in current} :
       /\ found # {}
       /\ goal' = [goal EXCEPT ![o] = found]
  /\ queue' = Append(queue, o)
  /\ Goto(o, "update")
  /\ UNCHANGED <<name, byteVars, renamed, disk, current, dropped, boundVars>>

\* rm(), with force, of the files found before the update.
RemoveBytes(o) ==
  /\ pc[o] = "rm"
  /\ files' = files \ goal[o]
  /\ Goto(o, "done")
  /\ UNCHANGED <<name, goal, pending, indexVars, boundVars>>

(***************************************************************************)
(* The index, a JsonStore                                                  *)
(***************************************************************************)

\* The mutators: push the new entry; filter by name, or by content id.
Mutated(o, index) ==
  IF o \in Creates THEN index \cup {o}
  ELSE IF o \in ByName THEN {f \in index : name[f] # name[o]}
  ELSE index \ goal[o]

RenameIndex ==
  /\ queue # <<>>
  /\ ~renamed
  /\ renamed' = TRUE
  /\ disk' = Mutated(Head(queue), current)
  /\ dropped' = dropped \cup (current \ disk')
  /\ UNCHANGED <<pc, name, goal, byteVars, queue, current, boundVars>>

\* The value in memory follows; the handler that waited goes on.
FinishUpdate ==
  /\ renamed
  /\ renamed' = FALSE
  /\ current' = disk
  /\ queue' = Tail(queue)
  /\ Goto(Head(queue), IF Head(queue) \in Creates THEN "done" ELSE "rm")
  /\ UNCHANGED <<name, goal, byteVars, disk, dropped, boundVars>>

(***************************************************************************)
(* Failure                                                                 *)
(***************************************************************************)

\* A request is lost, or a file operation fails, and the operation with it.
FailOp(o) ==
  /\ pc[o] \in Requests \cup {"upload", "stat", "rename", "rm"}
  /\ faults < MaxFaults
  /\ faults' = faults + 1
  /\ Goto(o, "failed")
  /\ UNCHANGED <<name, goal, byteVars, indexVars, crashes>>

\* Mutant: a failed update is not reported to the handler that waits for it.
FailUpdateSilently ==
  /\ queue # <<>>
  /\ ~renamed
  /\ faults < MaxFaults
  /\ faults' = faults + 1
  /\ queue' = Tail(queue)
  /\ Goto(Head(queue), IF Head(queue) \in Creates THEN "done" ELSE "rm")
  /\ UNCHANGED <<name, goal, byteVars, renamed, disk, current, dropped, crashes>>

\* The index cannot be written: nothing changes, and the queue goes on.
FailUpdate ==
  /\ queue # <<>>
  /\ ~renamed
  /\ faults < MaxFaults
  /\ faults' = faults + 1
  /\ queue' = Tail(queue)
  /\ Goto(Head(queue), "failed")
  /\ UNCHANGED <<name, goal, byteVars, renamed, disk, current, dropped, crashes>>

\* The server starts again from its index file; the pending directory is emptied.
\* The requests it was handling fail; the others do not notice.
Restart ==
  /\ crashes < MaxCrashes
  /\ crashes' = crashes + 1
  /\ pending' = {}
  /\ current' = disk
  /\ queue' = <<>>
  /\ renamed' = FALSE
  /\ pc' = [o \in Ops |-> IF pc[o] \in Handling THEN "failed" ELSE pc[o]]
  /\ UNCHANGED <<name, goal, files, disk, dropped, faults>>

(***************************************************************************)
(* Specification                                                           *)
(***************************************************************************)
Next ==
  \/ \E o \in Ops : \/ StartCreate(o) \/ Presign(o) \/ Upload(o) \/ Confirm(o) \/ StatBytes(o)
                    \/ MoveBytes(o) \/ StartRemove(o) \/ RemoveBytes(o) \/ FailOp(o)
  \/ RenameIndex \/ FinishUpdate \/ FailUpdate \/ Restart

Spec == Init /\ [][Next]_vars

(***************************************************************************)
(* Properties                                                              *)
(***************************************************************************)

\* A file that is listed can be read: its bytes are there as long as the index,
\* in memory or in the file a restart loads, has an entry for them.
ListedReadable == current \cup disk \subseteq files

\* A file whose creation was confirmed stays listed, over failures of other
\* operations and restarts, until a removal takes it out.
ConfirmedListed ==
  \A o \in Creates : pc[o] = "done" => o \in dropped \/ (o \in disk /\ o \in current)

\* "Existing files are never overwritten: rejects maypop/conflict if the name
\* already exists" (v1.ts 261-262): no two files that drive.write has created
\* under one name are listed.
WriteOnce ==
  \A o, q \in CreateOnly \cap disk : name[o] = name[q] => o = q
==============================================================================
