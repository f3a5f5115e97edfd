----------------------------- MODULE DriveProofs -----------------------------
(***************************************************************************)
(* Theorems about Drive, for any operations, names, faults and restarts:   *)
(* what is listed can be read, what was confirmed stays listed, and no     *)
(* name is written twice if writes of one name do not overlap.             *)
(*                                                                         *)
(* The index in memory is in the file, or the file is one update ahead.    *)
(* Only settled creations are in memory's index, and a removal only finds  *)
(* those, so it never takes the bytes of one whose update is to come.      *)
(***************************************************************************)
EXTENDS Drive, TLAPS

\* Updates wait once each, and their handlers with them.
Queued ==
  /\ \A i \in 1..Len(queue) : pc[queue[i]] = "update"
  /\ \A i, j \in 1..Len(queue) : queue[i] = queue[j] => i = j

Index ==
  /\ renamed => queue # <<>> /\ disk = Mutated(Head(queue), current)
  /\ ~renamed => disk = current

Listed == \A f \in current : pc[f] \in Settled

\* Only a removal takes bytes away, and it does nothing else but update the index.
Roles ==
  /\ \A o \in Creates : pc[o] # "rm"
  /\ \A o \in Removes : pc[o] \in {"idle", "update", "rm", "done", "failed"}

Goals ==
  \A o \in Removes :
    /\ \A f \in goal[o] : pc[f] \in Settled /\ (o \in ByName => name[f] = name[o])
    /\ pc[o] = "rm" => goal[o] \cap current = {}

Bytes ==
  /\ current \subseteq files
  /\ \A o \in Creates : pc[o] = "update" => o \in files

\* With writes of one name one after another, one that has passed the check of
\* its name is still alone with it when it enters the index.
Alone ==
  Serial => \A o, q \in Creates : name[o] = name[q] /\ InFlight(o) /\ InFlight(q) => o = q
Checked(o) == o \in CreateOnly /\ pc[o] \in {"stat", "rename", "update"}
Fresh ==
  Serial => \A o \in Creates : Checked(o) => \A f \in current : name[f] # name[o]
Once ==
  Serial => \A o, q \in CreateOnly \cap current : name[o] = name[q] => o = q

IInv ==
  /\ TypeOK /\ Queued /\ Index /\ Listed /\ Roles /\ Goals /\ Bytes /\ ConfirmedListed
  /\ Alone /\ Fresh /\ Once

-----------------------------------------------------------------------------
LEMMA InitInv == Init => IInv
<1> SUFFICES ASSUME Init PROVE IInv
  OBVIOUS
<1> USE DriveAssumption DEF DriveAssumption
<1>1. TypeOK
  <2>1. renamed \in BOOLEAN
    BY DEF Init
  <2> QED
    BY <2>1 DEF Init, TypeOK, Ops
<1>2. Queued /\ Index /\ Listed /\ Roles /\ Goals /\ Bytes
  BY DEF Init, Queued, Index, Listed, Roles, Goals, Bytes, Ops
<1>3. ConfirmedListed /\ Alone /\ Fresh /\ Once
  BY DEF Init, ConfirmedListed, Alone, InFlight, Fresh, Checked, Once, Ops
<1> QED
  BY <1>1, <1>2, <1>3 DEF IInv

\* The file's index: memory's, but for the update under way.
LEMMA Ahead ==
  ASSUME IInv
  PROVE  /\ disk \subseteq files
         /\ \A f \in disk : \/ f \in current
                            \/ renamed /\ f \in Creates /\ f = Head(queue) /\ pc[f] = "update"
         /\ \A o \in Removes : pc[o] = "rm" => goal[o] \cap disk = {}
<1>1. ASSUME NEW f \in disk, f \notin current
      PROVE  renamed /\ f \in Creates /\ f = Head(queue) /\ pc[f] = "update"
  <2>1. renamed /\ queue # <<>> /\ f \in Mutated(Head(queue), current)
    BY <1>1 DEF IInv, Index
  <2>2. Head(queue) \in Creates /\ f = Head(queue)
    BY <1>1, <2>1 DEF Mutated
  <2>3. Head(queue) = queue[1] /\ 1 \in 1..Len(queue)
    BY <2>1 DEF IInv, TypeOK
  <2> QED
    BY <2>1, <2>2, <2>3 DEF IInv, Queued
<1>2. disk \subseteq files
  BY <1>1 DEF IInv, Bytes
<1>3. ASSUME NEW o \in Removes, pc[o] = "rm", NEW f \in goal[o] PROVE f \notin disk
  <2>1. pc[f] # "update" /\ f \notin current
    BY <1>3 DEF IInv, Goals, Settled
  <2> QED
    BY <2>1, <1>1
<1> QED
  BY <1>1, <1>2, <1>3

\* What becomes current when the file's index is adopted, by the end of an
\* update or by a restart, names every file once.
LEMMA AheadOnce ==
  ASSUME IInv, Serial
  PROVE  /\ \A o, q \in CreateOnly \cap disk : name[o] = name[q] => o = q
         /\ \A o \in Creates : Checked(o) /\ o \notin disk => \A f \in disk : name[f] # name[o]
<1> USE DriveAssumption DEF DriveAssumption
<1>1. ASSUME NEW o \in CreateOnly \cap disk, o \notin current,
             NEW q \in Creates, q \in current PROVE name[q] # name[o]
  BY <1>1, Ahead DEF IInv, Fresh, Checked
<1>2. \A o, q \in disk : o \notin current /\ q \notin current => o = q
  BY Ahead
<1>3. \A o, q \in CreateOnly \cap disk : name[o] = name[q] => o = q
  BY <1>1, <1>2 DEF IInv, Once
<1>4. ASSUME NEW o \in Creates, Checked(o), o \notin disk, NEW f \in disk PROVE name[f] # name[o]
  <2>1. CASE f \in current
    BY <1>4, <2>1 DEF IInv, Fresh
  <2>2. CASE f \notin current
    <3>1. f \in Creates /\ pc[f] = "update"
      BY <2>2, Ahead
    <3>2. InFlight(f) /\ InFlight(o)
      BY <1>4, <3>1 DEF InFlight, Settled, Checked
    <3> QED
      BY <1>4, <3>1, <3>2 DEF IInv, Alone
  <2> QED
    BY <2>1, <2>2
<1> QED
  BY <1>3, <1>4

-----------------------------------------------------------------------------
\* The steps of a creation that leave index and bytes alone, and its failures.
LEMMA HandlerInv ==
  ASSUME IInv, NEW o \in Ops,
         \/ StartCreate(o) \/ Presign(o) \/ Upload(o) \/ Confirm(o) \/ StatBytes(o) \/ FailOp(o)
  PROVE  IInv'
<1> USE DriveAssumption DEF DriveAssumption, IInv
<1>1. UNCHANGED <<name, goal, files, queue, renamed, disk, current, dropped>>
  BY DEF StartCreate, Presign, Upload, Confirm, StatBytes, FailOp, indexVars, byteVars
<1>2. /\ pc' = [pc EXCEPT ![o] = pc'[o]] /\ pc[o] \notin Settled \cup {"update"}
      /\ pc'[o] \in Requests \cup {"upload", "stat", "rename", "failed"}
      /\ InFlight(o)' => InFlight(o) \/ StartCreate(o)
  BY DEF StartCreate, Presign, Upload, Confirm, StatBytes, FailOp, Goto, TypeOK, Ops, InFlight,
         Settled, Requests
<1>3. TypeOK'
  <2>1. pending' \subseteq Creates
    BY DEF StartCreate, Presign, Upload, Confirm, StatBytes, FailOp, byteVars, TypeOK, Roles, Ops
  <2>3. faults' \in 0..MaxFaults /\ crashes' \in 0..MaxCrashes
    BY DEF StartCreate, Presign, Upload, Confirm, StatBytes, FailOp, boundVars, TypeOK
  <2>2. pc' \in [Ops -> {"idle", "upload"} \cup Requests \cup Handling \cup Settled]
    BY <1>2 DEF TypeOK, Requests, Handling, Settled
  <2> QED
    BY <1>1, <2>1, <2>2, <2>3 DEF TypeOK
<1>4. Queued' /\ Index' /\ Listed' /\ Roles' /\ Goals' /\ Bytes' /\ ConfirmedListed'
  <2>1. \A q \in Ops : q # o => pc'[q] = pc[q]
    BY <1>2 DEF TypeOK
  <2>2. pc'[o] \notin {"update", "rm", "done"}
    BY <1>2 DEF Requests
  <2>3. Queued'
    BY <1>1, <1>2, <2>1 DEF Queued, TypeOK
  <2>4. Index'
    BY <1>1 DEF Index, Mutated
  <2>5. Listed' /\ Goals'
    BY <1>1, <1>2, <2>1, <2>2 DEF Listed, Goals, TypeOK, Ops
  <2>7. Roles'
    BY <1>2, <2>1 DEF Roles, StartCreate, Presign, Upload, Confirm, StatBytes, FailOp, Goto, Ops,
                      TypeOK, Settled
  <2>6. Bytes' /\ ConfirmedListed'
    BY <1>1, <2>1, <2>2 DEF Bytes, ConfirmedListed, Ops
  <2> QED
    BY <2>3, <2>4, <2>5, <2>6, <2>7
<1>5. Alone'
  <2> SUFFICES ASSUME Serial, NEW p \in Creates, NEW q \in Creates, name[p] = name[q],
                      InFlight(p)', InFlight(q)'
               PROVE  p = q
    BY <1>1 DEF Alone
  <2>1. \A r \in Ops : r # o => (InFlight(r)' <=> InFlight(r))
    BY <1>2 DEF InFlight, TypeOK
  <2>2. CASE StartCreate(o)
    BY <2>1, <2>2 DEF StartCreate, Alone, Ops
  <2>3. CASE ~StartCreate(o)
    BY <1>2, <2>1, <2>3 DEF Alone, Ops
  <2> QED
    BY <2>2, <2>3
<1>6. Fresh'
  <2> SUFFICES ASSUME Serial, NEW p \in Creates, Checked(p)', NEW f \in current
               PROVE  name[f] # name[p]
    BY <1>1 DEF Fresh
  <2>1. CASE Checked(p)
    BY <2>1 DEF Fresh
  <2>2. CASE ~Checked(p)
    <3>1. p = o /\ Confirm(o) /\ ~NameTaken(o)
      BY <1>2, <2>2 DEF Checked, StartCreate, Presign, Upload, Confirm, StatBytes, FailOp, Goto,
                        TypeOK, Ops
    <3> QED
      BY <3>1 DEF NameTaken
  <2> QED
    BY <2>1, <2>2
<1>7. Once'
  BY <1>1 DEF Once
<1> QED
  BY <1>3, <1>4, <1>5, <1>6, <1>7

\* A creation or a removal joins the queue.
LEMMA JoinInv ==
  ASSUME IInv, NEW o \in Ops, MoveBytes(o) \/ StartRemove(o) PROVE IInv'
<1> USE DriveAssumption DEF DriveAssumption, IInv
<1>1. UNCHANGED <<name, renamed, disk, current, dropped>> /\ queue' = Append(queue, o)
  BY DEF MoveBytes, StartRemove
<1>2. /\ pc' = [pc EXCEPT ![o] = "update"] /\ pc'[o] = "update"
      /\ pc[o] \notin Settled \cup {"update", "rm"}
      /\ \A q \in Ops : q # o => pc'[q] = pc[q]
  BY DEF MoveBytes, StartRemove, Goto, TypeOK, Settled
<1>3. /\ files \subseteq files' /\ files' \subseteq Creates
      /\ o \in Creates => o \in files'
  BY DEF MoveBytes, StartRemove, TypeOK, Roles, Ops, byteVars
<1>4. \A r \in Removes : \/ goal'[r] = goal[r]
                         \/ /\ r = o /\ goal'[r] \subseteq current
                            /\ r \in ByName => \A f \in goal'[r] : name[f] = name[r]
  BY DEF MoveBytes, StartRemove, TypeOK
<1>5. TypeOK'
  <2>1. queue' \in Seq(Ops)
    BY <1>1 DEF TypeOK
  <2>2. goal' \in [Removes -> SUBSET Creates]
    BY DEF MoveBytes, StartRemove, TypeOK
  <2>3. pending' \subseteq Creates /\ UNCHANGED <<faults, crashes>>
    BY DEF MoveBytes, StartRemove, TypeOK, byteVars, boundVars
  <2>4. pc' \in [Ops -> {"idle", "upload"} \cup Requests \cup Handling \cup Settled]
    BY <1>2 DEF TypeOK, Handling
  <2> QED
    BY <1>1, <1>3, <2>1, <2>2, <2>3, <2>4 DEF TypeOK
<1>6. Queued' /\ Index'
  <2>1. /\ Len(queue') = Len(queue) + 1 /\ Len(queue) \in Nat /\ queue'[Len(queue) + 1] = o
        /\ \A i \in 1..Len(queue) : queue'[i] = queue[i] /\ queue[i] # o
    BY <1>1, <1>2 DEF TypeOK, Queued
  <2>2. Queued'
    BY <1>2, <2>1 DEF Queued
  <2>3. queue # <<>> => queue' # <<>> /\ Head(queue') = Head(queue)
    BY <1>1 DEF TypeOK
  <2>4. ASSUME queue # <<>> PROVE Mutated(Head(queue), current)' = Mutated(Head(queue), current)
    <3>1. Head(queue) = queue[1] /\ 1 \in 1..Len(queue) /\ Head(queue) \in Ops
      BY <2>4 DEF TypeOK
    <3>2. Head(queue) # o
      BY <2>1, <3>1
    <3>3. Head(queue) \in Removes => goal'[Head(queue)] = goal[Head(queue)]
      BY <1>4, <3>2
    <3> QED
      BY <1>1, <2>3, <2>4, <3>1, <3>3 DEF Mutated, Ops
  <2>5. Index'
    BY <1>1, <2>3, <2>4 DEF Index
  <2> QED
    BY <2>2, <2>5
<1>7. Listed' /\ Roles' /\ Goals'
  <2>1. Listed' /\ Roles'
    BY <1>1, <1>2 DEF Listed, Roles
  <2>2. Goals'
    BY <1>1, <1>2, <1>4 DEF Goals, Listed
  <2> QED
    BY <2>1, <2>2
<1>8. Bytes' /\ ConfirmedListed'
  BY <1>1, <1>2, <1>3 DEF Bytes, ConfirmedListed
<1>9. Alone' /\ Fresh' /\ Once'
  <2>1. \A q \in Creates : InFlight(q)' => InFlight(q)
    <3>1. o \in Creates => InFlight(o)
      BY DEF MoveBytes, StartRemove, InFlight, Settled
    <3> QED
      BY <1>2, <3>1 DEF InFlight
  <2>2. \A q \in Creates : Checked(q)' => Checked(q)
    <3>1. o \in Creates => pc[o] = "rename"
      BY DEF MoveBytes, StartRemove
    <3> QED
      BY <1>2, <3>1 DEF Checked
  <2> QED
    BY <1>1, <2>1, <2>2 DEF Alone, Fresh, Once
<1> QED
  BY <1>5, <1>6, <1>7, <1>8, <1>9

LEMMA RemoveBytesInv == ASSUME IInv, NEW o \in Ops, RemoveBytes(o) PROVE IInv'
<1> USE DriveAssumption DEF DriveAssumption, IInv
<1>1. UNCHANGED <<name, goal, pending, queue, renamed, disk, current, dropped, faults, crashes>>
  BY DEF RemoveBytes, indexVars, boundVars
<1>2. /\ pc[o] = "rm" /\ pc' = [pc EXCEPT ![o] = "done"] /\ pc'[o] = "done"
      /\ \A q \in Ops : q # o => pc'[q] = pc[q]
      /\ files' = files \ goal[o]
  BY DEF RemoveBytes, Goto, TypeOK
<1>3. TypeOK'
  BY <1>1, <1>2 DEF TypeOK, Settled
<1>4. o \in Removes
  BY <1>2 DEF Roles, Ops
<1>5. Queued' /\ Index' /\ Listed' /\ Roles'
  BY <1>1, <1>2, <1>4 DEF Queued, Index, Mutated, Listed, Roles, Settled
<1>6. Goals'
  BY <1>1, <1>2 DEF Goals, Settled
<1>7. Bytes' /\ ConfirmedListed'
  <2>1. goal[o] \cap current = {} /\ \A f \in goal[o] : pc[f] # "update"
    BY <1>2, <1>4 DEF Goals, Settled
  <2> QED
    BY <1>1, <1>2, <1>4, <2>1 DEF Bytes, ConfirmedListed
<1>8. Alone' /\ Fresh' /\ Once'
  BY <1>1, <1>2, <1>4 DEF Alone, InFlight, Fresh, Checked, Once
<1> QED
  BY <1>3, <1>5, <1>6, <1>7, <1>8

-----------------------------------------------------------------------------
\* The operation at the head of the queue.
LEMMA HeadOf ==
  ASSUME IInv, queue # <<>>
  PROVE  /\ Head(queue) \in Ops /\ pc[Head(queue)] = "update"
         /\ Tail(queue) \in Seq(Ops)
         /\ \A i \in 1..Len(Tail(queue)) : /\ pc[Tail(queue)[i]] = "update"
                                           /\ Tail(queue)[i] # Head(queue)
         /\ \A i, j \in 1..Len(Tail(queue)) : Tail(queue)[i] = Tail(queue)[j] => i = j
<1>1. /\ queue \in Seq(Ops) /\ Len(queue) \in Nat /\ Len(queue) > 0
      /\ Head(queue) = queue[1] /\ 1 \in 1..Len(queue) /\ Tail(queue) \in Seq(Ops)
  BY DEF IInv, TypeOK
<1>2. \A i \in 1..Len(Tail(queue)) : /\ Tail(queue)[i] = queue[i + 1]
                                     /\ i + 1 \in 1..Len(queue) /\ i + 1 # 1
  BY <1>1
<1>3. \A i, j \in 1..Len(Tail(queue)) : i + 1 = j + 1 => i = j
  OBVIOUS
<1> QED
  BY <1>1, <1>2, <1>3 DEF IInv, Queued

LEMMA RenameInv == ASSUME IInv, RenameIndex PROVE IInv'
<1> USE DriveAssumption DEF DriveAssumption, IInv
<1>1. /\ queue # <<>> /\ ~renamed /\ renamed' = TRUE /\ disk = current
      /\ disk' = Mutated(Head(queue), current) /\ dropped' = dropped \cup (current \ disk')
      /\ UNCHANGED <<pc, name, goal, pending, files, queue, current, faults, crashes>>
  BY DEF RenameIndex, byteVars, boundVars, Index
<1>2. disk' \subseteq Creates
  BY <1>1 DEF Mutated, TypeOK
<1>3. TypeOK'
  BY <1>1, <1>2 DEF TypeOK
<1>4. Queued' /\ Index' /\ Listed' /\ Roles' /\ Goals' /\ Bytes'
  BY <1>1 DEF Queued, Index, Mutated, Listed, Roles, Goals, Bytes
<1>5. ConfirmedListed'
  BY <1>1 DEF ConfirmedListed
<1>6. Alone' /\ Fresh' /\ Once'
  BY <1>1 DEF Alone, InFlight, Fresh, Checked, Once
<1> QED
  BY <1>3, <1>4, <1>5, <1>6

LEMMA FinishInv == ASSUME IInv, FinishUpdate PROVE IInv'
<1> USE DriveAssumption DEF DriveAssumption, IInv
<1> DEFINE h == Head(queue)
<1>1. /\ renamed /\ queue # <<>> /\ disk = Mutated(h, current)
      /\ renamed' = FALSE /\ current' = disk /\ queue' = Tail(queue)
      /\ UNCHANGED <<name, goal, pending, files, disk, dropped, faults, crashes>>
  BY DEF FinishUpdate, byteVars, boundVars, Index
<1>2. h \in Ops /\ pc[h] = "update"
  BY <1>1, HeadOf
<1>3. /\ pc' = [pc EXCEPT ![h] = IF h \in Creates THEN "done" ELSE "rm"]
      /\ pc'[h] = (IF h \in Creates THEN "done" ELSE "rm")
      /\ \A q \in Ops : q # h => pc'[q] = pc[q]
  BY <1>2 DEF FinishUpdate, Goto, TypeOK
<1> HIDE DEF h
<1>4. TypeOK'
  <2>1. queue' \in Seq(Ops)
    BY <1>1, HeadOf
  <2>2. pc' \in [Ops -> {"idle", "upload"} \cup Requests \cup Handling \cup Settled]
    BY <1>2, <1>3 DEF TypeOK, Handling, Settled
  <2> QED
    BY <1>1, <2>1, <2>2 DEF TypeOK
<1>5. Queued'
  BY <1>1, <1>3, HeadOf DEF Queued, h
<1>6. Index' /\ Roles'
  BY <1>1, <1>2, <1>3 DEF Index, Roles
<1>7. Listed'
  BY <1>1, <1>2, <1>3, Ahead DEF Listed, Settled, TypeOK, Ops, h
<1>8. Goals'
  <2> SUFFICES ASSUME NEW o \in Removes
               PROVE  /\ \A f \in goal[o] : pc'[f] \in Settled /\ (o \in ByName => name[f] = name[o])
                      /\ pc'[o] = "rm" => goal[o] \cap disk = {}
    BY <1>1 DEF Goals
  <2>1. \A f \in goal[o] : pc'[f] \in Settled /\ (o \in ByName => name[f] = name[o])
    BY <1>2, <1>3 DEF Goals, Settled
  <2>2. CASE o # h
    BY <1>3, <2>1, <2>2, Ahead
  <2>3. CASE o = h
    <3>1. disk = IF o \in ByName THEN {f \in current : name[f] # name[o]} ELSE current \ goal[o]
      BY <1>1, <2>3 DEF Mutated
    <3> QED
      BY <2>1, <3>1 DEF Goals
  <2> QED
    BY <2>2, <2>3
<1>9. Bytes' /\ ConfirmedListed'
  <2>1. Bytes'
    BY <1>1, <1>3, Ahead DEF Bytes
  <2>2. h \in Creates => h \in disk
    BY <1>1 DEF Mutated
  <2>3. ConfirmedListed'
    BY <1>1, <1>3, <2>2 DEF ConfirmedListed
  <2> QED
    BY <2>1, <2>3
<1>10. Alone' /\ Fresh' /\ Once'
  <2>1. Alone'
    BY <1>1, <1>2, <1>3 DEF Alone, InFlight, Settled, Ops
  <2>2. Fresh'
    <3> SUFFICES ASSUME Serial, NEW o \in Creates, Checked(o)'
                 PROVE  \A f \in disk : name[f] # name[o]
      BY <1>1 DEF Fresh
    <3>1. Checked(o) /\ o # h
      BY <1>3 DEF Checked
    <3>2. o \notin disk
      BY <3>1, Ahead DEF Checked, Listed, Settled, h
    <3> QED
      BY <3>1, <3>2, AheadOnce
  <2>3. Once'
    BY <1>1, AheadOnce DEF Once
  <2> QED
    BY <2>1, <2>2, <2>3
<1> QED
  BY <1>4, <1>5, <1>6, <1>7, <1>8, <1>9, <1>10

LEMMA FailUpdateInv == ASSUME IInv, FailUpdate PROVE IInv'
<1> USE DriveAssumption DEF DriveAssumption, IInv
<1> DEFINE h == Head(queue)
<1>1. /\ queue # <<>> /\ ~renamed /\ queue' = Tail(queue)
      /\ UNCHANGED <<name, goal, pending, files, renamed, disk, current, dropped, crashes>>
  BY DEF FailUpdate, byteVars
<1>2. h \in Ops /\ pc[h] = "update"
  BY <1>1, HeadOf
<1>3. /\ pc' = [pc EXCEPT ![h] = "failed"] /\ pc'[h] = "failed"
      /\ \A q \in Ops : q # h => pc'[q] = pc[q]
  BY <1>2 DEF FailUpdate, Goto, TypeOK
<1> HIDE DEF h
<1>4. TypeOK'
  <2>1. queue' \in Seq(Ops)
    BY <1>1, HeadOf
  <2>2. pc' \in [Ops -> {"idle", "upload"} \cup Requests \cup Handling \cup Settled]
    BY <1>2, <1>3 DEF TypeOK, Settled
  <2>3. faults' \in 0..MaxFaults
    BY DEF FailUpdate, TypeOK
  <2> QED
    BY <1>1, <2>1, <2>2, <2>3 DEF TypeOK
<1>5. Queued'
  BY <1>1, <1>3, HeadOf DEF Queued, h
<1>6. Index' /\ Roles' /\ Listed' /\ Goals' /\ Bytes' /\ ConfirmedListed'
  BY <1>1, <1>2, <1>3 DEF Index, Roles, Listed, Goals, Bytes, ConfirmedListed, Settled
<1>7. Alone' /\ Fresh' /\ Once'
  BY <1>1, <1>2, <1>3 DEF Alone, InFlight, Settled, Fresh, Checked, Once
<1> QED
  BY <1>4, <1>5, <1>6, <1>7

\* A restart adopts what is in the file, and fails what was being handled.
LEMMA RestartInv == ASSUME IInv, Restart PROVE IInv'
<1> USE DriveAssumption DEF DriveAssumption, IInv
<1>1. /\ pending' = {} /\ current' = disk /\ queue' = <<>> /\ renamed' = FALSE
      /\ UNCHANGED <<name, goal, files, disk, dropped, faults>>
  BY DEF Restart
<1>2. /\ pc' = [o \in Ops |-> IF pc[o] \in Handling THEN "failed" ELSE pc[o]]
      /\ \A o \in Ops : pc'[o] = IF pc[o] \in Handling THEN "failed" ELSE pc[o]
  BY DEF Restart
<1>3. TypeOK'
  <2>1. crashes' \in 0..MaxCrashes
    BY DEF Restart, TypeOK
  <2>2. pc' \in [Ops -> {"idle", "upload"} \cup Requests \cup Handling \cup Settled]
    BY <1>2 DEF TypeOK, Settled
  <2>3. renamed' \in BOOLEAN
    BY <1>1, Zenon
  <2>4. queue' \in Seq(Ops)
    BY <1>1
  <2> QED
    BY <1>1, <2>1, <2>2, <2>3, <2>4 DEF TypeOK
<1>4. Queued' /\ Index' /\ Roles'
  BY <1>1, <1>2 DEF Queued, Index, Roles, Ops
<1>5. Listed'
  BY <1>1, <1>2, Ahead DEF Listed, Handling, Settled, TypeOK, Ops
<1>6. Goals'
  <2>1. \A o \in Removes : pc'[o] # "rm"
    BY <1>2 DEF Handling, Ops
  <2>2. \A f \in Creates : pc[f] \in Settled => pc'[f] \in Settled
    BY <1>2 DEF Handling, Settled, Ops
  <2>3. \A o \in Removes : goal[o] \subseteq Creates
    BY DEF TypeOK
  <2> QED
    BY <1>1, <2>1, <2>2, <2>3 DEF Goals
<1>7. Bytes' /\ ConfirmedListed'
  <2>1. \A o \in Creates : pc'[o] # "update" /\ (pc'[o] = "done" => pc[o] = "done")
    BY <1>2 DEF Handling, Ops
  <2> QED
    BY <1>1, <2>1, Ahead DEF Bytes, ConfirmedListed
<1>8. Alone' /\ Fresh' /\ Once'
  <2>1. \A o \in Creates : /\ InFlight(o)' => InFlight(o)
                           /\ ~Checked(o)'
    BY <1>2 DEF InFlight, Settled, Handling, Checked, Ops
  <2>2. Once'
    BY <1>1, AheadOnce DEF Once
  <2> QED
    BY <1>1, <2>1, <2>2 DEF Alone, Fresh
<1> QED
  BY <1>3, <1>4, <1>5, <1>6, <1>7, <1>8

LEMMA StepInv == IInv /\ [Next]_vars => IInv'
<1> SUFFICES ASSUME IInv, [Next]_vars PROVE IInv'
  OBVIOUS
<1>1. CASE UNCHANGED vars
  <2>1. TypeOK' /\ Queued' /\ Index' /\ Listed' /\ Roles' /\ Goals'
    BY <1>1 DEF vars, IInv, TypeOK, Queued, Index, Mutated, Listed, Roles, Goals
  <2>2. Bytes' /\ ConfirmedListed' /\ Alone' /\ Fresh' /\ Once'
    BY <1>1 DEF vars, IInv, Bytes, ConfirmedListed, Alone, InFlight, Fresh, Checked, Once
  <2> QED
    BY <2>1, <2>2 DEF IInv
<1> QED
  BY <1>1, HandlerInv, JoinInv, RemoveBytesInv, RenameInv, FinishInv, FailUpdateInv, RestartInv
     DEF Next

LEMMA Invariant == Spec => []IInv
  BY InitInv, StepInv, PTL DEF Spec

-----------------------------------------------------------------------------
\* Every variable of the drive keeps its type, in all failures and restarts.
THEOREM DriveTypes == Spec => []TypeOK
<1>1. IInv => TypeOK
  BY DEF IInv
<1> QED
  BY <1>1, Invariant, PTL

\* What the index lists, in memory or in the file, has its bytes.
THEOREM ListedIsReadable == Spec => []ListedReadable
<1>1. IInv => ListedReadable
  BY Ahead DEF IInv, Bytes, ListedReadable
<1> QED
  BY <1>1, Invariant, PTL

\* What was confirmed is listed until a removal takes it out.
THEOREM ConfirmedIsListed == Spec => []ConfirmedListed
<1>1. IInv => ConfirmedListed
  BY DEF IInv
<1> QED
  BY <1>1, Invariant, PTL

\* If writes of one name wait for one another, no name is written twice.
THEOREM SerialWritesOnce == ASSUME Serial PROVE Spec => []WriteOnce
<1>1. IInv => WriteOnce
  BY AheadOnce DEF WriteOnce
<1> QED
  BY <1>1, Invariant, PTL
=============================================================================
