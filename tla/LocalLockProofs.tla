--------------------------- MODULE LocalLockProofs ---------------------------
(***************************************************************************)
(* Proofs about LocalLock, for any number of processes, starts and          *)
(* acquisitions: the lock excludes if no two servers acquire at once.       *)
(*                                                                          *)
(* What makes it inductive: a server that holds the lock is running, its    *)
(* record is in the file, and whoever is judging the file has read that     *)
(* very record, so it never finds it stale.                                 *)
(***************************************************************************)
EXTENDS LocalLock, TLAPS

Holding == {"held"} \cup Releasing
Judging == {"probe", "compare"}

\* The records are where the steps expect them, and a fourth attempt never begins.
RecordsKept ==
  /\ \A a \in written : a \in 1..tries /\ author[a].pid \in Pids
  /\ file \in 0..tries

OwnRecord(p) ==
  /\ acq[p] \in 0..tries
  /\ proc[p] = 0 <=> pc[p] = "off"
  /\ pc[p] \in Acquiring \cup Holding =>
       acq[p] # 0 /\ author[acq[p]] = [pid |-> p, start |-> proc[p]]
  /\ pc[p] \in Judging => seen[p] \in written
  /\ pc[p] \in Judging \cup {"unlink"} => att[p] < LOCK_ATTEMPTS

Recorded == RecordsKept /\ \A p \in Pids : OwnRecord(p)

\* At most one server acquires; a holder's and a creator's file is at the path; and
\* none that judges the file finds a holder stale.
OneAcquirer  == \A p, q \in Pids : pc[p] \in Acquiring /\ pc[q] \in Acquiring => p = q
FileInPlace  == \A p \in Pids :
                  /\ pc[p] \in Holding => file = acq[p] /\ file \in written
                  /\ pc[p] = "write" => file = acq[p]
NotFoundStale == \A p, q \in Pids :
                   pc[q] \in Holding => /\ pc[p] \in Judging => seen[p] = acq[q]
                                        /\ pc[p] # "unlink"
Excludes == OneAcquirer /\ FileInPlace /\ NotFoundStale

LockInv == TypeOK /\ Recorded

LEMMA LockInit == Init => LockInv /\ Excludes
BY LockAssumption
DEF Init, LockInv, TypeOK, Recorded, RecordsKept, OwnRecord, Excludes, OneAcquirer, FileInPlace, NotFoundStale,
    LOCK_ATTEMPTS, Tries, Acquiring, Releasing, Holding, Judging

\* An attempt that unlinks is the first or the second; an acquisition has its record;
\* numbers not yet given name nothing.
LEMMA AttemptsLeft ==
  ASSUME LockInv, NEW p \in Pids, pc[p] = "unlink" PROVE att[p] \in 1..2
<1>1. att[p] < 3 /\ att[p] \in 1..3
      BY DEF LockInv, TypeOK, Recorded, OwnRecord, LOCK_ATTEMPTS
<1> QED
    BY <1>1

LEMMA RecordKnown ==
  ASSUME LockInv, NEW p \in Pids, pc[p] \in Acquiring \cup Holding
  PROVE  acq[p] \in 1..tries /\ acq[p] \in Tries /\ author[acq[p]] = [pid |-> p, start |-> proc[p]]
<1>1. acq[p] \in 0..tries /\ acq[p] # 0 /\ author[acq[p]] = [pid |-> p, start |-> proc[p]]
      BY DEF LockInv, Recorded, OwnRecord
<1>2. acq[p] \in Tries \cup {0}
      BY DEF LockInv, TypeOK
<1>3. tries \in Nat
      BY LockAssumption DEF LockInv, TypeOK
<1> QED
    BY <1>1, <1>2, <1>3

LEMMA NextNumberFree ==
  ASSUME LockInv, tries < MaxTries
  PROVE  /\ tries + 1 \in Tries /\ tries + 1 # file /\ tries + 1 \notin written
         /\ \A q \in Pids : acq[q] # tries + 1
<1>1. tries \in Nat
      BY LockAssumption DEF LockInv, TypeOK
<1>2. file \in 0..tries /\ \A a \in written : a \in 1..tries
      BY DEF LockInv, Recorded, RecordsKept
<1>3. \A q \in Pids : acq[q] \in 0..tries
      BY DEF LockInv, Recorded, OwnRecord
<1> QED
    BY <1>1, <1>2, <1>3, LockAssumption DEF Tries

\* Types and records are kept by every step, however acquisitions overlap.
LEMMA LockStep == LockInv /\ [Next]_vars => LockInv'
<1> SUFFICES ASSUME LockInv, [Next]_vars PROVE LockInv'
    OBVIOUS
<1>0. ASSUME NEW p \in Pids, pc[p] \in {"open", "write"}
      PROVE  acq[p] \in 1..tries /\ acq[p] \in Tries /\ author[acq[p]].pid = p
  <2>1. pc[p] \in Acquiring \cup Holding
        BY <1>0 DEF Acquiring
  <2>2. acq[p] \in 1..tries /\ acq[p] \in Tries /\ author[acq[p]] = [pid |-> p, start |-> proc[p]]
        BY <2>1, RecordKnown
  <2> QED
      BY <2>2
<1>a. ASSUME NEW p \in Pids, EndProcess(p)
      PROVE  /\ pc[p] # "off"
             /\ proc' = [proc EXCEPT ![p] = 0]
             /\ pc' = [pc EXCEPT ![p] = "off"]
             /\ saving' \subseteq Tries
             /\ UNCHANGED <<starts, att, acq, seen, tries, author, file, written>>
      BY <1>a DEF EndProcess, Goto, LockInv, TypeOK
<1> USE LockAssumption DEF LockInv, TypeOK, Recorded, RecordsKept, OwnRecord, LOCK_ATTEMPTS, Tries,
        Acquiring, Releasing, Holding, Judging, Goto
<1>1. ASSUME NEW p \in Pids, StartProcess(p) PROVE LockInv'
      BY <1>1 DEF StartProcess
<1>2. ASSUME NEW p \in Pids, EndProcess(p) PROVE LockInv'
  <2>1. /\ pc[p] # "off" /\ proc' = [proc EXCEPT ![p] = 0] /\ pc' = [pc EXCEPT ![p] = "off"]
        /\ saving' \subseteq Tries
        /\ UNCHANGED <<starts, att, acq, seen, tries, author, file, written>>
        BY <1>2, <1>a
  <2>2. TypeOK'
        BY <2>1
  <2>3. Recorded'
        BY <2>1
  <2> QED
      BY <2>2, <2>3
<1>3. ASSUME NEW p \in Pids, BeginAcquire(p) PROVE LockInv'
  <2>1. /\ tries + 1 \in Tries /\ tries + 1 \notin written /\ tries' = tries + 1
        /\ \A q \in Pids : acq[q] # tries + 1
        BY <1>3, NextNumberFree DEF BeginAcquire
  <2>2. TypeOK'
        BY <1>3, <2>1 DEF BeginAcquire
  <2>3. \A a \in written' : a \in 1..tries' /\ author'[a].pid \in Pids
        BY <1>3, <2>1 DEF BeginAcquire
  <2>4. \A q \in Pids :
          /\ acq'[q] \in 0..tries'
          /\ pc'[q] \in Acquiring \cup Holding =>
               acq'[q] # 0 /\ author'[acq'[q]] = [pid |-> q, start |-> proc'[q]]
    <3> SUFFICES ASSUME NEW q \in Pids
                 PROVE  /\ acq'[q] \in 0..tries'
                        /\ pc'[q] \in Acquiring \cup Holding =>
                             acq'[q] # 0 /\ author'[acq'[q]] = [pid |-> q, start |-> proc'[q]]
        OBVIOUS
    <3>1. CASE q = p
          BY <1>3, <2>1, <3>1 DEF BeginAcquire
    <3>2. CASE q # p
          BY <1>3, <2>1, <3>2 DEF BeginAcquire
    <3> QED
        BY <3>1, <3>2
  <2>5. \A q \in Pids : (proc'[q] = 0 <=> pc'[q] = "off")
        BY <1>3, <2>1 DEF BeginAcquire
  <2>6. \A q \in Pids : /\ pc'[q] \in Judging => seen'[q] \in written'
                        /\ pc'[q] \in Judging \cup {"unlink"} => att'[q] < LOCK_ATTEMPTS
        BY <1>3, <2>1 DEF BeginAcquire
  <2>7. file' \in 0..tries'
    <3>1. file' = file /\ tries' = tries + 1 /\ tries \in Nat /\ file \in 0..tries
          BY <1>3 DEF BeginAcquire
    <3> QED
        BY <3>1
  <2> HIDE DEF TypeOK, LOCK_ATTEMPTS, Tries, Acquiring, Releasing, Holding, Judging, Goto
  <2> QED
      BY <2>2, <2>3, <2>4, <2>5, <2>6, <2>7
<1>4. ASSUME NEW p \in Pids, OpenExclusive(p) PROVE LockInv'
  <2>1. CASE file = 0
    <3>1. acq[p] \in 1..tries
          BY <1>4, <1>0 DEF OpenExclusive
    <3>2. /\ file' = acq[p] /\ pc' = [pc EXCEPT ![p] = "write"] /\ pc[p] = "open"
          /\ UNCHANGED <<starts, proc, att, acq, seen, saving, tries, author, written>>
          BY <1>4, <2>1 DEF OpenExclusive
    <3>3. file' \in Tries \cup {0} /\ file' \in 0..tries'
          BY <3>1, <3>2, <1>0
    <3>4. TypeOK' /\ RecordsKept'
          BY <3>2, <3>3
    <3>5. \A q \in Pids : OwnRecord(q)'
          BY <3>2
    <3> QED
        BY <3>4, <3>5
  <2>2. CASE file # 0
        BY <1>4, <2>2 DEF OpenExclusive
  <2> QED
      BY <2>1, <2>2
<1>5. ASSUME NEW p \in Pids, ReadOwner(p) PROVE LockInv'
  <2>1. OwnerRead \in written \cup {0}
        BY DEF OwnerRead
  <2>2. /\ pc[p] = "read" /\ seen' = [seen EXCEPT ![p] = OwnerRead]
        /\ UNCHANGED <<starts, proc, att, acq, saving, tries, author, file, written>>
        /\ pc' = [pc EXCEPT ![p] = IF att[p] = LOCK_ATTEMPTS THEN "refused"
                                   ELSE IF OwnerRead = 0 THEN "unlink"
                                   ELSE IF author[OwnerRead].pid = p THEN "unlink" ELSE "probe"]
        BY <1>5 DEF ReadOwner
  <2>3. TypeOK'
        BY <2>1, <2>2
  <2> HIDE DEF TypeOK
  <2>4. RecordsKept'
        BY <2>2
  <2>5. ASSUME NEW q \in Pids PROVE OwnRecord(q)'
    <3>1. att[q] \in 1..3
          BY DEF TypeOK
    <3> QED
        BY <2>1, <2>2, <2>3, <3>1 DEF TypeOK
  <2> QED
      BY <2>3, <2>4, <2>5
<1>6. ASSUME NEW p \in Pids, ProbeOwner(p) PROVE LockInv'
      BY <1>6 DEF ProbeOwner
<1>7. ASSUME NEW p \in Pids, CompareStart(p) PROVE LockInv'
      BY <1>7 DEF CompareStart
<1>8. ASSUME NEW p \in Pids, UnlinkStale(p) PROVE LockInv'
  <2>1. att[p] \in 1..2
        BY <1>8, AttemptsLeft DEF UnlinkStale
  <2> QED
      BY <1>8, <2>1 DEF UnlinkStale
<1>9. ASSUME NEW p \in Pids, WriteOwner(p) PROVE LockInv'
  <2>1. acq[p] \in 1..tries /\ author[acq[p]].pid \in Pids
        BY <1>9, <1>0 DEF WriteOwner
  <2> QED
      BY <1>9, <2>1 DEF WriteOwner
<1>10. ASSUME NEW p \in Pids, BeginSave(p) \/ EndSave(p) PROVE LockInv'
      BY <1>10 DEF BeginSave, EndSave
<1>11. ASSUME NEW p \in Pids, Release(p) PROVE LockInv'
      BY <1>11 DEF Release
<1>12. ASSUME NEW p \in Pids, CheckOwn(p) PROVE LockInv'
      BY <1>12 DEF CheckOwn, OwnerRead
<1>13. ASSUME NEW p \in Pids, UnlinkOwn(p) PROVE LockInv'
      BY <1>13 DEF UnlinkOwn
<1>14. CASE UNCHANGED vars
      BY <1>14 DEF vars
<1> QED
    BY <1>1, <1>2, <1>3, <1>4, <1>5, <1>6, <1>7, <1>8, <1>9, <1>10, <1>11, <1>12, <1>13, <1>14
    DEF Next, AcquireStep

\* A process that judges while another one holds finds it running, as recorded.
LEMMA HolderNeverStale ==
  ASSUME LockInv, Excludes, NEW p \in Pids, NEW q \in Pids, pc[q] \in Holding
  PROVE  /\ pc[p] = "read" => OwnerRead = acq[q] /\ author[acq[q]].pid # p
         /\ pc[p] = "probe" => proc[author[seen[p]].pid] # 0
         /\ pc[p] = "compare" => ~StartDiffers(author[seen[p]])
<1> USE LockAssumption DEF LockInv, Recorded, RecordsKept, OwnRecord, Excludes, FileInPlace, NotFoundStale, Acquiring, Releasing, Holding, Judging
<1>1. author[acq[q]] = [pid |-> q, start |-> proc[q]] /\ proc[q] # 0
      OBVIOUS
<1>2. pc[p] = "read" => OwnerRead = acq[q] /\ author[acq[q]].pid # p
      BY <1>1 DEF OwnerRead
<1>3. pc[p] \in Judging => seen[p] = acq[q]
      OBVIOUS
<1> QED
    BY <1>1, <1>2, <1>3 DEF StartDiffers

\* Two processes that acquire or hold have acquisitions of their own.
LEMMA OwnAcquisition ==
  ASSUME LockInv, NEW p \in Pids, NEW q \in Pids, acq[p] = acq[q],
         pc[p] \in Acquiring \cup Holding, pc[q] \in Acquiring \cup Holding
  PROVE  p = q
<1>1. author[acq[p]] = [pid |-> p, start |-> proc[p]] /\ author[acq[q]] = [pid |-> q, start |-> proc[q]]
      BY DEF LockInv, Recorded, OwnRecord
<1> QED
    BY <1>1

LEMMA ExcludesStep ==
  ASSUME ~Overlap PROVE LockInv /\ Excludes /\ [Next]_vars => Excludes'
<1> SUFFICES ASSUME LockInv, Excludes, [Next]_vars PROVE Excludes'
    OBVIOUS
<1> USE LockAssumption DEF LockInv, TypeOK, Recorded, RecordsKept, OwnRecord, Excludes, OneAcquirer,
        FileInPlace, NotFoundStale,
        Acquiring, Releasing, Holding, Judging, Goto
<1>1. ASSUME NEW p \in Pids, StartProcess(p) PROVE Excludes'
      BY <1>1 DEF StartProcess
<1>2. ASSUME NEW p \in Pids, EndProcess(p) PROVE Excludes'
      BY <1>2 DEF EndProcess
<1>3. ASSUME NEW p \in Pids, BeginAcquire(p) PROVE Excludes'
      BY <1>3 DEF BeginAcquire
<1>4. ASSUME NEW p \in Pids, OpenExclusive(p) PROVE Excludes'
  <2>1. CASE file = 0
    <3>1. \A q \in Pids : pc[q] \notin Holding
          BY <2>1
    <3> QED
        BY <1>4, <2>1, <3>1 DEF OpenExclusive
  <2>2. CASE file # 0
        BY <1>4, <2>2 DEF OpenExclusive
  <2> QED
      BY <2>1, <2>2
<1>5. ASSUME NEW p \in Pids, ReadOwner(p) PROVE Excludes'
  <2>1. \A q \in Pids : pc[q] \in Holding => OwnerRead = acq[q] /\ author[acq[q]].pid # p
        BY <1>5, HolderNeverStale DEF ReadOwner
  <2> QED
      BY <1>5, <2>1 DEF ReadOwner
<1>6. ASSUME NEW p \in Pids, ProbeOwner(p) PROVE Excludes'
  <2>1. \A q \in Pids : pc[q] \in Holding => proc[author[seen[p]].pid] # 0
        BY <1>6, HolderNeverStale DEF ProbeOwner
  <2> QED
      BY <1>6, <2>1 DEF ProbeOwner
<1>7. ASSUME NEW p \in Pids, CompareStart(p) PROVE Excludes'
  <2>1. \A q \in Pids : pc[q] \in Holding => ~StartDiffers(author[seen[p]])
        BY <1>7, HolderNeverStale DEF CompareStart
  <2> QED
      BY <1>7, <2>1 DEF CompareStart
<1>8. ASSUME NEW p \in Pids, UnlinkStale(p) PROVE Excludes'
      BY <1>8 DEF UnlinkStale
<1>9. ASSUME NEW p \in Pids, WriteOwner(p) PROVE Excludes'
      BY <1>9 DEF WriteOwner
<1>10. ASSUME NEW p \in Pids, BeginSave(p) \/ EndSave(p) PROVE Excludes'
      BY <1>10 DEF BeginSave, EndSave
<1>11. ASSUME NEW p \in Pids, Release(p) PROVE Excludes'
      BY <1>11 DEF Release
<1>12. ASSUME NEW p \in Pids, CheckOwn(p) PROVE Excludes'
      BY <1>12 DEF CheckOwn
<1>13. ASSUME NEW p \in Pids, UnlinkOwn(p) PROVE Excludes'
  <2>1. \A q \in Pids : q # p => pc[q] \notin Holding \cup {"write"}
        BY <1>13, OwnAcquisition DEF UnlinkOwn
  <2> QED
      BY <1>13, <2>1 DEF UnlinkOwn
<1>14. CASE UNCHANGED vars
      BY <1>14 DEF vars
<1> QED
    BY <1>1, <1>2, <1>3, <1>4, <1>5, <1>6, <1>7, <1>8, <1>9, <1>10, <1>11, <1>12, <1>13, <1>14
    DEF Next, AcquireStep

\* Every variable of the lock keeps its type; no server tries a fourth time.
THEOREM LockTypes == Spec => []TypeOK
<1>1. LockInv => TypeOK
      BY DEF LockInv
<1> QED
    BY <1>1, LockInit, LockStep, PTL DEF Spec

LEMMA ExcludesAlways ==
  ASSUME ~Overlap PROVE Spec => [](LockInv /\ Excludes)
BY LockInit, LockStep, ExcludesStep, PTL DEF Spec

\* Never two servers hold the data directory, if no two acquire at once
\* (acquireLocalLock, local-data.ts 142-202).
THEOREM LockExcludes ==
  ASSUME ~Overlap PROVE Spec => []MutualExclusion
<1>1. LockInv /\ Excludes => MutualExclusion
      BY OwnAcquisition DEF Excludes, FileInPlace, MutualExclusion, Holding
<1> QED
    BY <1>1, ExcludesAlways, PTL

\* The lock of a running server stays at its path until that server removes it.
THEOREM LockNamesHolder ==
  ASSUME ~Overlap PROVE Spec => []HolderNamed
<1>1. LockInv /\ Excludes => HolderNamed
      BY DEF Excludes, FileInPlace, HolderNamed, OwnerRead, Holding, Releasing
<1> QED
    BY <1>1, ExcludesAlways, PTL
==============================================================================
