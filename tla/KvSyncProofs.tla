---------------------------- MODULE KvSyncProofs ----------------------------
(***************************************************************************)
(* Theorems about KvSync, for any clients, keys and policies and any       *)
(* number of mutations, requests, crashes and faults.                      *)
(*                                                                         *)
(* The file is the value in memory or, once renamed, that value after one  *)
(* more push (JobInv); a push under way, late copies included, leaves no   *)
(* gap behind what was taken (RequestsInv).  A client confirms what the    *)
(* version it has heard of had taken (KnownInv), and so would it after the *)
(* answer under way (AnswerInv).  The log of KvLog is read off the file,   *)
(* not off memory, so that a crash between the two is a stutter.           *)
(*                                                                         *)
(* Freshness, for a viewer who sees all keys: a client shows the contents  *)
(* of the version it has heard of (ShownInv), and with no pull wanted and  *)
(* no poke unread that version is the current one (HeardInv).              *)
(***************************************************************************)
EXTENDS KvSync, FiniteSetTheorems, WellFoundedInduction, TLAPS

\* Store new is old after it has taken c's mutations up to hi, of those in m.
Taken(m, c, hi, old, new) ==
  /\ hi \in (old.clients[c] + 1)..Len(m[c])
  /\ \A i \in (old.clients[c] + 1)..hi : m[c][i].key \in Writable
  /\ new.entries = Log!Applied(old.entries, m, c, old.clients[c], hi)
  /\ new.clients = [old.clients EXCEPT ![c] = hi]
  /\ new.version > old.version
  /\ new.clientVersions = [old.clientVersions EXCEPT ![c] = new.version]

Updates(m, old, new) == new = old \/ \E c \in Clients, hi \in Ids : Taken(m, c, hi, old, new)

\* The update under way: the file is the value in memory or, once renamed, the next.
JobInv ==
  /\ job \in {"idle", "writing"} => disk = current
  /\ job = "renamed" => disk = next
  /\ job # "idle" => Updates(made, current, next) /\ queue # <<>>

\* Request r leaves no gap after what store d has taken and names mutations made.
Sound(m, d, r) == r.lo <= d.clients[r.by] + 1 /\ r.hi <= Len(m[r.by])

RequestsInv ==
  /\ \A r \in wire : Sound(made, current, r)
  /\ \A i \in DOMAIN queue : Sound(made, current, queue[i])

\* What c may take for confirmed by store d once it has heard of version ck.
Knows(d, c, ck, n) ==
  /\ ck <= d.version
  /\ n <= d.clients[c]
  /\ ck >= d.clientVersions[c] => n = d.clients[c]

KnownInv == \A c \in Clients : Knows(current, c, cookie[c], confirmed[c])

\* The same of an answer, once it is taken.
Confirms(n, c) == IF n > 0 THEN n ELSE confirmed[c]
AnswerInv ==
  \A c \in Clients :
    pull[c].st = "answered" =>
      LET got == pull[c].ans IN
      /\ got.cookie >= cookie[c]
      /\ Confirms(got.lastId, c) >= confirmed[c]
      /\ Knows(current, c, got.cookie, Confirms(got.lastId, c))

VersionInv == \A c \in Clients : current.clientVersions[c] <= current.version

IInv == TypeOK /\ JobInv /\ RequestsInv /\ KnownInv /\ AnswerInv /\ VersionInv

\* A client that has heard of store d's version shows its contents.
Shows(d, ck, b) == ck = d.version => b = d.entries
ShownInv ==
  \A c \in Clients :
    /\ Shows(current, cookie[c], base[c])
    /\ pull[c].st = "answered" =>
         Shows(current, pull[c].ans.cookie,
               IF pull[c].ans.patch THEN pull[c].ans.entries ELSE base[c])

\* A client with nothing to hear or to ask is at the current version, or about to be.
HeardInv ==
  \A c \in Clients :
    open[c] /\ ~poked[c] /\ ~wantPull[c] =>
      /\ pull[c].st = "none" => cookie[c] = current.version
      /\ pull[c].st = "answered" => pull[c].ans.cookie = current.version

SeesAll == Hidden = {} \/ member
FreshInv == SeesAll /\ ShownInv /\ HeardInv
-----------------------------------------------------------------------------
(* The operators of the store.                                             *)

\* A nonempty set of positions has a last one, which Max finds.
LEMMA MaxOfPositions ==
  ASSUME NEW hi \in Nat, NEW S \in SUBSET (0..hi), S # {}
  PROVE  Log!Max(S) \in S /\ \A i \in S : Log!Max(S) >= i
<1> DEFINE T == {i..hi : i \in S}
<1>1. T \subseteq FiniteSubsetsOf(0..hi) /\ T # {}
  <2>1. \A i \in S : i..hi \subseteq 0..hi /\ IsFiniteSet(i..hi)
    BY FS_Interval
  <2> QED
    BY <2>1 DEF FiniteSubsetsOf
<1>2. PICK x \in T : \A y \in T : ~(<<y, x>> \in StrictSubsetOrdering(0..hi))
  <2>1. IsFiniteSet(0..hi)
    BY FS_Interval
  <2>2. IsWellFoundedOn(StrictSubsetOrdering(0..hi), FiniteSubsetsOf(0..hi))
    BY <2>1, FS_StrictSubsetOrderingWellFounded
  <2> QED
    BY <1>1, <2>2, WFMin
<1>3. PICK m \in S : x = m..hi
  OBVIOUS
<1>4. ASSUME NEW i \in S, i > m
      PROVE  FALSE
  <2>1. i..hi \in T /\ i..hi \subseteq m..hi /\ m..hi \subseteq 0..hi
    BY <1>4
  <2>2. m \in m..hi /\ m \notin i..hi
    BY <1>4
  <2>3. <<i..hi, x>> \in StrictSubsetOrdering(0..hi)
    BY <1>3, <2>1, <2>2 DEF StrictSubsetOrdering
  <2> QED
    BY <1>2, <2>1, <2>3
<1>5. \A i \in S : m >= i
  BY <1>4
<1> QED
  BY <1>5 DEF Log!Max

\* Taking mutations leaves entries where there were some, and sets others.
LEMMA AppliedType ==
  ASSUME TypeOK, NEW c \in Clients, NEW e \in Content, NEW lo \in Ids, NEW hi \in Ids
  PROVE  Log!Applied(e, made, c, lo, hi) \in Content
<1> SUFFICES ASSUME NEW k \in Keys
             PROVE  Log!Applied(e, made, c, lo, hi)[k] \in Entry \cup {NoEntry}
  BY DEF Content, Log!Applied
<1> DEFINE touch == {i \in (lo + 1)..hi : made[c][i].key = k}
<1>1. CASE touch = {}
  BY <1>1 DEF Log!Applied, Content
<1>2. CASE touch # {}
  <2>1. hi \in Nat /\ touch \in SUBSET (0..hi)
    BY KvAssumption DEF Ids
  <2>2. Log!Max(touch) \in touch
    BY <1>2, <2>1, MaxOfPositions
  <2>3. Log!Max(touch) \in Ids
    BY <2>2, KvAssumption DEF Ids
  <2> QED
    BY <1>2, <2>3 DEF Log!Applied, Entry
<1> QED
  BY <1>1, <1>2

\* The mutations after lo up to hi: how many there are.
LEMMA CountNew ==
  ASSUME NEW lo \in Nat, NEW hi \in Nat
  PROVE  /\ Cardinality((lo + 1)..hi) \in Nat
         /\ (lo + 1)..hi # {} => lo + 1 <= hi /\ Cardinality((lo + 1)..hi) > 0
<1>1. Cardinality((lo + 1)..hi) = IF lo + 1 > hi THEN 0 ELSE hi - (lo + 1) + 1
  BY FS_Interval
<1> QED
  BY <1>1

\* What the push mutator makes of the store, if it takes anything.
LEMMA PushedType ==
  ASSUME TypeOK, NEW r \in Request, NEW d \in KvData
  PROVE  Pushed(r, d) \in KvData
<1> DEFINE lo == d.clients[r.by]
           hi == r.hi
<1>1. r.by \in Clients /\ hi \in Ids /\ lo \in Ids /\ Ids \subseteq Nat
  BY KvAssumption DEF Request, KvData, Ids
<1>2. New(r, d) = (lo + 1)..hi
  BY DEF New
<1>3. Cardinality(New(r, d)) \in Nat
  <2> HIDE DEF lo, hi
  <2> QED
    BY <1>1, <1>2, CountNew
<1>4. Log!Applied(d.entries, made, r.by, lo, hi) \in Content
  BY <1>1, AppliedType DEF KvData
<1> QED
  BY <1>1, <1>3, <1>4 DEF Pushed, KvData

\* It takes the request's new mutations or nothing.
LEMMA PushedUpdates ==
  ASSUME TypeOK, NEW r \in Request, Sound(made, current, r), ~Refused(r, current)
  PROVE  Updates(made, current, Pushed(r, current))
<1> DEFINE c == r.by
           lo == current.clients[c]
           hi == r.hi
           n == Cardinality(New(r, current))
<1>1. /\ c \in Clients /\ hi \in Ids /\ hi \in Nat /\ lo \in Nat
      /\ current.version \in Nat /\ Len(made[c]) \in Nat
  BY KvAssumption DEF Request, KvData, Ids, TypeOK
<1>2. New(r, current) = (lo + 1)..hi /\ hi <= Len(made[c])
  BY DEF New, Sound
<1>3. CASE New(r, current) = {}
  BY <1>3 DEF Pushed, Updates
<1>4. CASE New(r, current) # {}
  <2>1. hi \in (lo + 1)..Len(made[c]) /\ n \in Nat /\ n > 0
    <3> HIDE DEF lo, hi
    <3> QED
      BY <1>1, <1>2, <1>4, CountNew
  <2>2. \A i \in (lo + 1)..hi : made[c][i].key \in Writable
    BY <1>2 DEF Refused
  <2>3. /\ Pushed(r, current).version = current.version + n
        /\ Pushed(r, current).entries = Log!Applied(current.entries, made, c, lo, hi)
        /\ Pushed(r, current).clients = [current.clients EXCEPT ![c] = hi]
        /\ Pushed(r, current).clientVersions =
             [current.clientVersions EXCEPT ![c] = current.version + n]
    BY <1>4 DEF Pushed
  <2>4. Pushed(r, current).version > current.version
    BY <1>1, <2>1, <2>3
  <2>5. Taken(made, c, hi, current, Pushed(r, current))
    BY <2>1, <2>2, <2>3, <2>4 DEF Taken
  <2> QED
    BY <1>1, <2>5 DEF Updates
<1> QED
  BY <1>3, <1>4

-----------------------------------------------------------------------------
(* Types.                                                                  *)

\* The first of a queue taken off.
LEMMA FirstTaken ==
  ASSUME TypeOK, queue # <<>>
  PROVE  /\ Head(queue) \in Request /\ Head(queue) = queue[1] /\ 1 \in DOMAIN queue
         /\ Tail(queue) \in Seq(Request)
         /\ \A i \in DOMAIN Tail(queue) : i + 1 \in DOMAIN queue /\ Tail(queue)[i] = queue[i + 1]
BY DEF TypeOK

LEMMA InitTypes == Init => TypeOK
<1> SUFFICES ASSUME Init PROVE TypeOK
  OBVIOUS
<1>1. 0 \in Ids /\ 0 \in 0..MaxCrashes /\ 0 \in 0..MaxFaults /\ MemberAtStart \in BOOLEAN
  BY KvAssumption DEF Ids
<1>2. Empty \in Content /\ NoAnswer \in Answer
  BY <1>1 DEF Empty, Content, NoAnswer, Answer
<1>3. EmptyKv \in KvData
  BY <1>1, <1>2 DEF EmptyKv, KvData
<1>4. \A c \in Clients : made[c] = <<>>
  BY DEF Init
<1>5. \A c \in Clients : Len(made[c]) <= MaxMutations
  BY <1>4, KvAssumption
<1>6. made \in [Clients -> Seq([key : Keys, op : {"set", "del"}])]
  BY DEF Init
<1> QED
  BY <1>1, <1>2, <1>3, <1>5, <1>6 DEF Init, TypeOK, NoPull

LEMMA ClientTypes ==
  ASSUME TypeOK, NEW c \in Clients,
         SendPush(c) \/ LosePush(c) \/ SendPull(c) \/ LosePull(c) \/ TakePull(c)
           \/ OpenStream(c) \/ OnPoke(c) \/ DropStream(c) \/ AnswerPull(c)
  PROVE  TypeOK'
<1> USE KvAssumption DEF TypeOK, clientVars, streamVars, storeVars, boundVars
<1>1. NoPull \in [st : {"none", "asked", "answered"}, ans : Answer]
  BY DEF NoPull, NoAnswer, Answer, Content, Ids
<1>2. CASE SendPush(c)
  <2>1. confirmed[c] + 1 \in Ids /\ Len(made[c]) \in Ids
    BY <1>2 DEF SendPush, Ids
  <2>2. wire' \subseteq Request
    BY <1>2, <2>1 DEF SendPush, Request
  <2>3. pushing' \in [Clients -> BOOLEAN]
    BY <1>2 DEF SendPush
  <2> QED
    BY <1>2, <2>2, <2>3 DEF SendPush
<1>3. CASE LosePush(c)
  <2>1. wire' \subseteq Request /\ faults' \in 0..MaxFaults
    BY <1>3 DEF LosePush
  <2>2. pushing' \in [Clients -> BOOLEAN]
    BY <1>3 DEF LosePush
  <2> QED
    BY <1>3, <2>1, <2>2 DEF LosePush
<1>4. CASE SendPull(c)
  BY <1>4 DEF SendPull
<1>5. CASE LosePull(c)
  <2>1. faults' \in 0..MaxFaults /\ pull' \in [Clients -> [st : {"none", "asked", "answered"}, ans : Answer]]
    BY <1>1, <1>5 DEF LosePull
  <2>2. wantPull' \in [Clients -> BOOLEAN]
    BY <1>5 DEF LosePull
  <2> QED
    BY <1>5, <2>1, <2>2 DEF LosePull
<1>6. CASE TakePull(c)
  <2>1. pull[c].ans \in Answer
    OBVIOUS
  <2> QED
    BY <1>1, <1>6, <2>1 DEF TakePull, Answer
<1>7. CASE OpenStream(c) \/ OnPoke(c) \/ DropStream(c)
  <2>1. open' \in [Clients -> BOOLEAN]
    BY <1>7 DEF OpenStream, OnPoke, DropStream
  <2>2. poked' \in [Clients -> BOOLEAN]
    BY <1>7 DEF OpenStream, OnPoke, DropStream
  <2>3. wantPull' \in [Clients -> BOOLEAN]
    BY <1>7 DEF OpenStream, OnPoke, DropStream
  <2>4. faults' \in 0..MaxFaults
    BY <1>7 DEF OpenStream, OnPoke, DropStream
  <2> QED
    BY <1>7, <2>1, <2>2, <2>3, <2>4 DEF OpenStream, OnPoke, DropStream
<1>8. CASE AnswerPull(c)
  <2>1. current.version \in Nat /\ current.clients[c] \in Ids /\ current.entries \in Content
    BY DEF KvData
  <2>2. Visible(current.entries) \in Content /\ Empty \in Content /\ 0 \in Ids
    BY <2>1 DEF Visible, Empty, Content, Ids
  <2> DEFINE ans ==
        [cookie  |-> current.version,
         lastId  |-> IF current.clientVersions[c] > cookie[c] THEN current.clients[c] ELSE 0,
         patch   |-> cookie[c] # current.version,
         entries |-> IF cookie[c] # current.version THEN Visible(current.entries) ELSE Empty]
  <2>3. ans \in Answer
    BY <2>1, <2>2 DEF Answer
  <2>4. pull' = [pull EXCEPT ![c] = [st |-> "answered", ans |-> ans]]
    BY <1>8 DEF AnswerPull
  <2> HIDE DEF ans
  <2>5. pull' \in [Clients -> [st : {"none", "asked", "answered"}, ans : Answer]]
    BY <2>3, <2>4
  <2> QED
    BY <1>8, <2>5 DEF AnswerPull
<1> QED
  BY <1>2, <1>3, <1>4, <1>5, <1>6, <1>7, <1>8

LEMMA MutateTypes ==
  ASSUME TypeOK, NEW c \in Clients, Mutate(c)
  PROVE  TypeOK'
<1>1. PICK k \in Keys, op \in {"set", "del"} :
         made' = [made EXCEPT ![c] = Append(@, [key |-> k, op |-> op])]
  BY DEF Mutate
<1> DEFINE m == [key |-> k, op |-> op]
<1>2. m \in [key : Keys, op : {"set", "del"}] /\ made[c] \in Seq([key : Keys, op : {"set", "del"}])
  BY DEF TypeOK
<1> HIDE DEF m
<1>3. Append(made[c], m) \in Seq([key : Keys, op : {"set", "del"}])
  BY <1>2
<1>4. Len(Append(made[c], m)) <= MaxMutations
  BY <1>2, KvAssumption DEF Mutate
<1>5. made' = [made EXCEPT ![c] = Append(made[c], m)]
  BY <1>1 DEF m
<1>6. /\ made' \in [Clients -> Seq([key : Keys, op : {"set", "del"}])]
      /\ \A d \in Clients : Len(made'[d]) <= MaxMutations
  BY <1>3, <1>4, <1>5 DEF TypeOK
<1> QED
  BY <1>6 DEF TypeOK, Mutate, streamVars, storeVars, boundVars

LEMMA ServerTypes ==
  ASSUME TypeOK, job # "idle" => queue # <<>>,
         ReceivePush \/ DenyPush \/ BeginUpdate \/ FailUpdate \/ RenameFile \/ FinishUpdate
           \/ SignIn \/ CrashRestart \/ UNCHANGED vars
  PROVE  TypeOK'
<1> USE KvAssumption DEF TypeOK, clientVars, streamVars, storeVars, boundVars
<1>1. CASE ReceivePush
  <2>1. PICK r \in wire : wire' = wire \ {r} /\ queue' = Append(queue, r)
    BY <1>1 DEF ReceivePush
  <2>2. Append(queue, r) \in Seq(Request)
    OBVIOUS
  <2> QED
    BY <1>1, <2>1, <2>2 DEF ReceivePush
<1>2. CASE DenyPush
  BY <1>2 DEF DenyPush
<1>3. CASE BeginUpdate
  BY <1>3, FirstTaken, PushedType DEF BeginUpdate
<1>4. CASE FailUpdate
  <2>1. faults' \in 0..MaxFaults /\ next' \in KvData /\ job' = "idle"
    BY <1>4 DEF FailUpdate
  <2>2. pushing' \in [Clients -> BOOLEAN]
    BY <1>4 DEF FailUpdate
  <2>3. queue' \in Seq(Request)
    BY <1>4, FirstTaken DEF FailUpdate
  <2> QED
    BY <1>4, <2>1, <2>2, <2>3 DEF FailUpdate
<1>5. CASE RenameFile
  BY <1>5 DEF RenameFile
<1>6. CASE FinishUpdate
  BY <1>6, FirstTaken DEF FinishUpdate
<1>7. CASE SignIn
  BY <1>7 DEF SignIn
<1>8. CASE CrashRestart
  <2>1. NoPull \in [st : {"none", "asked", "answered"}, ans : Answer]
    BY DEF NoPull, NoAnswer, Answer, Content, Ids
  <2>2. <<>> \in Seq(Request)
    OBVIOUS
  <2>3. pull' \in [Clients -> [st : {"none", "asked", "answered"}, ans : Answer]]
    BY <1>8, <2>1 DEF CrashRestart
  <2>4. wantPull' \in [Clients -> BOOLEAN]
    BY <1>8 DEF CrashRestart
  <2>5. crashes' \in 0..MaxCrashes /\ wire' \subseteq Request
    BY <1>8 DEF CrashRestart
  <2>6. /\ open' \in [Clients -> BOOLEAN]
        /\ poked' \in [Clients -> BOOLEAN]
        /\ pushing' \in [Clients -> BOOLEAN]
    BY <1>8 DEF CrashRestart
  <2> QED
    BY <1>8, <2>2, <2>3, <2>4, <2>5, <2>6 DEF CrashRestart
<1>9. CASE UNCHANGED vars
  BY <1>9 DEF vars
<1> QED
  BY <1>1, <1>2, <1>3, <1>4, <1>5, <1>6, <1>7, <1>8, <1>9

-----------------------------------------------------------------------------
(* What is confirmed.                                                      *)

\* A store that takes mutations takes nothing back.
LEMMA UpdateKeeps ==
  ASSUME NEW m, NEW old \in KvData, NEW new \in KvData, Updates(m, old, new)
  PROVE  /\ old.version <= new.version
         /\ \A c \in Clients : old.clients[c] <= new.clients[c]
         /\ \A c \in Clients : old.clientVersions[c] <= old.version =>
                                 new.clientVersions[c] <= new.version
<1>1. CASE new = old
  BY <1>1, KvAssumption DEF KvData, Ids
<1>2. ASSUME NEW c \in Clients, NEW hi \in Ids, Taken(m, c, hi, old, new)
      PROVE  /\ old.version <= new.version
             /\ \A d \in Clients : old.clients[d] <= new.clients[d]
             /\ \A d \in Clients : old.clientVersions[d] <= old.version =>
                                     new.clientVersions[d] <= new.version
  <2>1. /\ old.version \in Nat /\ new.version \in Nat /\ old.version < new.version
        /\ old.clients \in [Clients -> Nat] /\ old.clientVersions \in [Clients -> Nat]
        /\ hi \in Nat /\ hi >= old.clients[c] + 1
    BY <1>2, KvAssumption DEF Taken, KvData, Ids
  <2>2. \A d \in Clients : new.clients[d] = IF d = c THEN hi ELSE old.clients[d]
    BY <1>2, <2>1 DEF Taken
  <2>3. \A d \in Clients :
          new.clientVersions[d] = IF d = c THEN new.version ELSE old.clientVersions[d]
    BY <1>2, <2>1 DEF Taken
  <2> QED
    BY <2>1, <2>2, <2>3
<1> QED
  BY <1>1, <1>2 DEF Updates

\* What a client knows stays true of a store that takes mutations, its own or others'.
LEMMA KnowsOn ==
  ASSUME NEW m, NEW old \in KvData, NEW new \in KvData, Updates(m, old, new),
         NEW c \in Clients, NEW ck \in Nat \cup {-1}, NEW n \in Ids, Knows(old, c, ck, n)
  PROVE  Knows(new, c, ck, n)
<1>1. CASE new = old
  BY <1>1
<1>2. ASSUME NEW d \in Clients, NEW hi \in Ids, Taken(m, d, hi, old, new)
      PROVE  Knows(new, c, ck, n)
  <2>1. /\ old.version \in Nat /\ new.version \in Nat /\ old.version < new.version
        /\ old.clients \in [Clients -> Nat] /\ old.clientVersions \in [Clients -> Nat]
        /\ n \in Nat /\ hi \in Nat /\ hi >= old.clients[d] + 1
    BY <1>2, KvAssumption DEF Taken, KvData, Ids
  <2>2. new.clients[c] = IF c = d THEN hi ELSE old.clients[c]
    BY <1>2, <2>1 DEF Taken
  <2>3. new.clientVersions[c] = IF c = d THEN new.version ELSE old.clientVersions[c]
    BY <1>2, <2>1 DEF Taken
  <2> QED
    BY <2>1, <2>2, <2>3 DEF Knows
<1> QED
  BY <1>1, <1>2 DEF Updates

\* A request that left no gap leaves none once more has been taken.
LEMMA SoundOn ==
  ASSUME NEW m, NEW old \in KvData, NEW new \in KvData, Updates(m, old, new),
         NEW r \in Request, Sound(m, old, r)
  PROVE  Sound(m, new, r)
<1>1. old.clients[r.by] <= new.clients[r.by]
  BY UpdateKeeps DEF Request
<1>2. old.clients[r.by] \in Nat /\ new.clients[r.by] \in Nat /\ r.lo \in Nat
  BY KvAssumption DEF Request, KvData, Ids
<1> QED
  BY <1>1, <1>2 DEF Sound

\* Another mutation changes nothing of what a request or an update in progress is worth.
LEMMA MutateKeeps ==
  ASSUME TypeOK, NEW c \in Clients, Mutate(c), NEW old \in KvData, NEW new \in KvData
  PROVE  /\ Updates(made, old, new) => Updates(made', old, new)
         /\ \A r \in Request : Sound(made, old, r) => Sound(made', old, r)
<1>1. PICK m \in [key : Keys, op : {"set", "del"}] : made' = [made EXCEPT ![c] = Append(made[c], m)]
  BY DEF Mutate
<1>2. ASSUME NEW d \in Clients
      PROVE  /\ Len(made[d]) \in Nat /\ Len(made'[d]) \in Nat /\ Len(made[d]) <= Len(made'[d])
             /\ \A i \in 1..Len(made[d]) : made'[d][i] = made[d][i]
  <2>1. made[d] \in Seq([key : Keys, op : {"set", "del"}])
    BY DEF TypeOK
  <2>2. /\ Len(Append(made[d], m)) = Len(made[d]) + 1
        /\ \A i \in 1..Len(made[d]) : Append(made[d], m)[i] = made[d][i]
    BY <2>1
  <2>3. made'[d] = IF d = c THEN Append(made[d], m) ELSE made[d]
    BY <1>1 DEF TypeOK
  <2> QED
    BY <2>1, <2>2, <2>3
<1>3. ASSUME NEW d \in Clients, NEW hi \in Ids, Taken(made, d, hi, old, new)
      PROVE  Taken(made', d, hi, old, new)
  <2> DEFINE lo == old.clients[d]
  <2>1. lo \in Nat /\ hi \in (lo + 1)..Len(made[d])
    BY <1>3, KvAssumption DEF Taken, KvData, Ids
  <2>2. hi \in (lo + 1)..Len(made'[d]) /\ \A i \in (lo + 1)..hi : made'[d][i] = made[d][i]
    <3> HIDE DEF lo
    <3> QED
      BY <1>2, <2>1
  <2>3. Log!Applied(old.entries, made', d, lo, hi) = Log!Applied(old.entries, made, d, lo, hi)
    <3>1. \A k \in Keys : {i \in (lo + 1)..hi : made'[d][i].key = k} = {i \in (lo + 1)..hi : made[d][i].key = k}
      BY <2>2
    <3>2. ASSUME NEW k \in Keys
          PROVE  Log!Applied(old.entries, made', d, lo, hi)[k] = Log!Applied(old.entries, made, d, lo, hi)[k]
      <4> DEFINE touch == {i \in (lo + 1)..hi : made[d][i].key = k}
      <4>1. touch # {} => Log!Max(touch) \in (lo + 1)..hi
        <5>1. lo + 1 \in Nat /\ hi \in Nat /\ touch \in SUBSET (0..hi)
          BY <2>1, KvAssumption DEF Ids
        <5> QED
          BY <5>1, MaxOfPositions
      <4>2. touch # {} => made'[d][Log!Max(touch)] = made[d][Log!Max(touch)]
        BY <4>1, <2>2
      <4> QED
        BY <3>1, <4>2 DEF Log!Applied
    <3> QED
      BY <3>2 DEF Log!Applied
  <2> QED
    BY <1>3, <2>2, <2>3 DEF Taken
<1>4. ASSUME NEW r \in Request, Sound(made, old, r)
      PROVE  Sound(made', old, r)
  BY <1>2, <1>4, KvAssumption DEF Sound, Request, Ids
<1> QED
  BY <1>3, <1>4 DEF Updates

LEMMA InitInv == Init => IInv
<1> SUFFICES ASSUME Init PROVE IInv
  OBVIOUS
<1>1. TypeOK
  BY InitTypes
<1>2. JobInv /\ RequestsInv
  BY DEF Init, JobInv, RequestsInv
<1>3. KnownInv /\ AnswerInv /\ VersionInv
  BY DEF Init, KnownInv, AnswerInv, VersionInv, Knows, EmptyKv, NoPull
<1> QED
  BY <1>1, <1>2, <1>3 DEF IInv

\* A step that leaves the store and what the clients know of it alone.
LEMMA StoreStays ==
  ASSUME IInv, UNCHANGED <<made, job, next, current, disk, queue>>,
         wire' \subseteq wire
  PROVE  JobInv' /\ RequestsInv' /\ VersionInv'
BY DEF IInv, JobInv, RequestsInv, VersionInv

LEMMA ClientsStay ==
  ASSUME IInv, UNCHANGED <<cookie, confirmed, current>>,
         \A c \in Clients : pull'[c].st = "answered" => pull'[c] = pull[c]
  PROVE  KnownInv' /\ AnswerInv'
BY DEF IInv, KnownInv, AnswerInv, Confirms

LEMMA MutateInv == ASSUME IInv, NEW c \in Clients, Mutate(c) PROVE IInv'
<1>1. UNCHANGED <<base, cookie, confirmed, pushing, wantPull, pull, streamVars, wire, storeVars,
                  member, boundVars>>
  BY DEF Mutate
<1>2. current \in KvData /\ next \in KvData /\ wire \subseteq Request /\ queue \in Seq(Request)
  BY DEF IInv, TypeOK
<1>3. TypeOK'
  BY MutateTypes DEF IInv
<1>4. JobInv'
  BY <1>1, <1>2, MutateKeeps DEF IInv, JobInv, storeVars
<1>5. RequestsInv'
  <2>1. \A i \in DOMAIN queue : queue[i] \in Request
    BY <1>2
  <2> QED
    BY <1>1, <1>2, <2>1, MutateKeeps DEF IInv, RequestsInv, storeVars
<1>6. KnownInv' /\ AnswerInv' /\ VersionInv'
  BY <1>1, ClientsStay DEF IInv, VersionInv, storeVars
<1> QED
  BY <1>3, <1>4, <1>5, <1>6 DEF IInv

LEMMA SendPushInv == ASSUME IInv, NEW c \in Clients, SendPush(c) PROVE IInv'
<1> DEFINE r == [by |-> c, lo |-> confirmed[c] + 1, hi |-> Len(made[c])]
<1>1. TypeOK'
  BY ClientTypes DEF IInv
<1>2. /\ wire' = wire \cup {r}
      /\ UNCHANGED <<made, cookie, confirmed, pull, queue, job, next, current, disk>>
  BY DEF SendPush, storeVars
<1>3. confirmed[c] <= current.clients[c] /\ confirmed[c] \in Nat /\ current.clients[c] \in Nat
      /\ Len(made[c]) \in Nat
  BY KvAssumption DEF IInv, KnownInv, Knows, TypeOK, KvData, Ids
<1>4. Sound(made, current, r)
  BY <1>3 DEF Sound
<1>5. RequestsInv'
  BY <1>2, <1>4 DEF IInv, RequestsInv
<1>6. JobInv' /\ VersionInv'
  BY <1>2 DEF IInv, JobInv, VersionInv
<1>7. KnownInv' /\ AnswerInv'
  BY <1>2, ClientsStay
<1> QED
  BY <1>1, <1>5, <1>6, <1>7 DEF IInv

LEMMA TakePullInv == ASSUME IInv, NEW c \in Clients, TakePull(c) PROVE IInv'
<1> DEFINE got == pull[c].ans
<1>1. TypeOK'
  BY ClientTypes DEF IInv
<1>2. UNCHANGED <<made, wire, queue, job, next, current, disk>>
  BY DEF TakePull, storeVars
<1>3. JobInv' /\ RequestsInv' /\ VersionInv'
  BY <1>2, StoreStays
<1>4. /\ got.cookie >= cookie[c]
      /\ Knows(current, c, got.cookie, Confirms(got.lastId, c))
      /\ got.cookie \in Int /\ cookie[c] \in Int
  BY DEF IInv, TakePull, AnswerInv, TypeOK, Answer
<1>5. cookie' = [cookie EXCEPT ![c] = got.cookie]
      /\ confirmed' = IF got.lastId > 0 THEN [confirmed EXCEPT ![c] = got.lastId] ELSE confirmed
  BY <1>4 DEF TakePull
<1>6. cookie'[c] = got.cookie /\ confirmed'[c] = Confirms(got.lastId, c)
      /\ \A d \in Clients \ {c} : cookie'[d] = cookie[d] /\ confirmed'[d] = confirmed[d]
  BY <1>5 DEF IInv, TypeOK, Confirms
<1>7. KnownInv'
  BY <1>2, <1>4, <1>6 DEF IInv, KnownInv
<1>8. \A d \in Clients : pull'[d].st = "answered" => d # c /\ pull'[d] = pull[d]
  BY DEF TakePull, NoPull, IInv, TypeOK
<1>9. AnswerInv'
  BY <1>2, <1>6, <1>8 DEF IInv, AnswerInv, Confirms
<1> QED
  BY <1>1, <1>3, <1>7, <1>9 DEF IInv

LEMMA AnswerPullInv == ASSUME IInv, NEW c \in Clients, AnswerPull(c) PROVE IInv'
<1> DEFINE last == IF current.clientVersions[c] > cookie[c] THEN current.clients[c] ELSE 0
<1>1. TypeOK'
  BY ClientTypes DEF IInv
<1>2. UNCHANGED <<made, wire, queue, job, next, current, disk, cookie, confirmed>>
  BY DEF AnswerPull, storeVars
<1>3. JobInv' /\ RequestsInv' /\ VersionInv'
  BY <1>2, StoreStays
<1>4. KnownInv'
  BY <1>2 DEF IInv, KnownInv
<1>5. /\ pull'[c].ans.cookie = current.version /\ pull'[c].ans.lastId = last
      /\ \A d \in Clients \ {c} : pull'[d] = pull[d]
  BY DEF AnswerPull, IInv, TypeOK
<1>6. /\ current.version \in Nat /\ current.clients[c] \in Nat /\ current.clientVersions[c] \in Nat
      /\ cookie[c] \in Int /\ confirmed[c] \in Nat
  BY KvAssumption DEF IInv, TypeOK, KvData, Ids
<1>7. /\ Knows(current, c, cookie[c], confirmed[c])
      /\ current.clientVersions[c] <= current.version
  BY DEF IInv, KnownInv, VersionInv
<1>8. /\ current.version >= cookie[c]
      /\ Confirms(last, c) >= confirmed[c]
      /\ Knows(current, c, current.version, Confirms(last, c))
  BY <1>6, <1>7 DEF Knows, Confirms
<1> HIDE DEF last
<1>9. AnswerInv'
  BY <1>2, <1>5, <1>8 DEF IInv, AnswerInv, Confirms
<1> QED
  BY <1>1, <1>3, <1>4, <1>9 DEF IInv

\* The steps of a client that neither push, take an answer nor make a mutation.
LEMMA ClientInv ==
  ASSUME IInv, NEW c \in Clients,
         LosePush(c) \/ SendPull(c) \/ LosePull(c) \/ OpenStream(c) \/ OnPoke(c) \/ DropStream(c)
  PROVE  IInv'
<1>1. TypeOK'
  BY ClientTypes DEF IInv
<1>2. UNCHANGED <<made, cookie, confirmed, queue, job, next, current, disk>> /\ wire' \subseteq wire
  BY DEF LosePush, SendPull, LosePull, OpenStream, OnPoke, DropStream, storeVars
<1>3. ASSUME NEW d \in Clients, pull'[d].st = "answered"
      PROVE  pull'[d] = pull[d]
  <2>1. CASE SendPull(c)
    <3>1. pull' = [pull EXCEPT ![c] = [pull[c] EXCEPT !.st = "asked"]]
      BY <2>1 DEF SendPull
    <3>2. [pull[c] EXCEPT !.st = "asked"].st = "asked"
      BY DEF IInv, TypeOK
    <3> QED
      BY <1>3, <3>1, <3>2 DEF IInv, TypeOK
  <2>2. CASE LosePull(c)
    BY <1>3, <2>2 DEF LosePull, NoPull, IInv, TypeOK
  <2>3. CASE LosePush(c) \/ OpenStream(c) \/ OnPoke(c) \/ DropStream(c)
    BY <2>3 DEF LosePush, OpenStream, OnPoke, DropStream
  <2> QED
    BY <2>1, <2>2, <2>3
<1> QED
  BY <1>1, <1>2, <1>3, StoreStays, ClientsStay DEF IInv

\* The file is the value in memory, or that after one update.
LEMMA FileUpdates ==
  ASSUME IInv
  PROVE  current \in KvData /\ disk \in KvData /\ Updates(made, current, disk)
BY DEF IInv, TypeOK, JobInv, Updates

\* The value in memory becomes the file's: an update ends, or the server restarts.
LEMMA StoreReplaced ==
  ASSUME IInv, current' = disk, UNCHANGED <<made, cookie, confirmed>>,
         \A c \in Clients : pull'[c].st = "answered" => pull'[c] = pull[c]
  PROVE  /\ Updates(made, current, current')
         /\ KnownInv' /\ AnswerInv' /\ VersionInv'
<1>1. Updates(made, current, current')
  BY FileUpdates
<1>2. current \in KvData /\ current' \in KvData
  BY FileUpdates
<1>3. VersionInv'
  BY <1>1, <1>2, UpdateKeeps DEF IInv, VersionInv
<1>4. \A c \in Clients : cookie[c] \in Nat \cup {-1} /\ confirmed[c] \in Ids
  BY DEF IInv, TypeOK
<1>5. KnownInv'
  BY <1>1, <1>2, <1>4, KnowsOn DEF IInv, KnownInv
<1>6. ASSUME NEW c \in Clients, pull[c].st = "answered"
      PROVE  Knows(current', c, pull[c].ans.cookie, Confirms(pull[c].ans.lastId, c))
  <2>1. pull[c].ans.cookie \in Nat \cup {-1} /\ Confirms(pull[c].ans.lastId, c) \in Ids
    BY <1>4 DEF IInv, TypeOK, Answer, Confirms
  <2>2. Knows(current, c, pull[c].ans.cookie, Confirms(pull[c].ans.lastId, c))
    BY <1>6 DEF IInv, AnswerInv
  <2> QED
    BY <1>1, <1>2, <2>1, <2>2, KnowsOn
<1>7. AnswerInv'
  BY <1>6 DEF IInv, AnswerInv, Confirms
<1> QED
  BY <1>1, <1>3, <1>5, <1>7

\* The requests that remain when the first of the queue is done with.
LEMMA QueueShorter ==
  ASSUME IInv, queue # <<>>, queue' = Tail(queue), Updates(made, current, current'),
         UNCHANGED <<made, wire>>, current' \in KvData
  PROVE  RequestsInv'
<1>1. /\ \A r \in wire : r \in Request
      /\ \A i \in DOMAIN queue : queue[i] \in Request
      /\ current \in KvData
  BY DEF IInv, TypeOK
<1>2. \A i \in DOMAIN queue' : i + 1 \in DOMAIN queue /\ queue'[i] = queue[i + 1]
  BY FirstTaken DEF IInv
<1>3. \A r \in wire : Sound(made, current', r)
  BY <1>1, SoundOn DEF IInv, RequestsInv
<1>4. \A i \in DOMAIN queue : Sound(made, current', queue[i])
  BY <1>1, SoundOn DEF IInv, RequestsInv
<1> QED
  BY <1>2, <1>3, <1>4 DEF RequestsInv

LEMMA ServerInv ==
  ASSUME IInv,
         ReceivePush \/ DenyPush \/ BeginUpdate \/ FailUpdate \/ RenameFile \/ FinishUpdate
           \/ SignIn \/ CrashRestart \/ UNCHANGED vars
  PROVE  IInv'
<1> USE DEF clientVars, streamVars, storeVars, boundVars
<1>0. TypeOK'
  BY ServerTypes DEF IInv, JobInv
<1>1. CASE ReceivePush
  <2>1. PICK r \in wire : wire' = wire \ {r} /\ queue' = Append(queue, r)
    BY <1>1 DEF ReceivePush
  <2>2. \A i \in DOMAIN queue' : queue'[i] = r \/ (i \in DOMAIN queue /\ queue'[i] = queue[i])
    BY <2>1 DEF IInv, TypeOK
  <2>3. RequestsInv'
    BY <1>1, <2>1, <2>2 DEF ReceivePush, IInv, RequestsInv
  <2>4. queue' # <<>>
    BY <2>1 DEF IInv, TypeOK
  <2>5. JobInv' /\ VersionInv'
    BY <1>1, <2>4 DEF ReceivePush, IInv, JobInv, VersionInv
  <2>6. KnownInv' /\ AnswerInv'
    BY <1>1, ClientsStay DEF ReceivePush
  <2> QED
    BY <1>0, <2>3, <2>5, <2>6 DEF IInv
<1>2. CASE DenyPush \/ SignIn \/ UNCHANGED vars
  <2>1. UNCHANGED <<made, cookie, confirmed, pull, queue, job, next, current, disk>>
        /\ wire' \subseteq wire
    BY <1>2 DEF DenyPush, SignIn, vars
  <2> QED
    BY <1>0, <2>1, StoreStays, ClientsStay DEF IInv
<1>3. CASE BeginUpdate
  <2>1. Head(queue) \in Request /\ Sound(made, current, Head(queue)) /\ queue # <<>>
    BY <1>3, FirstTaken DEF BeginUpdate, IInv, RequestsInv
  <2>2. Updates(made, current, next')
    BY <1>3, <2>1, PushedUpdates DEF BeginUpdate, IInv
  <2>3. JobInv'
    BY <1>3, <2>1, <2>2 DEF BeginUpdate, IInv, JobInv
  <2>4. RequestsInv' /\ VersionInv' /\ KnownInv' /\ AnswerInv'
    BY <1>3, ClientsStay DEF BeginUpdate, IInv, RequestsInv, VersionInv
  <2> QED
    BY <1>0, <2>3, <2>4 DEF IInv
<1>4. CASE FailUpdate
  <2>1. queue # <<>> /\ disk = current
    BY <1>4 DEF FailUpdate, IInv, JobInv
  <2>2. JobInv' /\ VersionInv' /\ KnownInv' /\ AnswerInv'
    BY <1>4, <2>1, ClientsStay DEF FailUpdate, IInv, JobInv, VersionInv
  <2>3. Updates(made, current, current') /\ current' \in KvData
    BY <1>4 DEF FailUpdate, Updates, IInv, TypeOK
  <2>4. RequestsInv'
    BY <1>4, <2>1, <2>3, QueueShorter DEF FailUpdate
  <2> QED
    BY <1>0, <2>2, <2>4 DEF IInv
<1>5. CASE RenameFile
  <2>1. JobInv'
    BY <1>5 DEF RenameFile, IInv, JobInv
  <2>2. RequestsInv' /\ VersionInv' /\ KnownInv' /\ AnswerInv'
    BY <1>5, ClientsStay DEF RenameFile, IInv, RequestsInv, VersionInv
  <2> QED
    BY <1>0, <2>1, <2>2 DEF IInv
<1>6. CASE FinishUpdate
  <2>1. queue # <<>> /\ disk = next /\ current' \in KvData
    BY <1>0, <1>6 DEF FinishUpdate, IInv, JobInv, TypeOK
  <2>2. Updates(made, current, current') /\ KnownInv' /\ AnswerInv' /\ VersionInv'
    BY <1>6, <2>1, StoreReplaced DEF FinishUpdate
  <2>3. RequestsInv'
    BY <1>6, <2>1, <2>2, QueueShorter DEF FinishUpdate
  <2>4. JobInv'
    BY <1>6, <2>1 DEF FinishUpdate, JobInv
  <2> QED
    BY <1>0, <2>2, <2>3, <2>4 DEF IInv
<1>7. CASE CrashRestart
  <2>1. \A c \in Clients : pull'[c].st = "answered" => pull'[c] = pull[c]
    BY <1>7 DEF CrashRestart, NoPull
  <2>2. KnownInv' /\ AnswerInv' /\ VersionInv'
    BY <1>7, <2>1, StoreReplaced DEF CrashRestart
  <2>3. RequestsInv' /\ JobInv'
    BY <1>7 DEF CrashRestart, RequestsInv, JobInv
  <2> QED
    BY <1>0, <2>2, <2>3 DEF IInv
<1> QED
  BY <1>1, <1>2, <1>3, <1>4, <1>5, <1>6, <1>7

LEMMA StepInv == IInv /\ [Next]_vars => IInv'
<1> SUFFICES ASSUME IInv, [Next]_vars PROVE IInv'
  OBVIOUS
<1>1. ASSUME NEW c \in Clients,
             \/ Mutate(c) \/ SendPush(c) \/ LosePush(c) \/ SendPull(c) \/ LosePull(c)
             \/ TakePull(c) \/ OpenStream(c) \/ OnPoke(c) \/ DropStream(c) \/ AnswerPull(c)
      PROVE  IInv'
  BY <1>1, MutateInv, SendPushInv, TakePullInv, AnswerPullInv, ClientInv
<1> QED
  BY <1>1, ServerInv DEF Next

LEMMA Invariant == Spec => []IInv
  BY InitInv, StepInv, PTL DEF Spec

\* Every variable keeps its type: among others, no client is told of a mutation beyond those
\* it made, and no version goes below zero.
THEOREM KvTypes == Spec => []TypeOK
<1>1. IInv => TypeOK
  BY DEF IInv
<1> QED
  BY <1>1, Invariant, PTL

\* What a client takes for done is in the file, over lost requests and answers, late copies of
\* requests, failing writes and crashes at any point of an update.
THEOREM ConfirmedIsDurable == Spec => []ConfirmedDurable
<1>1. ASSUME IInv PROVE ConfirmedDurable
  <2>1. current \in KvData /\ disk \in KvData /\ Updates(made, current, disk)
    BY <1>1, FileUpdates
  <2>2. \A c \in Clients : current.clients[c] <= disk.clients[c]
    BY <2>1, UpdateKeeps
  <2>3. \A c \in Clients : /\ confirmed[c] <= current.clients[c] /\ confirmed[c] \in Nat
                           /\ current.clients[c] \in Nat /\ disk.clients[c] \in Nat
    BY <1>1, <2>1, KvAssumption DEF IInv, TypeOK, KnownInv, Knows, KvData, Ids
  <2>4. ASSUME NEW i \in DOMAIN queue
        PROVE  queue[i].lo <= disk.clients[queue[i].by] + 1
    <3>1. queue[i] \in Request /\ Sound(made, current, queue[i])
      BY <1>1 DEF IInv, TypeOK, RequestsInv
    <3>2. Sound(made, disk, queue[i])
      BY <2>1, <3>1, SoundOn
    <3> QED
      BY <3>2 DEF Sound
  <2> QED
    BY <2>2, <2>3, <2>4 DEF ConfirmedDurable
<1> QED
  BY <1>1, Invariant, PTL

-----------------------------------------------------------------------------
(* The refinement.                                                         *)

\* A renamed file is the store taking the mutations of one push, as a whole.
LEMMA RenameTakes ==
  ASSUME IInv, RenameFile
  PROVE  [Log!LogNext]_Log!logVars
<1>1. disk' = next /\ disk = current /\ Updates(made, disk, next) /\ UNCHANGED <<made, confirmed>>
  BY DEF RenameFile, clientVars, IInv, JobInv
<1>2. CASE next = disk
  BY <1>1, <1>2 DEF Log!logVars
<1>3. ASSUME NEW c \in Clients, NEW hi \in Ids, Taken(made, c, hi, disk, next)
      PROVE  Log!Take(c)
  BY <1>1, <1>3 DEF Taken, Log!Take
<1> QED
  BY <1>1, <1>2, <1>3 DEF Updates, Log!LogNext

\* An answer that is taken confirms what the store has, or nothing new.
LEMMA AnswerConfirms ==
  ASSUME IInv, NEW c \in Clients, TakePull(c)
  PROVE  [Log!LogNext]_Log!logVars
<1> DEFINE n == Confirms(pull[c].ans.lastId, c)
<1>1. /\ confirmed' = confirmed \/ confirmed' = [confirmed EXCEPT ![c] = n]
      /\ UNCHANGED <<made, disk>>
  BY DEF TakePull, storeVars, Confirms
<1>2. confirmed[c] <= n /\ n <= current.clients[c]
  BY DEF TakePull, IInv, AnswerInv, Knows
<1>3. n \in Nat /\ confirmed[c] \in Nat /\ current.clients[c] \in Nat /\ disk.clients[c] \in Nat
      /\ confirmed \in [Clients -> Nat]
  BY KvAssumption DEF IInv, TypeOK, Answer, KvData, Ids, Confirms
<1>4. current.clients[c] <= disk.clients[c]
  BY FileUpdates, UpdateKeeps
<1> HIDE DEF n
<1>5. CASE n = confirmed[c]
  BY <1>1, <1>3, <1>5 DEF Log!logVars
<1>6. CASE n # confirmed[c]
  <2>1. n \in (confirmed[c] + 1)..disk.clients[c]
    BY <1>2, <1>3, <1>4, <1>6
  <2> QED
    BY <1>1, <2>1 DEF Log!Confirm, Log!LogNext, Log!logVars
<1> QED
  BY <1>5, <1>6

\* The server with its queue, its file and its crashes takes every client's mutations in their
\* order, each once, and confirms only those taken: KvSync implements KvLog.
THEOREM ImplementsLog == Spec => TakesOnce
<1>1. Init => Log!LogInit
  BY DEF Init, Log!LogInit, EmptyKv, Empty
<1>2. IInv /\ [Next]_vars => [Log!LogNext]_Log!logVars
  <2> SUFFICES ASSUME IInv, [Next]_vars
               PROVE  [Log!LogNext]_Log!logVars
    OBVIOUS
  <2> USE DEF clientVars, streamVars, storeVars, boundVars
  <2>1. ASSUME NEW c \in Clients, Mutate(c)
        PROVE  [Log!LogNext]_Log!logVars
    <3>1. PICK k \in Keys, op \in {"set", "del"} :
            made' = [made EXCEPT ![c] = Append(@, [key |-> k, op |-> op])]
      BY <2>1 DEF Mutate
    <3>2. [key |-> k, op |-> op] \in Log!Mutation
      BY DEF Log!Mutation
    <3>3. Log!Make(c)
      BY <2>1, <3>1, <3>2 DEF Mutate, Log!Make
    <3> QED
      BY <3>3 DEF Log!LogNext
  <2>2. ASSUME NEW c \in Clients, TakePull(c)
        PROVE  [Log!LogNext]_Log!logVars
    BY <2>2, AnswerConfirms
  <2>3. CASE RenameFile
    BY <2>3, RenameTakes
  <2>4. ASSUME UNCHANGED <<made, disk, confirmed>>
        PROVE  [Log!LogNext]_Log!logVars
    BY <2>4 DEF Log!logVars
  <2>5. ASSUME NEW c \in Clients,
               SendPush(c) \/ LosePush(c) \/ SendPull(c) \/ LosePull(c)
                 \/ OpenStream(c) \/ OnPoke(c) \/ DropStream(c) \/ AnswerPull(c)
        PROVE  [Log!LogNext]_Log!logVars
    BY <2>4, <2>5 DEF SendPush, LosePush, SendPull, LosePull, OpenStream, OnPoke, DropStream,
                      AnswerPull
  <2>6. CASE ReceivePush \/ DenyPush \/ BeginUpdate \/ FailUpdate \/ FinishUpdate \/ SignIn
             \/ CrashRestart \/ UNCHANGED vars
    BY <2>4, <2>6 DEF ReceivePush, DenyPush, BeginUpdate, FailUpdate, FinishUpdate, SignIn,
                      CrashRestart, vars
  <2> QED
    BY <2>1, <2>2, <2>3, <2>5, <2>6 DEF Next
<1> QED
  BY <1>1, <1>2, Invariant, PTL DEF Spec, TakesOnce, Log!LogSpec

-----------------------------------------------------------------------------
(* What an idle client shows.                                              *)

\* With no key hidden from the viewer, the whole contents.
LEMMA VisibleIsAll ==
  ASSUME IInv, SeesAll
  PROVE  Visible(current.entries) = current.entries
BY DEF SeesAll, Visible, IInv, TypeOK, KvData, Content

\* Shows and its like over a store that takes mutations: the version is new to everybody.
LEMMA ShowsOn ==
  ASSUME NEW m, NEW old \in KvData, NEW new \in KvData, Updates(m, old, new),
         NEW ck \in Nat \cup {-1}, ck <= old.version, NEW b, Shows(old, ck, b)
  PROVE  Shows(new, ck, b)
BY DEF Updates, Taken, Shows, KvData

LEMMA FreshStepInv ==
  ASSUME Hidden = {} \/ MemberAtStart, IInv, IInv', FreshInv, [Next]_vars
  PROVE  FreshInv'
<1> USE DEF clientVars, streamVars, storeVars, boundVars
<1>0. SeesAll'
  BY DEF FreshInv, SeesAll, Next, vars, Mutate, SendPush, LosePush, SendPull, LosePull, TakePull,
         OpenStream, OnPoke, DropStream, AnswerPull, ReceivePush, DenyPush, BeginUpdate,
         FailUpdate, RenameFile, FinishUpdate, SignIn, CrashRestart
\* What asks, or hears less, gives no answer and leaves the snapshots alone.
<1>1. ASSUME UNCHANGED <<current, base, cookie>>,
             \A c \in Clients : pull'[c].st = "answered" => pull'[c] = pull[c],
             \A c \in Clients : open'[c] /\ ~poked'[c] /\ ~wantPull'[c] =>
               \/ pull'[c].st = "asked"
               \/ open[c] /\ ~poked[c] /\ ~wantPull[c] /\ pull'[c] = pull[c]
      PROVE  FreshInv'
  <2>1. ShownInv'
    BY <1>1 DEF FreshInv, ShownInv
  <2>2. HeardInv'
    BY <1>1 DEF FreshInv, HeardInv
  <2> QED
    BY <1>0, <2>1, <2>2 DEF FreshInv
<1>2. ASSUME NEW c \in Clients, Mutate(c) \/ SendPush(c) \/ LosePush(c)
      PROVE  FreshInv'
  BY <1>1, <1>2 DEF Mutate, SendPush, LosePush
<1>3. ASSUME NEW c \in Clients, OpenStream(c) \/ OnPoke(c) \/ DropStream(c)
      PROVE  FreshInv'
  <2>1. /\ UNCHANGED <<current, base, cookie, pull>>
        /\ wantPull'[c]
        /\ \A d \in Clients \ {c} :
             open'[d] = open[d] /\ poked'[d] = poked[d] /\ wantPull'[d] = wantPull[d]
    BY <1>3 DEF OpenStream, OnPoke, DropStream, IInv, TypeOK
  <2> QED
    BY <1>1, <2>1
<1>4. ASSUME NEW c \in Clients, SendPull(c) \/ LosePull(c)
      PROVE  FreshInv'
  <2>1. /\ UNCHANGED <<current, base, cookie, open, poked>>
        /\ pull'[c].st # "answered"
        /\ wantPull'[c] \/ pull'[c].st = "asked"
        /\ \A d \in Clients \ {c} : pull'[d] = pull[d] /\ wantPull'[d] = wantPull[d]
    BY <1>4 DEF SendPull, LosePull, NoPull, IInv, TypeOK
  <2> QED
    BY <1>1, <2>1
<1>5. ASSUME NEW c \in Clients, TakePull(c)
      PROVE  FreshInv'
  <2> DEFINE got == pull[c].ans
  <2>1. /\ got.cookie >= cookie[c] /\ got.cookie \in Int /\ cookie[c] \in Int
        /\ UNCHANGED <<current, open, poked, wantPull>>
        /\ pull[c].st = "answered" /\ pull'[c].st = "none"
        /\ \A d \in Clients \ {c} : pull'[d] = pull[d]
    BY <1>5 DEF TakePull, NoPull, IInv, AnswerInv, TypeOK, Answer
  <2>2. /\ cookie' = [cookie EXCEPT ![c] = got.cookie]
        /\ base' = IF got.patch THEN [base EXCEPT ![c] = got.entries] ELSE base
    BY <1>5, <2>1 DEF TakePull
  <2>3. /\ cookie'[c] = got.cookie
        /\ base'[c] = IF got.patch THEN got.entries ELSE base[c]
        /\ \A d \in Clients \ {c} : cookie'[d] = cookie[d] /\ base'[d] = base[d]
    BY <2>2 DEF IInv, TypeOK
  <2>4. ShownInv'
    BY <2>1, <2>3 DEF FreshInv, ShownInv
  <2>5. HeardInv'
    BY <2>1, <2>3 DEF FreshInv, HeardInv
  <2> QED
    BY <1>0, <2>4, <2>5 DEF FreshInv
<1>6. ASSUME NEW c \in Clients, AnswerPull(c)
      PROVE  FreshInv'
  <2>1. /\ UNCHANGED <<current, base, cookie, open, poked, wantPull>>
        /\ pull[c].st = "asked"
        /\ pull'[c].ans.cookie = current.version
        /\ pull'[c].ans.patch = (cookie[c] # current.version)
        /\ cookie[c] # current.version => pull'[c].ans.entries = Visible(current.entries)
        /\ \A d \in Clients \ {c} : pull'[d] = pull[d]
    BY <1>6 DEF AnswerPull, IInv, TypeOK
  <2>2. Visible(current.entries) = current.entries
    BY VisibleIsAll DEF FreshInv
  <2>3. pull'[c].st = "answered"
    BY <1>6 DEF AnswerPull, IInv, TypeOK
  <2>4. ShownInv'
    BY <2>1, <2>2 DEF FreshInv, ShownInv, Shows
  <2>5. HeardInv'
    BY <2>1, <2>3 DEF FreshInv, HeardInv
  <2> QED
    BY <1>0, <2>4, <2>5 DEF FreshInv
<1>7. CASE ReceivePush \/ DenyPush \/ BeginUpdate \/ FailUpdate \/ RenameFile \/ SignIn
           \/ UNCHANGED vars
  BY <1>1, <1>7 DEF ReceivePush, DenyPush, BeginUpdate, FailUpdate, RenameFile, SignIn, vars
<1>8. CASE FinishUpdate \/ CrashRestart
  <2>1. current' = disk /\ UNCHANGED <<base, cookie>>
    BY <1>8 DEF FinishUpdate, CrashRestart, IInv, JobInv
  <2>2. \A c \in Clients : pull'[c].st = "answered" => pull'[c] = pull[c]
    BY <1>8 DEF FinishUpdate, CrashRestart, NoPull
  <2>3. \A c \in Clients : ~open'[c] \/ poked'[c]
    BY <1>8 DEF FinishUpdate, CrashRestart
  <2>4. ASSUME NEW c \in Clients PROVE Shows(current', cookie[c], base[c])
    <3>1. cookie[c] \in Nat \cup {-1} /\ cookie[c] <= current.version
      BY DEF IInv, TypeOK, KnownInv, Knows
    <3>2. Shows(current, cookie[c], base[c])
      BY DEF FreshInv, ShownInv
    <3> QED
      BY <2>1, <3>1, <3>2, FileUpdates, ShowsOn
  <2>5. ASSUME NEW c \in Clients, pull[c].st = "answered"
        PROVE  Shows(current', pull[c].ans.cookie,
                     IF pull[c].ans.patch THEN pull[c].ans.entries ELSE base[c])
    <3>1. pull[c].ans.cookie \in Nat \cup {-1} /\ pull[c].ans.cookie <= current.version
      BY <2>5 DEF IInv, TypeOK, Answer, AnswerInv, Knows
    <3>2. Shows(current, pull[c].ans.cookie,
                IF pull[c].ans.patch THEN pull[c].ans.entries ELSE base[c])
      BY <2>5 DEF FreshInv, ShownInv
    <3> QED
      BY <2>1, <3>1, <3>2, FileUpdates, ShowsOn
  <2>6. ShownInv'
    BY <2>1, <2>2, <2>4, <2>5 DEF ShownInv
  <2>7. HeardInv'
    BY <2>3 DEF HeardInv
  <2> QED
    BY <1>0, <2>6, <2>7 DEF FreshInv
<1> QED
  BY <1>2, <1>3, <1>4, <1>5, <1>6, <1>7, <1>8 DEF Next

\* A client with an open stream that has nothing left to hear, ask or take holds the contents
\* of the store and knows what it has taken of its own: no poke is lost without a pull in its
\* place. For a viewer who sees all keys, or a sandbox that never forgets its viewer.
THEOREM QuietClientsAreFresh ==
  ASSUME Hidden = {} \/ MemberAtStart
  PROVE  Spec => []QuietIsFresh
<1>1. Init => FreshInv
  BY DEF Init, FreshInv, SeesAll, ShownInv, Shows, HeardInv, NoPull, EmptyKv, Empty
<1>2. IInv /\ IInv' /\ FreshInv /\ [Next]_vars => FreshInv'
  BY FreshStepInv
<1>3. ASSUME IInv, FreshInv PROVE QuietIsFresh
  <2> SUFFICES ASSUME NEW c \in Clients, open[c], ~poked[c], ~wantPull[c], pull[c].st = "none"
               PROVE  base[c] = Visible(current.entries) /\ confirmed[c] = current.clients[c]
    BY DEF QuietIsFresh
  <2>1. cookie[c] = current.version
    BY <1>3 DEF FreshInv, HeardInv
  <2>2. base[c] = Visible(current.entries)
    BY <1>3, <2>1, VisibleIsAll DEF FreshInv, ShownInv, Shows
  <2>3. confirmed[c] = current.clients[c]
    BY <1>3, <2>1 DEF IInv, KnownInv, Knows, VersionInv
  <2> QED
    BY <2>2, <2>3
<1> QED
  BY <1>1, <1>2, <1>3, Invariant, PTL DEF Spec
=============================================================================
