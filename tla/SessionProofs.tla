---------------------------- MODULE SessionProofs ----------------------------
(***************************************************************************)
(* Theorems about Session, for all values of its constants: type           *)
(* correctness, that the guest and the host end up on the same channel     *)
(* when ports deliver in order, that every mode change is announced, and   *)
(* that a call that waits for a token is served: what it waits for is a    *)
(* request or an answer on the port the guest holds, which by convergence  *)
(* the host does not close.                                                *)
(***************************************************************************)
EXTENDS Session, SequenceTheorems, TLAPS

-----------------------------------------------------------------------------
\* What a queue looks like once message i is taken out: one shorter, the messages
\* before i where they were, the ones after i one place further to the front.
LEMMA WithoutProperties ==
  ASSUME NEW S, NEW s \in Seq(S), NEW i \in DOMAIN s
  PROVE  /\ Without(s, i) \in Seq(S)
         /\ Len(Without(s, i)) = Len(s) - 1
         /\ \A k \in 1..(Len(s) - 1) :
              Without(s, i)[k] = IF k < i THEN s[k] ELSE s[k + 1]
<1> DEFINE a == SubSeq(s, 1, i - 1)
           b == SubSeq(s, i + 1, Len(s))
<1>1. i \in 1..Len(s) /\ Len(s) \in Nat
  OBVIOUS
<1>2. /\ a \in Seq(S)
      /\ Len(a) = i - 1
      /\ \A k \in 1..(i - 1) : a[k] = s[k]
  BY <1>1
<1>3. /\ b \in Seq(S)
      /\ Len(b) = Len(s) - i
      /\ \A k \in 1..(Len(s) - i) : b[k] = s[k + i]
  BY <1>1
<1>4. Without(s, i) = a \o b
  BY DEF Without
<1> HIDE DEF a, b
<1>5. /\ a \o b \in Seq(S)
      /\ Len(a \o b) = Len(s) - 1
      /\ \A k \in 1..(Len(s) - 1) : (a \o b)[k] = IF k <= i - 1 THEN a[k] ELSE b[k - (i - 1)]
  BY <1>1, <1>2, <1>3
<1>6. ASSUME NEW k \in 1..(Len(s) - 1)
      PROVE  (a \o b)[k] = IF k < i THEN s[k] ELSE s[k + 1]
  <2>1. CASE k < i
    BY <2>1, <1>1, <1>2, <1>5
  <2>2. CASE ~(k < i)
    <3>1. k - (i - 1) \in 1..(Len(s) - i) /\ (k - (i - 1)) + i = k + 1
      BY <2>2, <1>1
    <3>2. QED
      BY <3>1, <2>2, <1>1, <1>3, <1>5
  <2>3. QED
    BY <2>1, <2>2
<1>7. QED
  BY <1>4, <1>5, <1>6

\* A message added to a queue is its last, the others stay where they are.
LEMMA AppendFacts ==
  ASSUME NEW S, NEW s \in Seq(S), NEW e \in S
  PROVE  /\ Append(s, e) \in Seq(S)
         /\ Len(Append(s, e)) = Len(s) + 1
         /\ Append(s, e)[Len(s) + 1] = e
         /\ \A k \in 1..Len(s) : Append(s, e)[k] = s[k]
         /\ DOMAIN Append(s, e) = 1..(Len(s) + 1)
  OBVIOUS

\* The first message taken off a queue.
LEMMA TailFacts ==
  ASSUME NEW S, NEW s \in Seq(S), s # <<>>
  PROVE  /\ Head(s) \in S
         /\ Head(s) = s[1]
         /\ Tail(s) \in Seq(S)
         /\ Len(Tail(s)) = Len(s) - 1
         /\ Len(s) \in Nat \ {0}
         /\ \A k \in 1..(Len(s) - 1) : Tail(s)[k] = s[k + 1]
         /\ DOMAIN Tail(s) = 1..(Len(s) - 1)
  OBVIOUS

-----------------------------------------------------------------------------
\* The states of a call that api() and the ends of a call produce.
LEMMA CallStates ==
  ASSUME NEW t \in Tokens \cup {0}, NEW r \in Tokens \cup {0}
  PROVE  /\ Send(t, r) \in CallState
         /\ \A how \in Settled : Ended(how) \in CallState
         /\ IdleCall \in CallState
BY SessionAssumption DEF Send, Ended, IdleCall, CallState, Settled, Tokens

\* Flushing the waiters keeps every call well-formed.
LEMMA FlushedType ==
  ASSUME TypeOK, NEW t \in Tokens \cup {0}
  PROVE  Flushed(t) \in [Calls -> CallState]
<1>1. ASSUME NEW c \in Calls
      PROVE  calls[c] \in CallState /\ calls[c].tok \in Tokens \cup {0}
  BY DEF TypeOK, CallState
<1>2. QED
  BY <1>1, CallStates DEF Flushed

\* A token, or its absence, amounts to a mode.
LEMMA ModeType ==
  ASSUME NEW t \in Tokens \cup {0}
  PROVE  ModeOf(t) \in Modes
BY SessionAssumption DEF ModeOf, Modes, Tokens

\* Every variable of the session keeps its type, whatever the constants.
THEOREM TypeCorrect == Spec => []TypeOK
<1>0. \A S : <<>> \in Seq(S)
  OBVIOUS
<1>1. Init => TypeOK
  <2> SUFFICES ASSUME Init PROVE TypeOK
    OBVIOUS
  <2>1. 1 \in Tokens /\ 0 \in 0..MaxHellos /\ 0 \in 0..MaxReloads /\ 0 \in 0..1
    BY SessionAssumption DEF Tokens
  <2>2. IdleFetch \in Fetch /\ IdleCall \in CallState
    BY DEF IdleFetch, Fetch, IdleCall, CallState
  <2>3. QED
    BY <1>0, <2>1, <2>2 DEF Init, TypeOK, Modes
<1>2. TypeOK /\ [Next]_vars => TypeOK'
  <2> SUFFICES ASSUME TypeOK, [Next]_vars
               PROVE  TypeOK'
    OBVIOUS
  <2> USE SessionAssumption DEF TypeOK, guestVars, wireVars, hostVars, serverVars, histVars
  <2>1. CASE LoadSdk
    BY <2>1 DEF LoadSdk
  <2>2. CASE SayHello
    BY <2>2 DEF SayHello
  <2>3. CASE LoseInit
    BY <2>3, TailFacts DEF LoseInit
  <2>4. CASE AdoptInit
    <3> DEFINE m == Head(inits)
    <3>1. m \in InitMsg /\ Tail(inits) \in Seq(InitMsg)
      BY <2>4, TailFacts DEF AdoptInit
    <3>2. m.chan \in Channels /\ m.tok \in Tokens
      BY <3>1 DEF InitMsg
    <3>3. Append(toHost, [chan |-> m.chan, type |-> "ready"]) \in Seq(HostMsg)
      BY <3>2, AppendFacts DEF HostMsg
    <3>4. Flushed(m.tok) \in [Calls -> CallState] /\ Send(m.tok, 0) \in CallState
      BY <3>2, FlushedType, CallStates
    <3>5. calls' \in [Calls -> CallState]
      BY <2>4, <3>4 DEF AdoptInit
    <3>6. ModeOf(m.tok) \in Modes
      BY <3>2, ModeType
    <3>7. appMode' \in Modes /\ appRevoked' \in BOOLEAN
      BY <2>4, <3>6 DEF AdoptInit
    <3>8. port' \in Channels /\ token' \in Tokens /\ toHost' \in Seq(HostMsg)
      BY <2>4, <3>2, <3>3 DEF AdoptInit
    <3>9. QED
      BY <2>4, <3>1, <3>5, <3>7, <3>8 DEF AdoptInit
  <2>5. CASE OnToken
    <3> DEFINE m == Head(toGuest)
    <3>1. m \in GuestMsg /\ Tail(toGuest) \in Seq(GuestMsg)
      BY <2>5, TailFacts DEF OnToken
    <3>2. m.tok \in Tokens
      BY <2>5, <3>1 DEF OnToken, GuestMsg
    <3>3. Flushed(m.tok) \in [Calls -> CallState] /\ ModeOf(m.tok) \in Modes
      BY <3>2, FlushedType, ModeType
    <3>4. QED
      BY <2>5, <3>1, <3>2, <3>3 DEF OnToken
  <2>6. CASE OnRevoked
    BY <2>6, TailFacts DEF OnRevoked, Modes
  <2>7. CASE RefreshTimer
    BY <2>7, AppendFacts DEF RefreshTimer, AskRefresh, HostMsg
  <2>8. CASE Reload
    <3>1. reloads' \in 0..MaxReloads
      BY <2>8 DEF Reload
    <3>2. IdleCall \in CallState
      BY CallStates
    <3>3. QED
      BY <1>0, <2>8, <3>1, <3>2 DEF Reload, Modes
  <2>9. ASSUME NEW c \in Calls, StartCall(c)
        PROVE  TypeOK'
    BY <2>9, CallStates DEF StartCall
  <2>10. ASSUME NEW c \in Calls, OnFirst401(c)
         PROVE  TypeOK'
    <3>1. toHost' \in Seq(HostMsg)
      BY <2>10, AppendFacts DEF OnFirst401, AskRefresh, HostMsg
    <3>2. calls' \in [Calls -> CallState]
      BY <2>10 DEF OnFirst401, CallState
    <3>3. QED
      BY <2>10, <3>1, <3>2 DEF OnFirst401
  <2>11. ASSUME NEW c \in Calls, OnSecond401(c)
         PROVE  TypeOK'
    BY <2>11, CallStates DEF OnSecond401, Settled
  <2>12. ASSUME NEW c \in Calls, WaiterTimeout(c)
         PROVE  TypeOK'
    BY <2>12, CallStates DEF WaiterTimeout, Settled
  <2>13. ASSUME NEW ch \in Channels, PostInit(ch)
         PROVE  inits' \in Seq(InitMsg) /\ hostClosed' \in SUBSET Channels
    BY <2>13, AppendFacts DEF PostInit, InitMsg
  <2>14. CASE Keepalive
    BY <2>14, <2>13 DEF Keepalive
  <2>15. CASE OnHello
    BY <2>15, <2>13 DEF OnHello
  <2>16. ASSUME NEW i \in DOMAIN toHost, toHost' = Without(toHost, i)
         PROVE  toHost' \in Seq(HostMsg) /\ toHost[i].chan \in Channels
    <3>1. Without(toHost, i) \in Seq(HostMsg)
      BY WithoutProperties
    <3>2. toHost[i] \in HostMsg
      OBVIOUS
    <3>3. QED
      BY <2>16, <3>1, <3>2 DEF HostMsg
  <2>17. CASE DropClosed
    BY <2>17, <2>16 DEF DropClosed
  <2>18. CASE OnReady
    BY <2>18, <2>16 DEF OnReady
  <2>19. ASSUME NEW ch \in Channels, BeginFetch(ch)
         PROVE  fetches' \in [Fetches -> Fetch]
    BY <2>19 DEF BeginFetch, Fetch
  <2>20. CASE OnRefresh
    BY <2>20, <2>16, <2>19 DEF OnRefresh
  <2>21. CASE ProactiveRefresh
    <3>1. PICK ch \in {hostPort} \cup hostClosed : BeginFetch(ch)
      BY <2>21 DEF ProactiveRefresh
    <3>2. ch \in Channels
      BY <2>21, <3>1 DEF ProactiveRefresh
    <3> QED
      BY <2>21, <2>19, <3>1, <3>2 DEF ProactiveRefresh
  <2>22. ASSUME NEW f \in Fetches, OnAccess(f)
         PROVE  TypeOK'
    <3>1. fetches[f].tok \in Tokens
      \* a fetch that ended "ok" carries a token
      BY <2>22 DEF OnAccess, Fetch
    <3>2. QED
      BY <2>22, <3>1, AppendFacts DEF OnAccess, PostToGuest, GuestMsg, Fetch, IdleFetch
  <2>23. ASSUME NEW f \in Fetches, OnDenied(f)
         PROVE  TypeOK'
    BY <2>23, AppendFacts DEF OnDenied, PostToGuest, GuestMsg, Fetch, IdleFetch
  <2>24. ASSUME NEW f \in Fetches, MintToken(f)
         PROVE  TypeOK'
    <3>1. minted + 1 \in Tokens /\ dead \in 0..(minted + 1)
      BY <2>24 DEF MintToken, Tokens
    <3>2. QED
      BY <2>24, <3>1 DEF MintToken, Fetch
  <2>25. ASSUME NEW f \in Fetches, DenyToken(f)
         PROVE  TypeOK'
    BY <2>25 DEF DenyToken, Fetch
  <2>26. ASSUME NEW f \in Fetches, LoseFetch(f)
         PROVE  TypeOK'
    BY <2>26 DEF LoseFetch, Fetch, IdleFetch
  <2>27. ASSUME NEW c \in Calls, AnswerCall(c)
         PROVE  TypeOK'
    <3>1. calls[c] \in CallState /\ [calls[c] EXCEPT !.st = "401"] \in CallState
      BY DEF CallState
    <3>2. Ended("done") \in CallState
      BY CallStates DEF Settled
    <3>3. QED
      BY <2>27, <3>1, <3>2 DEF AnswerCall
  <2>28. CASE ExpireToken
    BY <2>28 DEF ExpireToken, Tokens
  <2>29. CASE RevokeSession
    BY <2>29 DEF RevokeSession
  <2>30. CASE UNCHANGED vars
    BY <2>30 DEF vars
  <2>31. QED
    BY <2>1, <2>2, <2>3, <2>4, <2>5, <2>6, <2>7, <2>8, <2>9, <2>10, <2>11, <2>12, <2>14, <2>15,
       <2>17, <2>18, <2>20, <2>21, <2>22, <2>23, <2>24, <2>25, <2>26, <2>27, <2>28, <2>29, <2>30
       DEF Next, GuestStep, HostStep, ServerStep
<1>3. QED
  BY <1>1, <1>2, PTL DEF Spec

-----------------------------------------------------------------------------
\* A channel in an init that is still on its way is new to everybody: nobody has
\* adopted, closed or used it, and no other init carries it.
FreshInits ==
  \A i \in DOMAIN inits :
    /\ inits[i].chan \notin hostClosed \cup {port, hostPort}
    /\ \A j \in DOMAIN toHost : toHost[j].chan # inits[i].chan
    /\ \A k \in DOMAIN inits : inits[k].chan = inits[i].chan => k = i

\* A channel is acked once, and its ack is not under way once the host adopted it.
AckOnce ==
  \A i \in DOMAIN toHost :
    toHost[i].type = "ready" =>
      /\ toHost[i].chan # hostPort
      /\ \A j \in DOMAIN toHost :
           toHost[j].type = "ready" /\ toHost[j].chan = toHost[i].chan => j = i

\* The guest's channel is open at the host, and it is the one of the last ack under
\* way or, when no ack is, the one the host has adopted.
LastAck ==
  port # None =>
    /\ port \notin hostClosed
    /\ \/ ~ReadyPending /\ hostPort = port
       \/ \E i \in DOMAIN toHost :
            /\ toHost[i] = [chan |-> port, type |-> "ready"]
            /\ \A j \in DOMAIN toHost : toHost[j].type = "ready" => j <= i

PortsInv == FreshInits /\ AckOnce /\ LastAck

\* Taking a message that is no live ack off the queue disturbs nothing.
LEMMA RemovalKeepsPorts ==
  ASSUME TypeOK, PortsInv, NEW i \in DOMAIN toHost,
         toHost[i].type = "ready" => toHost[i].chan \in hostClosed,
         toHost' = Without(toHost, i),
         UNCHANGED <<port, inits, hostPort, hostClosed>>
  PROVE  PortsInv'
<1> DEFINE old(k) == IF k < i THEN k ELSE k + 1
           new(k) == IF k < i THEN k ELSE k - 1
<1>1. toHost \in Seq(HostMsg) /\ Len(toHost) \in Nat /\ DOMAIN toHost = 1..Len(toHost)
  BY DEF TypeOK
<1>2. /\ toHost' \in Seq(HostMsg)
      /\ DOMAIN toHost' = 1..(Len(toHost) - 1)
      /\ \A k \in DOMAIN toHost' : toHost'[k] = IF k < i THEN toHost[k] ELSE toHost[k + 1]
  <2>1. Len(toHost') = Len(toHost) - 1 /\ toHost' \in Seq(HostMsg)
    BY <1>1, WithoutProperties
  <2>2. DOMAIN toHost' = 1..Len(toHost')
    BY <2>1
  <2>3. QED
    BY <1>1, <2>1, <2>2, WithoutProperties
<1>3. \A k \in DOMAIN toHost' : old(k) \in DOMAIN toHost /\ toHost'[k] = toHost[old(k)]
  BY <1>1, <1>2
<1>4. \A j, k \in DOMAIN toHost' : /\ old(j) = old(k) => j = k
                                   /\ old(j) <= old(k) => j <= k
  BY <1>1, <1>2
<1>5. \A k \in DOMAIN toHost : k # i => new(k) \in DOMAIN toHost' /\ old(new(k)) = k
  BY <1>1, <1>2
<1> HIDE DEF old, new
<1>6. FreshInits'
  BY <1>3 DEF PortsInv, FreshInits
<1>7. AckOnce'
  BY <1>3, <1>4 DEF PortsInv, AckOnce
<1>8. LastAck'
  <2> SUFFICES ASSUME port # None
               PROVE  LastAck'
    BY DEF LastAck
  <2>1. CASE ~ReadyPending /\ hostPort = port
    BY <2>1, <1>3 DEF PortsInv, LastAck, ReadyPending
  <2>2. ASSUME NEW n \in DOMAIN toHost,
               toHost[n] = [chan |-> port, type |-> "ready"],
               \A j \in DOMAIN toHost : toHost[j].type = "ready" => j <= n
        PROVE  LastAck'
    <3>1. n # i
      BY <2>2 DEF PortsInv, LastAck
    <3>2. /\ new(n) \in DOMAIN toHost'
          /\ toHost'[new(n)] = [chan |-> port, type |-> "ready"]
      BY <2>2, <3>1, <1>3, <1>5
    <3>3. \A j \in DOMAIN toHost' : toHost'[j].type = "ready" => j <= new(n)
      BY <2>2, <3>1, <3>2, <1>3, <1>4, <1>5
    <3>4. QED
      BY <3>2, <3>3 DEF PortsInv, LastAck
  <2>3. QED
    BY <2>1, <2>2 DEF PortsInv, LastAck
<1>9. QED
  BY <1>6, <1>7, <1>8 DEF PortsInv

\* Asking for a refresh on the port at hand disturbs nothing.
LEMMA AskKeepsPorts ==
  ASSUME TypeOK, PortsInv, AskRefresh, UNCHANGED <<port, inits, hostPort, hostClosed>>
  PROVE  PortsInv'
<1>1. CASE port = None
  BY <1>1 DEF PortsInv, FreshInits, AckOnce, LastAck, AskRefresh
<1>2. CASE port # None
  <2> DEFINE ask == [chan |-> port, type |-> "refresh"]
  <2>1. ask \in HostMsg /\ ask.chan = port /\ ask.type = "refresh"
    BY <1>2 DEF TypeOK, HostMsg
  <2>2. toHost' = Append(toHost, ask)
    BY <1>2 DEF AskRefresh
  <2> HIDE DEF ask
  <2>3. /\ Len(toHost) \in Nat
        /\ DOMAIN toHost = 1..Len(toHost)
        /\ DOMAIN toHost' = 1..(Len(toHost) + 1)
        /\ toHost'[Len(toHost) + 1] = ask
        /\ \A k \in DOMAIN toHost : toHost'[k] = toHost[k]
    BY <2>1, <2>2, AppendFacts DEF TypeOK
  <2>4. \A k \in DOMAIN toHost' : k \in DOMAIN toHost \/ (k = Len(toHost) + 1 /\ toHost'[k] = ask)
    BY <2>3
  <2>5. FreshInits'
    BY <2>1, <2>3, <2>4 DEF PortsInv, FreshInits
  <2>6. AckOnce'
    BY <2>1, <2>3, <2>4 DEF PortsInv, AckOnce
  <2>7. LastAck'
    <3>1. CASE ~ReadyPending /\ hostPort = port
      BY <3>1, <2>1, <2>3, <2>4 DEF PortsInv, LastAck, ReadyPending
    <3>2. CASE \E i \in DOMAIN toHost :
                 /\ toHost[i] = [chan |-> port, type |-> "ready"]
                 /\ \A j \in DOMAIN toHost : toHost[j].type = "ready" => j <= i
      <4>1. PICK i \in DOMAIN toHost :
                   /\ toHost[i] = [chan |-> port, type |-> "ready"]
                   /\ \A j \in DOMAIN toHost : toHost[j].type = "ready" => j <= i
        BY <3>2
      <4>2. i \in DOMAIN toHost' /\ toHost'[i] = [chan |-> port, type |-> "ready"]
        BY <4>1, <2>3
      <4>3. \A j \in DOMAIN toHost' : toHost'[j].type = "ready" => j <= i
        BY <4>1, <2>1, <2>3, <2>4
      <4>4. QED
        BY <4>2, <4>3 DEF PortsInv, LastAck
    <3>3. QED
      BY <1>2, <3>1, <3>2 DEF PortsInv, LastAck
  <2>8. QED
    BY <2>5, <2>6, <2>7 DEF PortsInv
<1>3. QED
  BY <1>1, <1>2

\* An init posted on a channel that was garbage.
LEMMA PostKeepsPorts ==
  ASSUME TypeOK, PortsInv, NEW ch \in Channels, PostInit(ch), UNCHANGED <<port, toHost, hostPort>>
  PROVE  PortsInv'
<1> DEFINE m == [chan |-> ch, tok |-> hostTok]
<1>1. m \in InitMsg /\ m.chan = ch
  BY DEF TypeOK, InitMsg
<1>2. inits' = Append(inits, m)
  BY DEF PostInit
<1> HIDE DEF m
<1>3. /\ Len(inits) \in Nat
      /\ DOMAIN inits = 1..Len(inits)
      /\ DOMAIN inits' = 1..(Len(inits) + 1)
      /\ inits'[Len(inits) + 1] = m
      /\ \A k \in DOMAIN inits : inits'[k] = inits[k]
  BY <1>1, <1>2, AppendFacts DEF TypeOK
<1>4. \A k \in DOMAIN inits' : k \in DOMAIN inits \/ (k = Len(inits) + 1 /\ inits'[k].chan = ch)
  BY <1>1, <1>3
<1>5. /\ ch \notin {port, hostPort}
      /\ \A j \in DOMAIN toHost : toHost[j].chan # ch
      /\ \A i \in DOMAIN inits : inits[i].chan # ch
      /\ hostClosed' = hostClosed \ {ch}
  BY DEF PostInit, Garbage
<1>6. FreshInits'
  BY <1>1, <1>3, <1>4, <1>5 DEF PortsInv, FreshInits
<1>7. AckOnce' /\ LastAck'
  BY <1>5 DEF PortsInv, AckOnce, LastAck, ReadyPending
<1>8. QED
  BY <1>6, <1>7 DEF PortsInv

\* An init taken off the window's queue and lost.
LEMMA LoseKeepsPorts ==
  ASSUME TypeOK, PortsInv, LoseInit
  PROVE  PortsInv'
<1>1. \A k \in DOMAIN inits' : /\ k + 1 \in DOMAIN inits /\ inits'[k] = inits[k + 1]
                               /\ k \in Nat
  BY TailFacts DEF TypeOK, LoseInit
<1>2. \A j, k \in DOMAIN inits' : j + 1 = k + 1 => j = k
  BY <1>1
<1>3. UNCHANGED <<port, toHost, hostPort, hostClosed>>
  BY DEF LoseInit, guestVars, hostVars
<1>4. FreshInits'
  BY <1>1, <1>2, <1>3 DEF PortsInv, FreshInits
<1>5. AckOnce' /\ LastAck'
  BY <1>3 DEF PortsInv, AckOnce, LastAck, ReadyPending
<1>6. QED
  BY <1>4, <1>5 DEF PortsInv

\* Adopting an init: its channel is fresh, and its ack becomes the last one.
LEMMA AdoptKeepsPorts ==
  ASSUME TypeOK, PortsInv, AdoptInit
  PROVE  PortsInv'
<1> DEFINE m   == Head(inits)
           ack == [chan |-> m.chan, type |-> "ready"]
<1>1. /\ m = inits[1] /\ m \in InitMsg /\ 1 \in DOMAIN inits
      /\ \A k \in DOMAIN inits' : /\ k + 1 \in DOMAIN inits /\ inits'[k] = inits[k + 1]
                                  /\ k \in Nat \ {0}
  BY TailFacts DEF TypeOK, AdoptInit
<1>2. m.chan \in Channels /\ ack \in HostMsg /\ ack.chan = m.chan /\ ack.type = "ready"
  BY <1>1 DEF InitMsg, HostMsg
<1>3. port' = m.chan /\ toHost' = Append(toHost, ack) /\ UNCHANGED <<hostPort, hostClosed>>
  BY DEF AdoptInit, hostVars
<1>4. /\ m.chan \notin hostClosed \cup {port, hostPort}
      /\ \A j \in DOMAIN toHost : toHost[j].chan # m.chan
      /\ \A k \in DOMAIN inits : inits[k].chan = m.chan => k = 1
  BY <1>1 DEF PortsInv, FreshInits
<1> HIDE DEF m
<1>5. /\ Len(toHost) \in Nat
      /\ DOMAIN toHost = 1..Len(toHost)
      /\ DOMAIN toHost' = 1..(Len(toHost) + 1)
      /\ toHost'[Len(toHost) + 1] = ack
      /\ \A k \in DOMAIN toHost : toHost'[k] = toHost[k]
  BY <1>2, <1>3, AppendFacts DEF TypeOK
<1> HIDE DEF ack
<1>6. \A k \in DOMAIN toHost' : k \in DOMAIN toHost \/ (k = Len(toHost) + 1 /\ toHost'[k] = ack)
  BY <1>5
<1>7. FreshInits'
  <2>1. \A k \in DOMAIN inits' : /\ inits'[k].chan # m.chan
                                 /\ inits'[k].chan \notin hostClosed \cup {hostPort}
                                 /\ \A j \in DOMAIN toHost : toHost[j].chan # inits'[k].chan
    BY <1>1, <1>4 DEF PortsInv, FreshInits
  <2>2. \A j, k \in DOMAIN inits' : inits'[j].chan = inits'[k].chan => j = k
    <3>1. \A j, k \in DOMAIN inits' : inits'[j].chan = inits'[k].chan => j + 1 = k + 1
      BY <1>1 DEF PortsInv, FreshInits
    <3>2. QED
      BY <3>1, <1>1
  <2>3. QED
    BY <2>1, <2>2, <1>2, <1>3, <1>5, <1>6 DEF FreshInits
<1>8. AckOnce'
  BY <1>2, <1>3, <1>4, <1>5, <1>6 DEF PortsInv, AckOnce
<1>9. LastAck'
  <2>1. /\ Len(toHost) + 1 \in DOMAIN toHost'
        /\ toHost'[Len(toHost) + 1] = [chan |-> port', type |-> "ready"]
        /\ \A j \in DOMAIN toHost' : j <= Len(toHost) + 1
    BY <1>3, <1>5 DEF ack
  <2>2. port' \notin hostClosed'
    BY <1>3, <1>4
  <2>3. QED
    BY <2>1, <2>2 DEF LastAck
<1>10. QED
  BY <1>7, <1>8, <1>9 DEF PortsInv

\* With ports in order, an ack the host adopts is the first one under way, so the
\* port it closes for it is never the one the guest holds.
LEMMA ReadyKeepsPorts ==
  ASSUME Ordered, TypeOK, PortsInv, OnReady
  PROVE  PortsInv'
<1> DEFINE c == toHost[1].chan
<1>1. /\ toHost \in Seq(HostMsg) /\ 1 \in DOMAIN toHost /\ toHost[1].type = "ready"
      /\ c \notin hostClosed /\ hostPort' = c
      /\ hostClosed' = IF hostPort \notin {None, c} THEN hostClosed \cup {hostPort} ELSE hostClosed
      /\ toHost' = Without(toHost, 1)
      /\ UNCHANGED <<port, inits>>
  BY DEF TypeOK, OnReady, Deliverable, guestVars
<1>2. DOMAIN toHost = 1..Len(toHost) /\ Len(toHost) \in Nat \ {0}
  BY <1>1
<1>3. /\ DOMAIN toHost' = 1..(Len(toHost) - 1)
      /\ \A k \in DOMAIN toHost' : toHost'[k] = toHost[k + 1]
  <2>1. toHost' \in Seq(HostMsg) /\ Len(toHost') = Len(toHost) - 1
    BY <1>1, WithoutProperties
  <2>2. DOMAIN toHost' = 1..(Len(toHost) - 1)
    BY <2>1
  <2>3. \A k \in 1..(Len(toHost) - 1) : toHost'[k] = IF k < 1 THEN toHost[k] ELSE toHost[k + 1]
    BY <1>1, WithoutProperties
  <2>4. QED
    BY <1>2, <2>2, <2>3
<1>4. \A k \in DOMAIN toHost' : k \in Nat \ {0} /\ k + 1 \in DOMAIN toHost /\ k + 1 # 1
  BY <1>2, <1>3
<1>5. \A k \in DOMAIN toHost : k # 1 => k - 1 \in DOMAIN toHost' /\ toHost'[k - 1] = toHost[k]
  BY <1>2, <1>3
<1>6. c # hostPort /\ \A j \in DOMAIN toHost : toHost[j].type = "ready" /\ toHost[j].chan = c => j = 1
  BY <1>1 DEF PortsInv, AckOnce
<1> HIDE DEF c
<1>7. FreshInits'
  <2>1. \A i \in DOMAIN inits : c # inits[i].chan
    BY <1>1 DEF PortsInv, FreshInits, c
  <2>2. QED
    BY <2>1, <1>1, <1>3, <1>4 DEF PortsInv, FreshInits
<1>8. AckOnce'
  <2>1. \A k \in DOMAIN toHost' : toHost'[k].type = "ready" => toHost'[k].chan # c
    BY <1>3, <1>4, <1>6
  <2>2. \A j, k \in DOMAIN toHost' :
           /\ toHost'[k].type = "ready" /\ toHost'[j].type = "ready"
           /\ toHost'[j].chan = toHost'[k].chan
           => j + 1 = k + 1
    BY <1>3, <1>4 DEF PortsInv, AckOnce
  <2>3. QED
    BY <2>1, <2>2, <1>1, <1>4 DEF AckOnce
<1>9. LastAck'
  <2> SUFFICES ASSUME port # None
               PROVE  LastAck'
    BY <1>1 DEF LastAck
  <2>1. PICK n \in DOMAIN toHost :
               /\ toHost[n] = [chan |-> port, type |-> "ready"]
               /\ \A j \in DOMAIN toHost : toHost[j].type = "ready" => j <= n
    BY <1>1 DEF PortsInv, LastAck, ReadyPending
  <2>2. port # hostPort /\ port \notin hostClosed
    BY <2>1 DEF PortsInv, AckOnce, LastAck
  <2>3. port' \notin hostClosed'
    BY <2>2, <1>1
  <2>4. CASE n = 1
    <3>1. \A k \in DOMAIN toHost' : toHost'[k].type # "ready"
      BY <2>1, <2>4, <1>2, <1>3, <1>4
    <3>2. hostPort' = port
      BY <2>1, <2>4, <1>1 DEF c
    <3>3. QED
      BY <2>3, <3>1, <3>2, <1>1 DEF LastAck, ReadyPending
  <2>5. CASE n # 1
    <3>1. n - 1 \in DOMAIN toHost' /\ toHost'[n - 1] = [chan |-> port, type |-> "ready"]
      BY <2>1, <2>5, <1>5
    <3>2. \A j \in DOMAIN toHost' : toHost'[j].type = "ready" => j <= n - 1
      BY <2>1, <1>2, <1>3, <1>4
    <3>3. QED
      BY <2>3, <3>1, <3>2, <1>1 DEF LastAck
  <2>6. QED
    BY <2>4, <2>5
<1>10. QED
  BY <1>7, <1>8, <1>9 DEF PortsInv

\* Newest port wins on both sides, provided that ports deliver in the order sent:
\* no host ever closes the channel its guest holds, and once all acks are in both
\* hold the same one.
THEOREM Convergence ==
  ASSUME Ordered
  PROVE  Spec => []PortsConverge
<1>1. Init => PortsInv
  BY DEF Init, PortsInv, FreshInits, AckOnce, LastAck
<1>2. TypeOK /\ PortsInv /\ [Next]_vars => PortsInv'
  <2> SUFFICES ASSUME TypeOK, PortsInv, [Next]_vars
               PROVE  PortsInv'
    OBVIOUS
  <2>1. ASSUME UNCHANGED <<port, inits, toHost, hostPort, hostClosed>>
        PROVE  PortsInv'
    BY <2>1 DEF PortsInv, FreshInits, AckOnce, LastAck, ReadyPending
  <2> USE DEF guestVars, wireVars, hostVars, serverVars, histVars
  <2>2. CASE LoadSdk \/ SayHello \/ OnToken \/ OnRevoked \/ ExpireToken \/ RevokeSession
             \/ ProactiveRefresh
    BY <2>1, <2>2 DEF LoadSdk, SayHello, OnToken, OnRevoked, ExpireToken, RevokeSession,
                      ProactiveRefresh
  <2>3. ASSUME NEW c \in Calls, StartCall(c) \/ OnSecond401(c) \/ WaiterTimeout(c) \/ AnswerCall(c)
        PROVE  PortsInv'
    BY <2>1, <2>3 DEF StartCall, OnSecond401, WaiterTimeout, AnswerCall
  <2>4. ASSUME NEW f \in Fetches,
               OnAccess(f) \/ OnDenied(f) \/ MintToken(f) \/ DenyToken(f) \/ LoseFetch(f)
        PROVE  PortsInv'
    BY <2>1, <2>4 DEF OnAccess, OnDenied, MintToken, DenyToken, LoseFetch
  <2>5. CASE LoseInit
    BY <2>5, LoseKeepsPorts
  <2>6. CASE AdoptInit
    BY <2>6, AdoptKeepsPorts
  <2>7. CASE RefreshTimer
    BY <2>7, AskKeepsPorts DEF RefreshTimer
  <2>8. ASSUME NEW c \in Calls, OnFirst401(c)
        PROVE  PortsInv'
    BY <2>8, AskKeepsPorts DEF OnFirst401
  <2>9. CASE Reload
    BY <2>9 DEF Reload, PortsInv, FreshInits, AckOnce, LastAck
  <2>10. CASE Keepalive
    BY <2>10, PostKeepsPorts DEF Keepalive
  <2>11. CASE OnHello
    BY <2>11, PostKeepsPorts DEF OnHello
  <2>12. CASE DropClosed
    BY <2>12, RemovalKeepsPorts DEF DropClosed
  <2>13. CASE OnReady
    BY <2>13, ReadyKeepsPorts
  <2>14. CASE OnRefresh
    BY <2>14, RemovalKeepsPorts DEF OnRefresh
  <2>15. CASE UNCHANGED vars
    BY <2>1, <2>15 DEF vars
  <2>16. QED
    BY <2>2, <2>3, <2>4, <2>5, <2>6, <2>7, <2>8, <2>9, <2>10, <2>11, <2>12, <2>13, <2>14, <2>15
       DEF Next, GuestStep, HostStep, ServerStep
<1>3. PortsInv => PortsConverge
  BY DEF PortsInv, LastAck, PortsConverge, ReadyPending
<1>4. QED
  BY <1>1, <1>2, <1>3, TypeCorrect, PTL DEF Spec

-----------------------------------------------------------------------------
\* The mode the app read last is the mode the SDK reports: whether an init, a token
\* or a revocation changed it, the app was told.
THEOREM ModeChangesAnnounced == Spec => []ModeAnnounced
<1>1. Init => ModeAnnounced
  BY DEF Init, ModeAnnounced
<1>2. ModeAnnounced /\ [Next]_vars => ModeAnnounced'
  <2> SUFFICES ASSUME ModeAnnounced, [Next]_vars
               PROVE  ModeAnnounced'
    OBVIOUS
  <2>1. ASSUME UNCHANGED <<port, token, appMode>>
        PROVE  ModeAnnounced'
    BY <2>1 DEF ModeAnnounced, ModeOf
  <2> USE DEF guestVars, wireVars, hostVars, serverVars, histVars
  <2>2. CASE LoadSdk \/ SayHello \/ LoseInit \/ RefreshTimer
    BY <2>1, <2>2 DEF LoadSdk, SayHello, LoseInit, RefreshTimer
  <2>3. CASE AdoptInit
    BY <2>3 DEF AdoptInit, ModeAnnounced, ModeOf
  <2>4. CASE OnToken
    BY <2>4 DEF OnToken, ModeAnnounced, ModeOf
  <2>5. CASE OnRevoked
    BY <2>5 DEF OnRevoked, ModeAnnounced, ModeOf
  <2>6. CASE Reload
    BY <2>6 DEF Reload, ModeAnnounced
  <2>7. ASSUME NEW c \in Calls,
               StartCall(c) \/ OnFirst401(c) \/ OnSecond401(c) \/ WaiterTimeout(c) \/ AnswerCall(c)
        PROVE  ModeAnnounced'
    BY <2>1, <2>7 DEF StartCall, OnFirst401, OnSecond401, WaiterTimeout, AnswerCall
  <2>8. CASE HostStep
    BY <2>1, <2>8 DEF HostStep, Keepalive, OnHello, DropClosed, OnReady, OnRefresh,
                      ProactiveRefresh, OnAccess, OnDenied
  <2>9. ASSUME NEW f \in Fetches, MintToken(f) \/ DenyToken(f) \/ LoseFetch(f)
        PROVE  ModeAnnounced'
    BY <2>1, <2>9 DEF MintToken, DenyToken, LoseFetch
  <2>10. CASE ExpireToken \/ RevokeSession
    BY <2>1, <2>10 DEF ExpireToken, RevokeSession
  <2>11. CASE UNCHANGED vars
    BY <2>1, <2>11 DEF vars
  <2>12. QED
    BY <2>2, <2>3, <2>4, <2>5, <2>6, <2>7, <2>8, <2>9, <2>10, <2>11 DEF Next, GuestStep, ServerStep
<1>3. QED
  BY <1>1, <1>2, PTL DEF Spec

-----------------------------------------------------------------------------
\* What a waiter can hope for: its refresh asked for, being fetched, or answered.
AskedFor == \E i \in DOMAIN toHost : toHost[i] = [chan |-> port, type |-> "refresh"]
Fetched  == \E f \in Fetches : fetches[f].st # "idle" /\ fetches[f].chan = port
Answered == \E i \in DOMAIN toGuest : toGuest[i].type = "token"
Served   == AskedFor \/ Fetched \/ Answered
Waiting  == \E c \in Calls : calls[c].st = "waiting"

\* Nobody waits before the first init, and only a revoked session is denied a token.
WaiterInv ==
  /\ WaiterServed
  /\ port = None => \A c \in Calls : calls[c].st = "idle"
  /\ \A f \in Fetches : fetches[f].st = "revoked" => revoked

LEMMA WaiterServedIff ==
  WaiterServed <=> (Waiting /\ ~revoked /\ ~blip => Served)
BY DEF WaiterServed, Waiting, Served, AskedFor, Fetched, Answered

\* The messages that stay when one is taken out of a queue.
LEMMA OthersStay ==
  ASSUME NEW S, NEW s \in Seq(S), NEW i \in DOMAIN s, NEW j \in DOMAIN s, i # j
  PROVE  \E k \in DOMAIN Without(s, i) : Without(s, i)[k] = s[j]
<1>1. Len(s) \in Nat /\ i \in 1..Len(s) /\ j \in 1..Len(s)
  OBVIOUS
<1>2. /\ DOMAIN Without(s, i) = 1..(Len(s) - 1)
      /\ \A k \in 1..(Len(s) - 1) : Without(s, i)[k] = IF k < i THEN s[k] ELSE s[k + 1]
  BY WithoutProperties
<1>3. CASE j < i
  BY <1>1, <1>2, <1>3
<1>4. CASE j > i
  <2>1. j - 1 \in 1..(Len(s) - 1) /\ ~(j - 1 < i) /\ (j - 1) + 1 = j
    BY <1>1, <1>4
  <2> QED
    BY <1>2, <2>1
<1> QED
  BY <1>1, <1>3, <1>4

\* A message of the host's queue but a refresh on the guest's port may go.
LEMMA RemovalKeepsHope ==
  ASSUME TypeOK, NEW i \in DOMAIN toHost, toHost' = Without(toHost, i),
         toHost[i] # [chan |-> port, type |-> "refresh"], UNCHANGED <<port, toGuest>>,
         Fetched => Fetched'
  PROVE  Served => Served'
<1>1. ASSUME NEW j \in DOMAIN toHost, toHost[j] = [chan |-> port, type |-> "refresh"]
      PROVE  AskedFor'
  <2>1. i # j /\ toHost \in Seq(HostMsg)
    BY <1>1 DEF TypeOK
  <2>2. \E k \in DOMAIN toHost' : toHost'[k] = toHost[j]
    BY <2>1, OthersStay
  <2> QED
    BY <1>1, <2>2 DEF AskedFor
<1> QED
  BY <1>1 DEF Served, AskedFor, Answered

\* What is added to the host's queue takes nothing away.
LEMMA AskKeepsHope ==
  ASSUME TypeOK, AskRefresh, UNCHANGED <<port, fetches, toGuest>>
  PROVE  /\ Served => Served'
         /\ port # None => Served'
<1>1. CASE port = None
  BY <1>1 DEF AskRefresh, Served, AskedFor, Fetched, Answered
<1>2. CASE port # None
  <2> DEFINE ask == [chan |-> port, type |-> "refresh"]
  <2>1. ask \in HostMsg
    BY <1>2 DEF TypeOK, HostMsg
  <2>2. toHost' = Append(toHost, ask)
    BY <1>2 DEF AskRefresh
  <2>3. Len(toHost) + 1 \in DOMAIN toHost' /\ toHost'[Len(toHost) + 1] = ask
    BY <2>1, <2>2, AppendFacts DEF TypeOK
  <2> QED
    BY <2>3 DEF Served, AskedFor
<1> QED
  BY <1>1, <1>2

\* A flush leaves nobody waiting, as long as there is a token.
LEMMA FlushEndsWaiting ==
  ASSUME TypeOK, NEW t \in Tokens, NEW c \in Calls
  PROVE  /\ Flushed(t)[c].st # "waiting"
         /\ Flushed(t)[c].st = "idle" => calls[c].st = "idle"
<1>1. t # 0
  BY DEF Tokens
<1> QED
  BY <1>1 DEF Flushed, Send, TypeOK, CallState

\* No wakeup is lost: a call that waits for a token has its refresh under way on the port the
\* guest holds, as long as the session lives and no token request has failed; whichever of
\* inits, reloads and late answers comes between. The port must not be closed by the host.
THEOREM WaitersAreServed ==
  ASSUME Ordered
  PROVE  Spec => []WaiterServed
<1>1. Init => WaiterInv
  BY DEF Init, WaiterInv, WaiterServed, IdleCall, IdleFetch
<1>2. TypeOK /\ TypeOK' /\ PortsConverge /\ WaiterInv /\ [Next]_vars => WaiterInv'
  <2> SUFFICES ASSUME TypeOK, TypeOK', PortsConverge, WaiterInv, [Next]_vars
               PROVE  WaiterInv'
    OBVIOUS
  <2> USE DEF guestVars, wireVars, hostVars, serverVars, histVars
  \* Steps that start no wait and end no hope.
  <2>1. ASSUME Waiting' /\ ~revoked' /\ ~blip' => (Waiting /\ ~revoked /\ ~blip /\ (Served => Served')) \/ Served',
               port' = None => \A c \in Calls : calls'[c].st = "idle",
               \A f \in Fetches : fetches'[f].st = "revoked" => revoked'
        PROVE  WaiterInv'
    <3>1. (Waiting /\ ~revoked /\ ~blip => Served) /\ (Waiting' /\ ~revoked' /\ ~blip' => Served')
      BY <2>1, WaiterServedIff DEF WaiterInv
    <3>2. WaiterServed'
      BY <3>1 DEF WaiterServed, Waiting, Served, AskedFor, Fetched, Answered
    <3> QED
      BY <2>1, <3>2 DEF WaiterInv
  <2>2. ASSUME UNCHANGED <<port, toHost, toGuest, fetches, revoked, blip>>,
               \A c \in Calls : calls'[c].st = "waiting" => calls[c].st = "waiting",
               port = None => \A c \in Calls : calls'[c].st = "idle"
        PROVE  WaiterInv'
    BY <2>1, <2>2 DEF WaiterInv, Waiting, Served, AskedFor, Fetched, Answered
  <2>3. CASE LoadSdk \/ SayHello \/ LoseInit \/ ExpireToken \/ Keepalive \/ OnHello \/ UNCHANGED vars
    <3>1. UNCHANGED <<port, toHost, toGuest, fetches, revoked, blip, calls>>
      BY <2>3 DEF LoadSdk, SayHello, LoseInit, ExpireToken, Keepalive, OnHello, PostInit, vars
    <3> QED
      BY <2>2, <3>1 DEF WaiterInv
  <2>4. CASE RevokeSession
    BY <2>1, <2>4 DEF RevokeSession, WaiterInv
  <2>5. CASE AdoptInit
    <3> DEFINE m == Head(inits)
               freed == IF port # None THEN Flushed(m.tok) ELSE calls
    <3>1. m.tok \in Tokens /\ m.chan \in Channels
      <4>1. inits # <<>> /\ inits \in Seq(InitMsg)
        BY <2>5 DEF AdoptInit, TypeOK
      <4>2. Head(inits) \in InitMsg
        BY <4>1, TailFacts
      <4> QED
        BY <4>2 DEF InitMsg
    <3>2. \A c \in Calls : freed[c].st # "waiting"
      BY <3>1, FlushEndsWaiting DEF WaiterInv
    <3>3. Send(m.tok, 0).st = "sent"
      BY <3>1 DEF Send, Tokens
    <3>4. /\ calls' = IF calls[Me].st = "idle" THEN [freed EXCEPT ![Me] = Send(m.tok, 0)] ELSE freed
          /\ port' = m.chan /\ UNCHANGED <<fetches, revoked>>
      BY <2>5 DEF AdoptInit
    <3>5. freed \in [Calls -> CallState]
      BY <3>1, FlushedType DEF TypeOK
    <3> HIDE DEF freed
    <3>6. \A c \in Calls : calls'[c].st # "waiting"
      BY <3>2, <3>3, <3>4, <3>5
    <3>7. port' # None
      BY <3>1, <3>4, SessionAssumption
    <3> QED
      BY <2>1, <3>4, <3>6, <3>7 DEF Waiting, WaiterInv
  <2>6. CASE OnToken
    <3> DEFINE t == Head(toGuest).tok
    <3>1. t \in Tokens /\ calls' = Flushed(t) /\ UNCHANGED <<port, fetches, revoked>>
      BY <2>6, TailFacts DEF OnToken, TypeOK, GuestMsg
    <3>2. \A c \in Calls : calls'[c].st # "waiting" /\ (calls[c].st = "idle" => calls'[c].st = "idle")
      BY <3>1, FlushEndsWaiting DEF Flushed
    <3> QED
      BY <2>1, <3>1, <3>2 DEF Waiting, WaiterInv
  <2>7. CASE OnRevoked
    <3>1. Answered => Answered'
      <4> SUFFICES ASSUME NEW i \in DOMAIN toGuest, toGuest[i].type = "token"
                   PROVE  Answered'
        BY DEF Answered
      <4>1. /\ toGuest' = Tail(toGuest) /\ toGuest[1].type # "token"
            /\ Len(toGuest) \in Nat /\ i \in 1..Len(toGuest)
        BY <2>7, TailFacts DEF OnRevoked, TypeOK
      <4>2. i - 1 \in 1..(Len(toGuest) - 1) /\ (i - 1) + 1 = i
        BY <4>1
      <4>3. i - 1 \in DOMAIN toGuest' /\ toGuest'[i - 1] = toGuest[i]
        BY <2>7, <4>1, <4>2, TailFacts DEF TypeOK, OnRevoked
      <4> QED
        BY <4>3 DEF Answered
    <3>2. UNCHANGED <<port, toHost, fetches, revoked, blip, calls>>
      BY <2>7 DEF OnRevoked
    <3> QED
      BY <2>1, <3>1, <3>2 DEF WaiterInv, Waiting, Served, AskedFor, Fetched
  <2>8. CASE RefreshTimer
    <3>1. (Served => Served') /\ UNCHANGED <<port, fetches, revoked, blip, calls>>
      BY <2>8, AskKeepsHope DEF RefreshTimer
    <3> QED
      BY <2>1, <3>1 DEF WaiterInv, Waiting
  <2>9. CASE Reload
    <3>1. \A c \in Calls : calls'[c].st = "idle"
      BY <2>9 DEF Reload, IdleCall
    <3> QED
      BY <2>1, <2>9, <3>1 DEF Reload, WaiterInv, Waiting
  <2>10. ASSUME NEW c \in Calls, StartCall(c) \/ OnSecond401(c) \/ WaiterTimeout(c) \/ AnswerCall(c)
         PROVE  WaiterInv'
    <3>1. UNCHANGED <<port, toHost, toGuest, fetches, revoked, blip>>
      BY <2>10 DEF StartCall, OnSecond401, WaiterTimeout, AnswerCall
    <3>2. port # None
      BY <2>10, SessionAssumption DEF StartCall, OnSecond401, WaiterTimeout, AnswerCall, WaiterInv
    <3>3. PICK x : x.st # "waiting" /\ calls' = [calls EXCEPT ![c] = x]
      <4>1. CASE StartCall(c)
        <5>1. Send(token, 0).st # "waiting"
          BY DEF Send, Ended
        <5> QED
          BY <4>1, <5>1 DEF StartCall
      <4>2. CASE OnSecond401(c) \/ WaiterTimeout(c)
        <5>1. Ended("revoked").st # "waiting" /\ Ended("no-token").st # "waiting"
          BY DEF Ended
        <5> QED
          BY <4>2, <5>1 DEF OnSecond401, WaiterTimeout
      <4>3. CASE AnswerCall(c)
        <5> DEFINE y == IF Valid(calls[c].tok) THEN Ended("done") ELSE [calls[c] EXCEPT !.st = "401"]
        <5>1. calls \in [Calls -> CallState] /\ calls' = [calls EXCEPT ![c] = y]
          BY <4>3 DEF AnswerCall, TypeOK
        <5>2. y.st # "waiting"
          BY <5>1 DEF Ended, CallState
        <5> QED
          BY <5>1, <5>2
      <4> QED
        BY <2>10, <4>1, <4>2, <4>3
    <3>4. \A d \in Calls : calls'[d] = IF d = c THEN x ELSE calls[d]
      BY <3>3 DEF TypeOK
    <3>5. \A d \in Calls : calls'[d].st = "waiting" => calls[d].st = "waiting"
      BY <3>3, <3>4
    <3> QED
      BY <2>2, <3>1, <3>2, <3>5
  <2>11. ASSUME NEW c \in Calls, OnFirst401(c)
         PROVE  WaiterInv'
    <3>1. port # None
      BY <2>11 DEF OnFirst401, WaiterInv
    <3>2. Served' /\ UNCHANGED <<port, fetches, revoked>>
      BY <2>11, <3>1, AskKeepsHope DEF OnFirst401
    <3> QED
      BY <2>1, <3>1, <3>2 DEF WaiterInv
  <2>12. CASE DropClosed
    <3>1. PICK i \in DOMAIN toHost : toHost[i].chan \in hostClosed /\ toHost' = Without(toHost, i)
      BY <2>12 DEF DropClosed
    <3>2. UNCHANGED <<port, toGuest, fetches, revoked, blip, calls>>
      BY <2>12 DEF DropClosed
    <3>3. port # None => toHost[i] # [chan |-> port, type |-> "refresh"]
      BY <3>1 DEF PortsConverge
    <3>4. port # None => (Served => Served')
      BY <3>1, <3>2, <3>3, RemovalKeepsHope DEF Fetched
    <3> QED
      BY <2>1, <3>2, <3>4 DEF WaiterInv, Waiting
  <2>13. CASE OnReady
    <3>1. PICK i \in DOMAIN toHost : toHost[i].type = "ready" /\ toHost' = Without(toHost, i)
      BY <2>13 DEF OnReady
    <3>2. UNCHANGED <<port, toGuest, fetches, revoked, blip, calls>>
      BY <2>13 DEF OnReady
    <3>3. Served => Served'
      BY <3>1, <3>2, RemovalKeepsHope DEF Fetched
    <3> QED
      BY <2>1, <3>2, <3>3 DEF WaiterInv, Waiting
  <2>14. ASSUME NEW ch \in Channels, BeginFetch(ch), port' = port
         PROVE  /\ Fetched => Fetched'
                /\ ch = port => Fetched'
                /\ \A f \in Fetches : fetches'[f].st = "revoked" => fetches[f].st = "revoked"
    BY <2>14 DEF BeginFetch, Fetched, TypeOK
  <2>15. CASE OnRefresh
    <3>1. PICK i \in DOMAIN toHost : BeginFetch(toHost[i].chan) /\ toHost' = Without(toHost, i)
      BY <2>15 DEF OnRefresh
    <3>2. UNCHANGED <<port, toGuest, revoked, blip, calls>> /\ toHost[i].chan \in Channels
      <4>1. toHost[i] \in HostMsg
        BY DEF TypeOK
      <4> QED
        BY <2>15, <4>1 DEF OnRefresh, HostMsg
    <3>3. Served => Served'
      BY <2>14, <3>1, <3>2, RemovalKeepsHope DEF Served
    <3> QED
      BY <2>1, <2>14, <3>1, <3>2, <3>3 DEF WaiterInv, Waiting
  <2>16. CASE ProactiveRefresh
    <3>1. PICK ch \in Channels :
            BeginFetch(ch) /\ UNCHANGED <<port, toHost, toGuest, revoked, blip, calls>>
      BY <2>16 DEF ProactiveRefresh, TypeOK
    <3>2. Served => Served'
      BY <2>14, <3>1 DEF Served, AskedFor, Answered
    <3> QED
      BY <2>1, <2>14, <3>1, <3>2 DEF WaiterInv, Waiting
  <2>17. ASSUME NEW f \in Fetches, NEW m \in GuestMsg, PostToGuest(fetches[f].chan, m),
                fetches' = [fetches EXCEPT ![f] = IdleFetch],
                UNCHANGED <<port, toHost, revoked, blip, calls>>,
                fetches[f].chan = port /\ port # None => m.type = "token" \/ revoked
         PROVE  WaiterInv'
    <3>1. \A g \in Fetches : fetches'[g] = IF g = f THEN IdleFetch ELSE fetches[g]
      BY <2>17 DEF TypeOK
    <3>2. Answered => Answered'
      <4>1. CASE toGuest' = toGuest
        BY <4>1 DEF Answered
      <4>2. CASE toGuest' = Append(toGuest, m)
        <5>1. \A i \in DOMAIN toGuest : i \in DOMAIN toGuest' /\ toGuest'[i] = toGuest[i]
          BY <4>2, AppendFacts DEF TypeOK
        <5> QED
          BY <5>1 DEF Answered
      <4> QED
        BY <2>17, <4>1, <4>2 DEF PostToGuest
    <3>3. fetches[f].chan = port /\ port # None /\ ~revoked => Answered'
      <4>1. SUFFICES ASSUME fetches[f].chan = port, port # None, ~revoked PROVE Answered'
        OBVIOUS
      <4>2. toGuest' = Append(toGuest, m) /\ m.type = "token"
        BY <2>17, <4>1 DEF PostToGuest, PortsConverge
      <4>3. Len(toGuest) + 1 \in DOMAIN toGuest' /\ toGuest'[Len(toGuest) + 1] = m
        BY <4>2, AppendFacts DEF TypeOK
      <4> QED
        BY <4>2, <4>3 DEF Answered
    <3>4. port # None /\ ~revoked => (Served => Served')
      BY <2>17, <3>1, <3>2, <3>3 DEF Served, AskedFor, Fetched
    <3>5. Waiting => port # None
      BY DEF WaiterInv, Waiting
    <3>6. \A g \in Fetches : fetches'[g].st = "revoked" => revoked'
      BY <2>17, <3>1 DEF WaiterInv, IdleFetch
    <3> QED
      BY <2>1, <2>17, <3>4, <3>5, <3>6 DEF WaiterInv, Waiting
  <2>18. ASSUME NEW f \in Fetches, OnAccess(f)
         PROVE  WaiterInv'
    <3>1. [type |-> "token", tok |-> fetches[f].tok] \in GuestMsg
      BY <2>18 DEF OnAccess, TypeOK, Fetch, GuestMsg
    <3> QED
      BY <2>17, <2>18, <3>1 DEF OnAccess
  <2>19. ASSUME NEW f \in Fetches, OnDenied(f)
         PROVE  WaiterInv'
    <3>1. [type |-> "revoked", tok |-> 0] \in GuestMsg /\ revoked
      BY <2>19 DEF OnDenied, GuestMsg, WaiterInv
    <3> QED
      BY <2>17, <2>19, <3>1 DEF OnDenied
  <2>20. ASSUME NEW f \in Fetches, MintToken(f) \/ DenyToken(f)
         PROVE  WaiterInv'
    <3>1. /\ UNCHANGED <<port, toHost, toGuest, revoked, blip, calls>>
          /\ \A g \in Fetches : fetches'[g].chan = fetches[g].chan
          /\ \A g \in Fetches : fetches[g].st # "idle" => fetches'[g].st # "idle"
          /\ \A g \in Fetches : fetches'[g].st = "revoked" => fetches[g].st = "revoked" \/ revoked
      <4>1. UNCHANGED <<port, toHost, toGuest, revoked, blip, calls>>
        BY <2>20 DEF MintToken, DenyToken
      <4>2. \A g \in Fetches : g # f => fetches'[g] = fetches[g]
        BY <2>20 DEF MintToken, DenyToken, TypeOK
      <4>3. fetches[f] \in Fetch /\ fetches[f].st = "sent"
        BY <2>20 DEF MintToken, DenyToken, TypeOK
      <4>4. CASE MintToken(f)
        <5>1. fetches'[f] = [fetches[f] EXCEPT !.st = "ok", !.tok = minted + 1]
          BY <4>4 DEF MintToken, TypeOK
        <5>2. fetches'[f].chan = fetches[f].chan /\ fetches'[f].st = "ok"
          BY <4>3, <5>1 DEF Fetch
        <5> QED
          BY <4>1, <4>2, <5>2
      <4>5. CASE DenyToken(f)
        <5>1. fetches'[f] = [fetches[f] EXCEPT !.st = "revoked"] /\ revoked
          BY <4>5 DEF DenyToken, TypeOK
        <5>2. fetches'[f].chan = fetches[f].chan /\ fetches'[f].st = "revoked"
          BY <4>3, <5>1 DEF Fetch
        <5> QED
          BY <4>1, <4>2, <5>1, <5>2
      <4> QED
        BY <2>20, <4>4, <4>5
    <3> QED
      BY <2>1, <3>1 DEF WaiterInv, Waiting, Served, AskedFor, Fetched, Answered
  <2>21. ASSUME NEW f \in Fetches, LoseFetch(f)
         PROVE  WaiterInv'
    <3>1. \A g \in Fetches : fetches'[g].st = "revoked" => fetches[g].st = "revoked"
      BY <2>21 DEF LoseFetch, IdleFetch, TypeOK
    <3> QED
      BY <2>1, <2>21, <3>1 DEF LoseFetch, WaiterInv
  <2>22. QED
    BY <2>3, <2>4, <2>5, <2>6, <2>7, <2>8, <2>9, <2>10, <2>11, <2>12, <2>13, <2>15, <2>16, <2>18,
       <2>19, <2>20, <2>21 DEF Next, GuestStep, HostStep, ServerStep
<1>3. WaiterInv => WaiterServed
  BY DEF WaiterInv
<1>4. QED
  BY <1>1, <1>2, <1>3, TypeCorrect, Convergence, PTL DEF Spec
=============================================================================
