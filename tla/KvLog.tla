-------------------------------- MODULE KvLog --------------------------------
(***************************************************************************)
(* What the key-value store promises, without wires, files or caches: every *)
(* client makes mutations in an order of its own; the store takes them in   *)
(* that order, each exactly once, in batches that take effect as a whole;   *)
(* and a client only counts a mutation as confirmed once the store has it.  *)
(***************************************************************************)
EXTENDS Integers, Sequences, FiniteSetsExt

CONSTANTS
  Clients,    \* the app's client ids
  Keys,       \* the store's keys
  Writable,   \* the keys the write policy lets the viewer set and delete
  NoEntry     \* the key has no entry

Mutation == [key : Keys, op : {"set", "del"}]
Entry    == [by : Clients, id : Nat]

VARIABLES
  made,       \* made[c]: the mutations client c has made, in order
  entries,    \* the store's contents; an entry names the mutation that set it
  taken,      \* taken[c]: how many of c's mutations the store has taken
  confirmed   \* confirmed[c]: how many of them c knows the store has

logVars == <<made, entries, taken, confirmed>>

\* Contents e after mutations lo+1..hi of client c, in order: the last one that
\* touches a key decides.
Applied(e, m, c, lo, hi) ==
  [k \in Keys |->
     LET touch == {i \in (lo + 1)..hi : m[c][i].key = k} IN
     IF touch = {} THEN e[k]
     ELSE IF m[c][Max(touch)].op = "set" THEN [by |-> c, id |-> Max(touch)] ELSE NoEntry]

LogInit ==
  /\ made = [c \in Clients |-> <<>>]
  /\ entries = [k \in Keys |-> NoEntry]
  /\ taken = [c \in Clients |-> 0]
  /\ confirmed = [c \in Clients |-> 0]

Make(c) ==
  /\ \E m \in Mutation : made' = [made EXCEPT ![c] = Append(@, m)]
  /\ UNCHANGED <<entries, taken, confirmed>>

Take(c) ==
  /\ \E hi \in (taken[c] + 1)..Len(made[c]) :
       /\ \A i \in (taken[c] + 1)..hi : made[c][i].key \in Writable
       /\ entries' = Applied(entries, made, c, taken[c], hi)
       /\ taken' = [taken EXCEPT ![c] = hi]
  /\ UNCHANGED <<made, confirmed>>

Confirm(c) ==
  /\ \E n \in (confirmed[c] + 1)..taken[c] : confirmed' = [confirmed EXCEPT ![c] = n]
  /\ UNCHANGED <<made, entries, taken>>

LogNext == \E c \in Clients : Make(c) \/ Take(c) \/ Confirm(c)

LogSpec == LogInit /\ [][LogNext]_logVars
==============================================================================
