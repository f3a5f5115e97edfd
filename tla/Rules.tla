-------------------------------- MODULE Rules --------------------------------
(***************************************************************************)
(* Two decisions of the development server that look at nothing but their  *)
(* arguments (src/src/sandbox/runtime.ts): whether the app's key-value     *)
(* policy allows an operation, and which bytes of a file a Range header    *)
(* asks for.  An input is chosen at the start and decided upon in one      *)
(* step; the properties compare the decision with what it should mean.     *)
(*                                                                         *)
(* A key is a sequence of segments and so is a key pattern.  A stored      *)
(* value is a leaf or an object that has further values under its members. *)
(***************************************************************************)
EXTENDS Integers, Sequences, SequencesExt

CONSTANTS
  Manifests,  \* policies: a mode, and rules of the app's own; None, if there is no policy file
  Keys,       \* keys
  Records,    \* records an entry may hold or get: author and value
  Viewer,     \* the viewer's member id
  Sizes,      \* lengths of files
  Numbers,    \* numbers in Range headers
  MaxSafe,    \* Number.MAX_SAFE_INTEGER
  None        \* no record; no number; no owner

VARIABLES input, verdict

vars == <<input, verdict>>

Actions == {"read", "create", "update", "delete", "sync"}
Roles == {"reader", "writer", "editor", "admin"}
PolicyRoles == {"guest", "user", "admin", "owner"}
Wild == {"*", "**", "{memberId}"}

Leaf(x) == [leaf |-> TRUE, is |-> x]
Object(members) == [leaf |-> FALSE, at |-> members]
Undefined == Leaf("undefined")

-----------------------------------------------------------------------------
(* The key-value policy.                                                   *)

PolicyRole(role) ==
  CASE role = "reader" -> "guest" [] role = "writer" -> "user"
    [] role = "editor" -> "admin" [] role = "admin" -> "owner"

Rule(actions, roles, key) == [actions |-> actions, roles |-> roles, key |-> key, owner |-> None]

PresetModes == {"shared_group_data", "owner_private", "group_read_admin_write", "governed"}
PresetKvRules(mode) ==
  LET members == {"user", "admin", "owner"}
      guestRead == Rule({"read", "sync"}, {"guest"}, <<"**">>)
  IN  CASE mode = "shared_group_data" ->
             {Rule(Actions, members, <<"**">>), guestRead}
        [] mode = "owner_private" ->
             {Rule(Actions, members, <<"private", "{memberId}", "**">>)}
        [] mode \in {"group_read_admin_write", "governed"} ->
             {Rule({"read", "sync"}, members, <<"**">>),
              Rule({"create", "update", "delete"}, {"admin", "owner"}, <<"**">>), guestRead}

\* A rule that validateKvPolicy() takes.
ValidRule(rule) ==
  /\ rule.actions # {} /\ rule.actions \subseteq Actions
  /\ rule.roles # {} /\ rule.roles \subseteq PolicyRoles
  /\ rule.key # <<>>
  /\ \A i \in 1..Len(rule.key) :
       /\ rule.key[i] \notin {"", ".", ".."}
       /\ rule.key[i] = "**" => i = Len(rule.key)

\* validateKvPolicy(): the rules of a manifest; a preset has none of its own.
Preset(manifest) == manifest # None /\ manifest.mode \notin {None, "advanced"}
ValidManifest(manifest) ==
  CASE manifest = None -> TRUE
    [] Preset(manifest) -> manifest.rules = {}
    [] OTHER -> \A rule \in manifest.rules : ValidRule(rule)
RulesOf(manifest) ==
  CASE manifest = None -> None
    [] Preset(manifest) -> PresetKvRules(manifest.mode)
    [] OTHER -> manifest.rules

\* keyMatches(): segment by segment, up to the first "**".
KeyMatches(pattern, key, member) ==
  LET matches[i \in 1..Len(pattern) + 1] ==
        IF i > Len(pattern) THEN Len(key) = Len(pattern)
        ELSE IF pattern[i] = "**" THEN TRUE
        ELSE IF i > Len(key) THEN FALSE
        ELSE /\ \/ pattern[i] = "*"
                \/ pattern[i] = "{memberId}" /\ key[i] = member
                \/ pattern[i] \notin Wild /\ pattern[i] = key[i]
             /\ matches[i + 1]
  IN  matches[1]

JsonPointer(value, pointer) ==
  FoldLeft(LAMBDA v, segment :
             IF ~v.leaf /\ segment \in DOMAIN v.at THEN v.at[segment] ELSE Undefined,
           value, pointer)

\* Mutant: an update looks at the record as it is.
OwnerMatchesBefore(owner, action, current, proposed) ==
  LET RecordMatches(record) ==
        /\ record # None
        /\ IF owner.source = "entryAuthor" THEN record.author = Viewer
           ELSE JsonPointer(record.value, owner.pointer) = Leaf(Viewer)
  IN  \/ owner = None
      \/ action = "create" /\ RecordMatches(proposed)
      \/ action = "update" /\ RecordMatches(current)
      \/ action \notin {"create", "update"} /\ RecordMatches(current)

OwnerMatches(owner, action, current, proposed) ==
  LET RecordMatches(record) ==
        /\ record # None
        /\ IF owner.source = "entryAuthor" THEN record.author = Viewer
           ELSE JsonPointer(record.value, owner.pointer) = Leaf(Viewer)
  IN  \/ owner = None
      \/ action = "create" /\ RecordMatches(proposed)
      \/ action = "update" /\ RecordMatches(current) /\ RecordMatches(proposed)
      \/ action \notin {"create", "update"} /\ RecordMatches(current)

\* Without a policy everything is allowed.
KvPolicyAllows(rules, action, key, role, current, proposed) ==
  \/ rules = None
  \/ \E rule \in rules :
       /\ action \in rule.actions
       /\ PolicyRole(role) \in rule.roles
       /\ KeyMatches(rule.key, key, Viewer)
       /\ OwnerMatches(rule.owner, action, current, proposed)

-----------------------------------------------------------------------------
(* Byte ranges.                                                            *)

Send(start, end) == [is |-> "range", start |-> start, end |-> end]
NoRange == [is |-> "unsatisfiable"]

\* ~Number.isSafeInteger()
Unsafe(number) == number # None /\ number > MaxSafe

\* Mutant: the last byte is clamped to the size.
ParseByteRangePast(first, last, size) ==
  LET smaller(a, b) == IF a < b THEN a ELSE b
      larger(a, b) == IF a > b THEN a ELSE b
      requested == IF last = None THEN size - 1 ELSE last
      hopeless == size = 0 \/ Unsafe(first) \/ Unsafe(last)
  IN  CASE hopeless -> NoRange
        [] ~hopeless /\ first = None ->
             IF last = None \/ last = 0 THEN NoRange
             ELSE Send(larger(size - last, 0), size - 1)
        [] OTHER ->
             IF first >= size \/ requested < first THEN NoRange
             ELSE Send(first, smaller(requested, size))

\* parseByteRange("bytes=first-last")
ParseByteRange(first, last, size) ==
  LET smaller(a, b) == IF a < b THEN a ELSE b
      larger(a, b) == IF a > b THEN a ELSE b
      requested == IF last = None THEN size - 1 ELSE last
      hopeless == size = 0 \/ Unsafe(first) \/ Unsafe(last)
  IN  CASE hopeless -> NoRange
        [] ~hopeless /\ first = None ->
             IF last = None \/ last = 0 THEN NoRange
             ELSE Send(larger(size - last, 0), size - 1)
        [] OTHER ->
             IF first >= size \/ requested < first THEN NoRange
             ELSE Send(first, smaller(requested, size - 1))

-----------------------------------------------------------------------------
Open == [is |-> "open"]
Questions ==
  [manifest : Manifests, role : Roles, action : Actions, key : Keys,
   current : Records \cup {None}, proposed : Records \cup {None}]
Ranges == [first : Numbers \cup {None}, last : Numbers \cup {None}, size : Sizes]

InitWith(question) == input = question /\ verdict = Open

Init == \E question \in Questions \cup Ranges : InitWith(question)

IsRange == "size" \in DOMAIN input

\* The server starts only with a policy that is valid, and asks it for each operation.
AskPolicy ==
  /\ verdict = Open /\ ~IsRange
  /\ verdict' =
       [is |-> IF ~ValidManifest(input.manifest) THEN "invalid"
               ELSE IF KvPolicyAllows(RulesOf(input.manifest), input.action, input.key, input.role,
                                      input.current, input.proposed)
               THEN "allowed" ELSE "denied"]
  /\ UNCHANGED input

AskRange ==
  /\ verdict = Open /\ IsRange
  /\ verdict' = ParseByteRange(input.first, input.last, input.size)
  /\ UNCHANGED input

Next == AskPolicy \/ AskRange
Spec == Init /\ [][Next]_vars

-----------------------------------------------------------------------------
\* Every variable keeps its type.
TypeOK ==
  /\ input \in Questions \cup Ranges
  /\ IF IsRange
     THEN verdict \in {Open, NoRange} \cup [is : {"range"}, start : Nat, end : Nat]
     ELSE verdict \in [is : {"open", "invalid", "allowed", "denied"}]

\* What a pattern means: a trailing "**" stands for any segments, none included, and every other
\* segment for one.
Means(pattern, key) ==
  LET unbounded == pattern # <<>> /\ Last(pattern) = "**"
      n == IF unbounded THEN Len(pattern) - 1 ELSE Len(pattern)
  IN  /\ IF unbounded THEN Len(key) >= n ELSE Len(key) = n
      /\ \A i \in 1..n : pattern[i] \in {"*", IF key[i] = Viewer THEN "{memberId}" ELSE key[i], key[i]}

\* The allowed operations are those of the documented presets, and of the app's rules as they read:
\* a private key is its member's alone, a guest writes nothing under a preset, nobody writes what
\* they may not read under one, and no update moves a record from one owner to another through a
\* rule about owners.
PolicyRight ==
  verdict.is \in {"allowed", "denied"} =>
    LET allowed == verdict.is = "allowed"
        rules == RulesOf(input.manifest)
        member == input.role # "reader"
        reading == input.action \in {"read", "sync"}
    IN  IF input.manifest = None THEN allowed ELSE
        CASE input.manifest.mode = "shared_group_data" ->
               allowed <=> member \/ reading
          [] input.manifest.mode = "owner_private" ->
               allowed <=>
                 member /\ Len(input.key) >= 2 /\ input.key[1] = "private" /\ input.key[2] = Viewer
          [] input.manifest.mode \in {"group_read_admin_write", "governed"} ->
               allowed <=> reading \/ input.role \in {"editor", "admin"}
          [] OTHER ->
               /\ allowed =>
                    \E rule \in rules : Means(rule.key, input.key) /\ input.action \in rule.actions
               /\ allowed /\ input.action = "update"
                    /\ (\A rule \in rules : rule.owner # None /\ rule.owner.source = "jsonPointer") =>
                    \E rule \in rules :
                      /\ input.current # None /\ input.proposed # None
                      /\ JsonPointer(input.current.value, rule.owner.pointer) = Leaf(Viewer)
                      /\ JsonPointer(input.proposed.value, rule.owner.pointer) = Leaf(Viewer)

\* A range that is sent is exactly the bytes of the file the header asks for, and there is none
\* only if the file has no such bytes or the header has a number that JavaScript cannot count to:
\* "from the start to a byte far past the end" is refused where a smaller number gets the file.
RangeExact ==
  IsRange /\ verdict # Open =>
    LET asked == {b \in 0..input.size - 1 :
                    IF input.first = None THEN input.last # None /\ b >= input.size - input.last
                    ELSE b >= input.first /\ (input.last # None => b <= input.last)}
    IN  IF verdict = NoRange THEN asked = {} \/ Unsafe(input.first) \/ Unsafe(input.last)
        ELSE asked # {} /\ asked = verdict.start..verdict.end
=============================================================================
