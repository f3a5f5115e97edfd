------------------------------- MODULE Links -------------------------------
(***************************************************************************)
(* Deep links into an app, from the call that makes one to the screen it   *)
(* opens (src/src/runtime.ts, src/src/sandbox/runtime.ts).                 *)
(*                                                                         *)
(* An app makes a link with link.to(), share() or notify().  Which paths   *)
(* are fit for one is decided in four places: by the SDK for the first     *)
(* two, by the development page for share(), by the server for notify(),   *)
(* and by the page that is opened with the link, which silently shows the  *)
(* first screen for a path it does not take.  A path is a sequence of      *)
(* characters, of which only the kinds matter that one of them looks at.   *)
(***************************************************************************)
EXTENDS Naturals, Sequences, SequencesExt

CONSTANTS
  MaxPath,  \* code points a path may have; 512 in the code
  MaxLong   \* bound: the longest path that is tried

VARIABLES
  path,    \* what the app asks for; NoPath for no path
  via,     \* the call it makes
  hash,    \* the page's own fragment, where there is no link
  stage,   \* what has become of it
  made,    \* the path that the link carries
  screen   \* maypop.launchPath in the app that was opened

linkVars == <<path, via, hash, stage, made, screen>>

Chars == {"/", "x", "\\", "space", "tab", "control"}
NoPath == <<>>
FirstScreen == <<"the app's own">>
Paths == BoundedSeq(Chars, MaxLong)

InitWith(asked, call, own) ==
  /\ path = asked /\ via = call /\ hash = own
  /\ stage = "asked" /\ made = NoPath /\ screen = NoPath

Init ==
  \E asked \in Paths, call \in {"link.to", "share", "notify"}, own \in {NoPath, <<"x">>} :
    InitWith(asked, call, own)

-----------------------------------------------------------------------------
Slash(p, i) == i <= Len(p) /\ p[i] = "/"
Clean(p) == \A i \in 1..Len(p) : p[i] \notin {"\\", "tab", "control"}

\* Mutant: a path that names a host is taken.
IsLaunchPathAnyHost(p) == Slash(p, 1) /\ Len(p) \in 2..MaxPath /\ Clean(p)

\* The SDK's isLaunchPath().
IsLaunchPath(p) ==
  Slash(p, 1) /\ Len(p) \in 2..MaxPath /\ ~Slash(p, 2) /\ Clean(p)

\* What the development page asks of the path of a share, and of the one it is opened with.
PageShares(p) == Slash(p, 1) /\ ~Slash(p, 2) /\ \A i \in 1..Len(p) : p[i] # "\\"
PageOpens(p) == Slash(p, 1) /\ ~Slash(p, 2)

\* String.trim()
Trim(p) ==
  LET inner == {i \in 1..Len(p) : p[i] \notin {"space", "tab"}}
  IN  IF inner = {} THEN NoPath
      ELSE SubSeq(p, CHOOSE i \in inner : \A j \in inner : i <= j,
                     CHOOSE i \in inner : \A j \in inner : i >= j)

\* POST /app-api/notify: the path is trimmed first, and an empty one is no path.
Notifies(p) ==
  p = NoPath \/ (Slash(p, 1) /\ Len(p) \in 2..MaxPath /\ ~Slash(p, 2) /\ Clean(p))

\* A space does not survive in the fragment of a URL.
Fragment(p) == [i \in 1..Len(p) |-> IF p[i] = "space" THEN "%20" ELSE p[i]]

-----------------------------------------------------------------------------
Refuse(by) == stage' = by /\ UNCHANGED made
MakeLink(p) == stage' = "made" /\ made' = p

Make ==
  /\ stage = "asked"
  /\ CASE via = "link.to" ->
            IF path = NoPath \/ IsLaunchPath(path) THEN MakeLink(path) ELSE Refuse("refused")
       [] via = "share" ->
            IF ~IsLaunchPath(path) THEN Refuse("refused")
            ELSE IF PageShares(path) THEN MakeLink(path) ELSE Refuse("refused by the page")
       [] via = "notify" ->
            IF Notifies(Trim(path)) THEN MakeLink(Trim(path)) ELSE Refuse("refused")
  /\ UNCHANGED <<path, via, hash, screen>>

\* The link's page puts the path into the fragment of the app's URL, in place of its own; the SDK
\* reads it back when it loads.
OpenLink ==
  /\ stage = "made"
  /\ stage' = "opened"
  /\ screen' = IF PageOpens(made) THEN Fragment(made)
               ELSE IF hash = NoPath THEN FirstScreen ELSE hash
  /\ UNCHANGED <<path, via, hash, made>>

Next == Make \/ OpenLink
Spec == Init /\ [][Next]_linkVars

-----------------------------------------------------------------------------
\* Every variable keeps its type.
TypeOK ==
  /\ path \in Paths /\ via \in {"link.to", "share", "notify"} /\ hash \in Seq(Chars)
  /\ stage \in {"asked", "refused", "refused by the page", "made", "opened"}
  /\ made \in Seq(Chars)
  /\ screen \in Seq(Chars \cup {"%20"}) \cup {FirstScreen}

\* The places agree: the page never refuses to share a path the SDK took, and a link that was made
\* with a path opens the app on it, as a fragment spells it, and never at the first screen ("so
\* `link.to()` never hands out a link the host would open at the app's first screen").
LinkLands ==
  /\ stage # "refused by the page"
  /\ stage = "opened" /\ made # NoPath => screen = Fragment(made)
=============================================================================
