------------------------------ MODULE DevServer ------------------------------
(***************************************************************************)
(* What the development server grants and what it serves                   *)
(* (src/src/sandbox/runtime.ts, src/src/sandbox/development.ts).           *)
(*                                                                         *)
(* A developer's dev.json chooses a mode: all local (sandbox), all remote  *)
(* (connected), or local data with some capabilities borrowed from a       *)
(* remote session (hybrid).  The server hands the page a token that lists  *)
(* scopes, computed in one place, and decides for each request, in another *)
(* place, whether to answer it, to pass it on, or to refuse it.  The page  *)
(* offers what its scopes allow, so the two had better agree, for every    *)
(* configuration, while the viewer signs in under an open page, and while  *)
(* the remote session is refreshed and comes back with other scopes.       *)
(***************************************************************************)
EXTENDS Naturals, FiniteSets

CONSTANTS
  RemoteGrants,  \* the sets of scopes a remote session may come with
  Logins,        \* names of saved profiles
  Urls,          \* API servers
  Home,          \* the one this repository is connected to
  None,          \* something the configuration or the profiles leave out
  MaxNotes       \* bound: notifications captured at a time

VARIABLES
  config,    \* dev.json
  fixtures,  \* mcp.json lists servers
  stage,     \* createMaypopSandboxRuntime()
  remote,    \* scopes of the remote session
  savedFor,  \* the server that the login presented to Home was saved for
  signedIn,  \* sandboxSignedIn
  initial,   \* initialScopes, and what the remote session lent then
  page,      \* the same of the token the open page holds
  notes      \* notifications captured and not cleared

vars == <<config, fixtures, stage, remote, savedFor, signedIn, initial, page, notes>>

Capabilities == {"ai", "members", "link", "mcp", "multiplayer"}
Operations == {"kvRead", "kvWrite", "driveRead", "driveWrite", "members", "ai", "mcp", "multiplayer",
               "notify"}
Viewers == [anonymous : BOOLEAN, role : {"reader", "editor"}, grants : BOOLEAN,
            signedInRole : {"reader", "writer"}]
Configs == [mode : {"sandbox", "hybrid", "connected"}, notifications : {"inspect", "live", "disabled"},
            caps : (SUBSET Capabilities) \cup {None}, viewer : Viewers \cup {None}]

\* parseViewer()
ValidViewer(v) ==
  /\ v.anonymous => v.role = "reader"
  /\ v.grants => v.anonymous
  /\ v.signedInRole # "reader"

\* loadDevelopmentConfig()
ValidConfig(c) ==
  /\ c.notifications = "live" => c.mode = "connected"
  /\ c.caps # None => c.mode = "hybrid"
  /\ c.viewer # None => c.mode = "sandbox" /\ ValidViewer(c.viewer)

Borrowed == IF config.mode # "hybrid" THEN {}
            ELSE IF config.caps = None THEN {"ai", "members", "link"}
            ELSE config.caps

\* activeSandboxViewer()
ActiveViewer ==
  CASE config.viewer = None ->
         [role |-> "admin", anonymous |-> FALSE, signInRequired |-> FALSE]
    [] config.viewer # None /\ config.viewer.anonymous /\ signedIn ->
         [role |-> config.viewer.signedInRole, anonymous |-> FALSE, signInRequired |-> FALSE]
    [] OTHER ->
         [role |-> config.viewer.role, anonymous |-> config.viewer.anonymous,
          signInRequired |-> config.viewer.anonymous /\ config.viewer.grants]

MayWrite(role, anonymous) == ~anonymous /\ role # "reader"

SandboxScopes(role, anonymous) ==
  {"identity:read", "group:read", "kv:read", "drive:read"}
  \cup IF MayWrite(role, anonymous) THEN {"kv:write", "drive:write"} ELSE {}

\* The scopes each borrowed capability lends, where the remote session has them.
LentBy(capability) ==
  CASE capability = "ai" -> {"ai:use"}
    [] capability = "members" -> {"group:read"}
    [] capability = "multiplayer" -> {"group:read", "mp:list", "mp:create", "mp:join"}
    [] capability = "mcp" -> {"mcp:use"}
    [] OTHER -> {}

If(condition, S) == IF condition THEN S ELSE {}

\* Mutant: notifications that are disabled stay granted.
DevelopmentScopesLive(lent) ==
  LET granted ==
        CASE config.mode = "connected" -> lent
          [] config.mode = "sandbox" -> SandboxScopes(ActiveViewer.role, ActiveViewer.anonymous)
          [] OTHER -> SandboxScopes("admin", FALSE)
                      \cup (lent \cap UNION {LentBy(c) : c \in Borrowed})
      inspected ==
        If(config.notifications = "inspect"
             /\ (config.mode # "sandbox" \/ MayWrite(ActiveViewer.role, ActiveViewer.anonymous)),
           {"notify:send"})
      withheld == {}
  IN  ((granted \cup inspected) \ withheld) \cup If(fixtures, {"mcp:use"})

\* developmentScopes(), of what the remote session lends.
DevelopmentScopes(lent) ==
  LET granted ==
        CASE config.mode = "connected" -> lent
          [] config.mode = "sandbox" -> SandboxScopes(ActiveViewer.role, ActiveViewer.anonymous)
          [] OTHER -> SandboxScopes("admin", FALSE)
                      \cup (lent \cap UNION {LentBy(c) : c \in Borrowed})
      inspected ==
        If(config.notifications = "inspect"
             /\ (config.mode # "sandbox" \/ MayWrite(ActiveViewer.role, ActiveViewer.anonymous)),
           {"notify:send"})
      withheld == If(config.notifications = "disabled", {"notify:send"})
  IN  ((granted \cup inspected) \ withheld) \cup If(fixtures, {"mcp:use"})

\* A token and the scopes that go with it.
Token == [scopes |-> DevelopmentScopes(remote), lent |-> remote]
NoToken == [scopes |-> {}, lent |-> {}]

\* What the SDK asks its scopes before it sends a request.
ScopeFor(op) ==
  CASE op = "kvRead" -> "kv:read"
    [] op = "kvWrite" -> "kv:write"
    [] op = "driveRead" -> "drive:read"
    [] op = "driveWrite" -> "drive:write"
    [] op = "members" -> "group:read"
    [] op = "ai" -> "ai:use"
    [] op = "mcp" -> "mcp:use"
    [] op = "multiplayer" -> "mp:list"
    [] op = "notify" -> "notify:send"

\* The requests that a borrowed capability sends to the remote session.
Forwarded(op) ==
  \/ op \in {"ai", "mcp"} /\ op \in Borrowed
  \/ op = "members" /\ Borrowed \cap {"members", "multiplayer"} # {}
  \/ op = "multiplayer" /\ "multiplayer" \in Borrowed

RequireDevelopmentScope(op) == IF ScopeFor(op) \in DevelopmentScopes(remote) THEN "local" ELSE "refused"

\* Where handle() sends a request, in its order.
Route(op) ==
  IF op = "notify" /\ config.notifications = "disabled" THEN "refused"
  ELSE IF op = "notify" /\ config.notifications = "inspect" THEN RequireDevelopmentScope(op)
  ELSE IF config.mode = "connected" \/ Forwarded(op) THEN "remote"
  ELSE IF op \in {"members", "kvRead", "driveRead"} THEN "local"
  ELSE IF op \in {"kvWrite", "driveWrite"} \/ (op = "mcp" /\ fixtures)
       THEN RequireDevelopmentScope(op)
  ELSE "unavailable"

\* The remote server asks for the scope itself.
Served(op) == Route(op) = "local" \/ (Route(op) = "remote" /\ ScopeFor(op) \in remote)

\* selectProfile(): the profiles it may present for an API server; none, if it throws.
SelectProfile(profiles, default, requested) ==
  IF requested # None THEN {p \in {requested} : profiles[p] = Home}
  ELSE IF profiles[default] = Home THEN {default}
  ELSE {p \in Logins : profiles[p] = Home}

-----------------------------------------------------------------------------
InitWith(written, servers) ==
  /\ config = written
  /\ fixtures = servers
  /\ stage = "starting"
  /\ remote = {}
  /\ savedFor = None
  /\ signedIn = FALSE
  /\ initial = NoToken
  /\ page = NoToken
  /\ notes = 0

Init == \E written \in Configs, servers \in BOOLEAN : InitWith(written, servers)

Refuse ==
  /\ stage = "starting"
  /\ ~ValidConfig(config)
  /\ stage' = "refused"
  /\ UNCHANGED <<config, fixtures, remote, savedFor, signedIn, initial, page, notes>>

\* mintDevelopmentSession()
Mint ==
  /\ stage = "starting" /\ ValidConfig(config) /\ config.mode # "sandbox"
  /\ \E profiles \in [Logins -> Urls \cup {None}], default \in Logins, requested \in Logins \cup {None} :
       /\ profiles[default] # None
       /\ LET selected == SelectProfile(profiles, default, requested)
          IN  IF selected = {}
              THEN stage' = "refused" /\ UNCHANGED <<remote, savedFor>>
              ELSE /\ \E p \in selected : savedFor' = profiles[p]
                   /\ remote' \in RemoteGrants
                   /\ stage' = "minted"
  /\ UNCHANGED <<config, fixtures, signedIn, initial, page, notes>>

\* The rest of createMaypopSandboxRuntime().  A connected server reads no fixtures.
Open ==
  /\ \/ stage = "starting" /\ ValidConfig(config) /\ config.mode = "sandbox"
     \/ stage = "minted"
  /\ fixtures' = (fixtures /\ config.mode # "connected")
  /\ signedIn' = (config.viewer # None => ~config.viewer.anonymous)
  /\ UNCHANGED <<config, remote, savedFor, page, notes>>
  /\ IF "mcp" \in Borrowed /\ fixtures
     THEN stage' = "refused" /\ UNCHANGED initial
     ELSE stage' = "serving" /\ initial' = Token'

\* currentToken(): refreshes a remote session that is about to expire, with the scopes it
\* then has.
CurrentToken == remote' \in IF config.mode = "sandbox" THEN {remote} ELSE RemoteGrants

\* A request that is passed on, or /me before the server opens.
Renew ==
  /\ stage \in {"minted", "serving"} /\ config.mode # "sandbox"
  /\ CurrentToken
  /\ UNCHANGED <<config, fixtures, stage, savedFor, signedIn, initial, page, notes>>

\* A document loads, or its token is renewed: GET /_maypop/session.
Session ==
  /\ stage = "serving"
  /\ CurrentToken
  /\ UNCHANGED <<config, fixtures, stage, savedFor, signedIn, initial, notes>>
  /\ page' = Token'

\* That request fails: the page makes do with what its document was rendered with.
LoadWithoutSession ==
  /\ stage = "serving"
  /\ page' = initial
  /\ UNCHANGED <<config, fixtures, stage, remote, savedFor, signedIn, initial, notes>>

\* POST /_maypop/sign-in, by any page of this server.
SignIn ==
  /\ stage = "serving"
  /\ config.mode = "sandbox" /\ ActiveViewer.signInRequired
  /\ signedIn' = TRUE
  /\ UNCHANGED <<config, fixtures, stage, remote, savedFor, initial, page, notes>>

\* POST /app-api/notify, captured.
Notify ==
  /\ stage = "serving"
  /\ Route("notify") = "local"
  /\ notes < MaxNotes
  /\ notes' = notes + 1
  /\ UNCHANGED <<config, fixtures, stage, remote, savedFor, signedIn, initial, page>>

\* DELETE /_maypop/notifications
ClearNotes ==
  /\ stage = "serving"
  /\ notes' = 0
  /\ UNCHANGED <<config, fixtures, stage, remote, savedFor, signedIn, initial, page>>

Next ==
  \/ Refuse \/ Mint \/ Open \/ Renew
  \/ Session \/ LoadWithoutSession \/ SignIn
  \/ Notify \/ ClearNotes

Spec == Init /\ [][Next]_vars

-----------------------------------------------------------------------------
\* Every variable keeps its type.
TypeOK ==
  /\ config \in Configs
  /\ fixtures \in BOOLEAN
  /\ stage \in {"starting", "refused", "minted", "serving"}
  /\ remote \in RemoteGrants \cup {{}}
  /\ savedFor \in Urls \cup {None}
  /\ signedIn \in BOOLEAN
  /\ \A token \in {page, initial} :
       IsFiniteSet(token.scopes) /\ token.lent \in RemoteGrants \cup {{}}
  /\ notes \in 0..MaxNotes

\* What the token in the page grants is answered, here or by the remote server: an app that shows
\* the controls its scopes allow is never refused for them, in any configuration, with a token
\* from before or after a sign-in.  The exception is what the remote session lent when the token
\* was made and has lost with a refresh since; nothing tells the page of that.
Withdrawn(op) == Route(op) = "remote" /\ ScopeFor(op) \in page.lent \ remote
GrantedIsServed ==
  \A op \in Operations : ScopeFor(op) \in page.scopes => Served(op) \/ Withdrawn(op)
=============================================================================
