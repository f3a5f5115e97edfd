----------------------------- MODULE MCSandbox -----------------------------
(***************************************************************************)
(* Sandbox on small instances.                                             *)
(***************************************************************************)
EXTENDS Sandbox, SequencesExt

CONSTANTS w1, w2, up1, rm, del, n1, n2, u1, u2, f1, f2, a, b, p1, p2, s1, s2, home, away

\* The writes and the names of Drive, the image URLs and the GETs of CacheWorker.  No behaviour has
\* something of both, so that they are permuted together.
Symmetry ==
  {g \in Permutations({w1, w2, u1, u2, n1, n2, f1, f2}) :
     /\ {g[w1], g[w2]} = {w1, w2} /\ {g[u1], g[u2]} = {u1, u2} /\ (g[w1] = w1 <=> g[u1] = u1)
     /\ {g[n1], g[n2]} = {n1, n2} /\ {g[f1], g[f2]} = {f1, f2} /\ (g[n1] = n1 <=> g[f1] = f1)}

\* A remote session always has the scopes of a member of its group.
Member == {"group:read", "kv:read", "kv:write", "drive:read", "drive:write"}
MCRemoteGrants ==
  {Member, Member \cup {"ai:use", "mcp:use"}, Member \cup {"mp:list", "notify:send"},
   Member \cup {"ai:use", "mcp:use", "mp:list", "notify:send"}}

\* The presets, and policies with rules that the server takes or refuses.
Preset(mode) == [mode |-> mode, rules |-> {}]
Advanced(rules) == [mode |-> "advanced", rules |-> rules]
Rule(actions, key, owner) ==
  [actions |-> actions, roles |-> {"user", "owner"}, key |-> key, owner |-> owner]
Owned(member) == [leaf |-> FALSE, at |-> "ownerId" :> [leaf |-> TRUE, is |-> member]]
ByPointer == [source |-> "jsonPointer", pointer |-> <<"ownerId">>]
ByAuthor == [source |-> "entryAuthor"]

MCRecords == [author : {"me", "them"}, value : {Owned("me"), Owned("them")}]
MCKeys == {<<"private">>, <<"private", "me">>, <<"private", "them", "x">>, <<"records", "x">>,
           <<"records", "me">>}
MCManifests ==
  {None, [mode |-> "governed", rules |-> {Rule({"read"}, <<"**">>, None)}]}
  \cup {Preset(mode) : mode \in {"shared_group_data", "owner_private", "group_read_admin_write",
                                 "governed", None}}
  \cup {Advanced(rules) : rules \in
          {{Rule({"update"}, <<"records", "**">>, ByPointer)},
           {Rule({"read", "update"}, <<"records", "*">>, ByAuthor)},
           {Rule({"read", "create"}, <<"*", "{memberId}">>, None),
            Rule({"delete"}, <<"records">>, None)},
           {Rule({"read"}, <<"**", "x">>, None)}}}

\* Answers of an AI provider: every short one, and one with what a provider mixes in.
MCBodies ==
  BoundedSeq({"data:", "one", "newline"}, 4) \cup
    {<<"data:", "one", "newline", ":", "newline", "data:", "two", "newline", "data:", ":", "newline",
       "newline", "data:", "one", "newline", "data:", "two">>}
=============================================================================
