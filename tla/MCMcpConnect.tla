---------------------------- MODULE MCMcpConnect ----------------------------
(* McpConnect for TLC: one server that registers dynamically and one with   *)
(* static credentials whose redirect address is the other's.                *)
EXTENDS McpConnect, McpTools, McpSse, Documents, Skills

CONSTANTS todo, jira

Remoted(oauth, scopes) ==
  [tag |-> None, url |-> "plain", command |-> FALSE, oauth |-> oauth, scopes |-> scopes]

MCFirst == [mcp |-> (todo :> Remoted(None, {}) @@ jira :> Remoted("static", {"mail"})),
            redirect |-> (todo :> todo @@ jira :> todo), base |-> 1, key |-> 1, consumer |-> TRUE]

\* The operator moves the server, rotates the key, pins scopes, turns a server
\* into a local one, opts out, or breaks the file.
MCConfigs ==
  {[MCFirst EXCEPT !.base = 2], [MCFirst EXCEPT !.key = 2],
   [MCFirst EXCEPT !.mcp[todo].scopes = {"admin"}, !.redirect[jira] = jira],
   [MCFirst EXCEPT !.mcp[todo].url = None, !.mcp[todo].command = TRUE, !.mcp[todo].oauth = "discover"],
   [MCFirst EXCEPT !.mcp[todo].oauth = "off", !.consumer = FALSE],
   [MCFirst EXCEPT !.mcp[todo].oauth = "junk"]}

Naming(resource, scopes, echoes) ==
  [resource |-> resource, metadata |-> TRUE, scopes |-> scopes,
   registers |-> TRUE, methods |-> {"none"}, echoes |-> echoes]

Usual  == Naming({"mail"}, {"mail", "admin"}, None)
Silent == [Naming(None, {}, None) EXCEPT !.metadata = FALSE]

\* The provider of todo names scopes for its resource, for the server, in the
\* answer to a registration or nowhere, or registers nobody, and changes its mind.
MCPublishes ==
  todo :> {Usual, Naming({"mail"}, {"mail", "admin"}, {"openid"}), Naming(None, {"admin"}, {"mail"}),
           Naming({}, {}, {"mail", "admin"}), Naming(None, {}, None),
           [Naming(None, {}, None) EXCEPT !.registers = FALSE]}
  @@ jira :> {Silent}

ConnectSymmetry == Permutations(Tabs) \cup Permutations(Users)

\* A behaviour is about several users of one publication, about one user of a
\* provider that changes its mind, or about one input of the pure operators.
VARIABLE case
Cases ==
  {[of |-> "users"]} \cup [of : {"scopes"}, user : Users]
  \cup [of : {"shape"}, raw : Raw]
  \cup [of : {"document"}, d : Documents]
  \cup [of : {"text"}, table : SomeTables, body : SomeBodies, env : SomeEnvs]
  \cup [of : {"template"}, template : SomeTemplates, payload : SomePayloads]
  \cup [of : {"skills"}, dirs : SomeDirs("mail") \X SomeDirs("draft"), turned : BOOLEAN,
        listed : SomeListings]
  \cup [of : {"tools"}, o1 : SomeOnly, o2 : SomeOnly, v1 : SomeViews, v2 : SomeViews]
  \cup [of : {"stream"}, events : SomeStreams]

\* Everybody registers on the publication Usual.
Unchanging == \A f \in Tabs : tab'[f].meta.pub \in {None, Usual}

\* Links are minted for, opened for and consented to by u, on the server that
\* registers, and tabs come back with their own states.
OnlyFor(u) ==
  /\ \A l \in links' : l.user = u /\ l.server = todo
  /\ \A f \in Tabs : /\ {tab'[f].seal.user, tab'[f].account} \subseteq {None, u}
                     /\ tab'[f].seal.server \in {None, todo}
                     /\ tab'[f].leg = "callback" => tab'[f].seal = tab'[f].sent

MCInit == Init /\ case \in Cases
MCNext ==
  \/ case.of = "users" /\ Next /\ Unchanging /\ UNCHANGED case
  \/ case.of = "scopes" /\ Next /\ OnlyFor(case.user) /\ UNCHANGED case
MCSpec == MCInit /\ [][MCNext]_<<vars, case>>

\* coulisse.yaml and what lies beside it mean what they say: DocumentedOn of
\* every entry of `mcp:`, ExpandsOn of every short text, CheckedOn of every
\* file, SubstitutedOn of every webhook, SkillsOn of every two directories.
DocumentsSound ==
  CASE case.of = "shape"    -> DocumentedOn(case.raw)
    [] case.of = "document" -> CheckedOn(case.d)
    [] case.of = "text"     -> ExpandsOn(case.table, case.body, case.env)
    [] case.of = "template" -> SubstitutedOn(case.template, case.payload)
    [] case.of = "skills"   ->
         SkillsOn(IF case.turned THEN Reverse(case.dirs) ELSE case.dirs, case.listed)
    [] OTHER -> TRUE

\* tools_for_user: what UsableOn says of every answer of two servers.
ToolsUsable == case.of = "tools" => UsableOn(case.o1, case.o2, case.v1, case.v2)

\* SseClientTransport: what FaithfulOn says of every short stream.
StreamFaithful == case.of = "stream" => FaithfulOn(case.events)
=============================================================================
