------------------------------ MODULE McpTools ------------------------------
(***************************************************************************)
(* The tools an agent is given from its MCP servers for one turn of one    *)
(* user (crates/mcp server.rs, sanitize.rs and the placeholders of         *)
(* pool.rs).  Pure operators.                                              *)
(*                                                                         *)
(* A name is a sequence of words and the numbers it ends in, "do_2" the     *)
(* words of "do" and the number 2; a dirty one has characters that model   *)
(* providers refuse, and reads like the clean one once they are replaced.  *)
(***************************************************************************)
EXTENDS McpShapes, SequencesExt

Name(dirty, words)  == [dirty |-> dirty, words |-> words, numbers |-> <<>>]
Numbered(name, n)   == [name EXCEPT !.numbers = Append(@, n)]

\* What a tool calls: a tool of a server, or nothing but its own message.
Tool(server, kind, name) == [server |-> server, kind |-> kind, calls |-> name, name |-> name]

\* A server as one turn meets it: not in the file, or its entry, whether the
\* boot connected it, what get_or_spawn answered for the user, and its tools in
\* the order the HashMap that holds them iterates.
Views(tools) ==
  [configured : BOOLEAN, oauth : BOOLEAN, vault : BOOLEAN, connected : BOOLEAN,
   session : {"open", "NotConnected", "fails"}, tools : tools]

\* McpServers::connect_with_vault keeps the servers without OAuth that answer
\* within 20 s; McpServer::connect is one of the outcomes of `reply`.
Connected(entry, reply) == entry.oauth = "none" /\ reply = "tools"

\* McpServer::connect and UserMcpSession::connect: reach the server over its
\* transport, then list its tools.  A stdio server gets the token as a variable.
Reply(transport, spawned, initialised, listed) ==
  IF transport = "stdio" /\ ~spawned THEN "Spawn"
  ELSE IF ~initialised THEN "Connect" ELSE IF ~listed THEN "ListTools" ELSE "tools"

\* NotConnectedTool and UnreachableTool: one that answers with a text.
Unreachable(server) == <<Tool(server, "unreachable", Name(FALSE, <<server, "unreachable">>))>>
NotConnected(server, name) == Tool(server, "connect", name)

\* McpToolAccess::pick_tools: ToolNotFound for a listed name the server has not.
Picks(access, tools)  == access.only = None \/ Range(access.only) \subseteq Range(tools)
Picked(access, tools) ==
  LET names == IF access.only = None THEN tools ELSE access.only
  IN  [i \in DOMAIN names |-> Tool(access.server, "real", names[i])]

\* McpToolAccess::placeholder_tools: the names in `only`, or the sentinel.
Placeholders(access) ==
  LET names == IF access.only = None THEN <<Name(FALSE, <<"connect", access.server>>)>> ELSE access.only
  IN  [i \in DOMAIN names |-> NotConnected(access.server, names[i])]

\* static_server_tools.
StaticTools(access, view) ==
  IF view.connected /\ Picks(access, view.tools) THEN Picked(access, view.tools)
  ELSE Unreachable(access.server)

\* oauth_server_tools.
OAuthTools(access, view) ==
  CASE view.vault /\ view.session = "open" /\ Picks(access, view.tools) -> Picked(access, view.tools)
    [] view.vault /\ view.session = "NotConnected" -> Placeholders(access)
    [] OTHER -> Unreachable(access.server)

\* user_tools_for.
UserTools(access, view) ==
  CASE ~view.configured -> Unreachable(access.server)
    [] view.configured /\ view.oauth -> OAuthTools(access, view)
    [] OTHER -> StaticTools(access, view)

\* sanitize_name.
SanitizeName(name) == [name EXCEPT !.dirty = FALSE]

\* A bug for the checks: a second holder of the name is always `_2`.
DedupeTwice(candidate, taken) ==
  IF candidate \notin taken THEN candidate ELSE Numbered(candidate, 2)

\* dedupe: the name itself, or the first free of name_2, name_3, ...
\* One of as many as are taken and one more is.
Dedupe(candidate, taken) ==
  LET free == {n \in 2..(Cardinality(taken) + 2) : Numbered(candidate, n) \notin taken}
  IN  IF candidate \notin taken THEN candidate
      ELSE Numbered(candidate, CHOOSE n \in free : \A m \in free : n <= m)

\* sanitize::apply, a tool after the other.
Renamed(tool, out) ==
  [tool EXCEPT !.name = Dedupe(SanitizeName(@), {out[i].name : i \in DOMAIN out})]
Apply(tools) ==
  LET out[k \in 0..Len(tools)] ==
        IF k = 0 THEN <<>> ELSE Append(out[k - 1], Renamed(tools[k], out[k - 1]))
  IN  out[Len(tools)]

\* tools_for_user: one server after the other.
ToolsForUser(accesses, view) ==
  Apply(FlattenSeq([i \in DOMAIN accesses |-> UserTools(accesses[i], view[accesses[i].server])]))

\* tools_for, without a user: nothing when any server stands in the way.
ToolsFor(accesses, view) ==
  IF \E i \in DOMAIN accesses :
       LET v == view[accesses[i].server]
       IN  ~v.configured \/ v.oauth \/ ~v.connected \/ ~Picks(accesses[i], v.tools)
  THEN {}
  ELSE {Apply(FlattenSeq([i \in DOMAIN accesses |-> Picked(accesses[i], view[accesses[i].server].tools)]))}
-----------------------------------------------------------------------------
(* Bounds: two servers, whose tools collide once sanitised or suffixed. *)

SomeNames == {Name(FALSE, <<"do">>), Name(TRUE, <<"do">>), Numbered(Name(FALSE, <<"do">>), 2)}
SomeTools == UNION {{s \in [1..n -> SomeNames] : IsInjective(s)} : n \in 0..3}
SomeOnly  == {None, <<>>, <<Name(FALSE, <<"do">>)>>, <<Name(TRUE, <<"do">>), Name(FALSE, <<"do">>)>>}

\* Every way to meet a server, the ones that tell its tools with each order.
SomeViews ==
  {v \in Views(SomeTools) :
     v.tools = <<>> \/ (v.configured /\ (IF v.oauth THEN v.vault /\ v.session = "open" /\ ~v.connected
                                         ELSE v.connected /\ v.session = "fails" /\ ~v.vault))}

\* "Per-server isolation: one bad MCP must not deny the user every other
\* capability" and "resolving collisions": whatever the servers answer, every
\* name is one the model provider takes and names one tool; each server gives
\* what it gives alone, in the same order and never nothing; the names of an
\* earlier server do not depend on a later one; and an agent that needs no user
\* is given the same tools with one.
UsableOn(o1, o2, v1, v2) ==
  LET a1 == [server |-> "s1", only |-> o1]
      a2 == [server |-> "s2", only |-> o2]
      view == [s \in {"s1", "s2"} |-> IF s = "s1" THEN v1 ELSE v2]
      all == ToolsForUser(<<a1, a2>>, view)
      one == ToolsForUser(<<a1>>, view)
      two == ToolsForUser(<<a2>>, view)
      Calls(tools) == [i \in DOMAIN tools |-> <<tools[i].server, tools[i].kind, tools[i].calls>>]
  IN  /\ \A i, j \in DOMAIN all : ~all[i].name.dirty /\ (all[i].name = all[j].name => i = j)
      /\ Calls(all) = Calls(one) \o Calls(two)
      /\ SubSeq(all, 1, Len(one)) = one
      /\ one = <<>> => o1 = <<>> \/ (o1 = None /\ v1.tools = <<>>)
      /\ ToolsFor(<<a1, a2>>, view) \subseteq {all}
=============================================================================
