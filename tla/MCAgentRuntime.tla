--------------------------- MODULE MCAgentRuntime ---------------------------
\* AgentRuntime for TLC: a request whose agent and subagent call each other,
\* its replay and a background task, both on an agent without tools.
EXTENDS AgentRuntime, TLC

CONSTANTS front, back, side, plain, either, chat, replay, job

MCTurn == chat :> 1 @@ replay :> 1 @@ job :> 2
MCStart == chat :> front @@ replay :> plain @@ job :> plain
MCVariants == either :> {back, side}
MCShadowOf == replay :> chat

Agent(tools, subs, rounds) == [tools |-> tools, subs |-> subs, rounds |-> rounds]
MCFull == front :> Agent({"mcp", "dispatch_task"}, {either}, 2)
       @@ back :> Agent({}, {either}, 1)
       @@ side :> Agent({"skill_file"}, {}, 1) @@ plain :> Agent({}, {}, 1)
MCLists == {MCFull, [MCFull EXCEPT ![back] = NoAgent]}
=============================================================================
