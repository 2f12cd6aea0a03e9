---------------------------- MODULE AgentRuntime ----------------------------
(***************************************************************************)
(* The multi-agent runtime (crates/agents): an agent asks its model, runs  *)
(* the tools the model asks for, and gives the model their results; a tool *)
(* may be another agent, run the same way one level deeper.  The cli runs  *)
(* agents for chat requests, shadow replays and background tasks, inside   *)
(* the spans the telemetry layer records.                                  *)
(*                                                                         *)
(* Models and tools are external: they answer anything, or fail.           *)
(***************************************************************************)
EXTENDS Spans

CONSTANTS
  Agents, Names,     \* agents; names a subagent list may hold (experiments too)
  Variants,          \* the agents a name may resolve to
  Lists,             \* agent lists that may be configured
  NoAgent,           \* the entry of an agent that a list does not have
  Start,             \* the agent an act begins with
  Chats,             \* acts that are chat requests
  ShadowOf,          \* the request a shadow act replays
  Tasks,             \* acts of background tasks
  Tools,             \* tools other than agents
  Quiet,             \* those that record no error (dispatch_task, tasks_status)
  Parsers,           \* those that parse their arguments by themselves (skill_file)
  MaxDepth,          \* MAX_SUBAGENT_DEPTH
  MaxRounds,         \* the largest max_turns an agent may have
  MaxRepairs,        \* MAX_FORMAT_REPAIRS
  MaxBatch,          \* bound: tool calls of one model answer
  MaxMishaps         \* bound: faults, edits, disconnects and crashes

Shadows == DOMAIN ShadowOf

\* What a list says of an agent: its tools, its subagents and its max_turns.
Config == [tools : SUBSET Tools, subs : SUBSET Names, rounds : 0..MaxRounds]

ASSUME RuntimeAssumption ==
  /\ Acts = Chats \cup Shadows \cup Tasks
  /\ Chats \cap Shadows = {} /\ Tasks \cap (Chats \cup Shadows) = {}
  /\ Recorded = Acts \ Tasks /\ ShadowOf \in [Shadows -> Chats]
  /\ \A s \in Shadows : Turn[s] = Turn[ShadowOf[s]]
  /\ Variants \in [Names -> SUBSET Agents] /\ Start \in [Acts -> Agents]
  /\ NoAgent \notin Config /\ Lists \subseteq [Agents -> Config \cup {NoAgent}] /\ Lists # {}
  /\ Quiet \subseteq Tools /\ Parsers \subseteq Tools
  /\ MaxDepth \in Nat /\ MaxRounds \in Nat /\ MaxRepairs \in Nat /\ MaxBatch \in Nat
  /\ MaxMishaps \in Nat

VARIABLES
  live,      \* AgentList: what find_agent looks names up in
  streams,   \* requests with stream: true
  pc,        \* progress of an act
  stack,     \* the agents an act runs, each called by the one before it
  opened,    \* spans an act has opened
  tries,     \* repairs of a reply
  queued,    \* tasks submitted and not yet claimed
  asked,     \* history: model calls of one run of the agent an act starts with
  made,      \* history: the spans an act opened, under which, and their fate
  mishaps    \* faults, edits, disconnects and crashes so far

actVars == <<streams, pc, stack, opened, tries, queued, asked, made>>
vars    == <<spanVars, live, actVars, mishaps>>

\* No tool call is under way in a frame.
NoCall == [n |-> 0, tool |-> NoAgent, agent |-> NoAgent]
\* An agent as it is configured when it is looked up.
Frame(g) == [cfg |-> live[g], left |-> live[g].rounds, todo |-> 0, call |-> NoCall]

Top(a)   == stack[a][Len(stack[a])]
Below(a) == SubSeq(stack[a], 1, Len(stack[a]) - 1)
Goto(a, where) == pc' = [pc EXCEPT ![a] = where]
SetTop(a, frame) == stack' = [stack EXCEPT ![a] = Append(Below(a), frame)]

\* The span around the agent on top of the stack: its caller's tool span.
Around(a) == IF Len(stack[a]) = 1 THEN Root ELSE stack[a][Len(stack[a]) - 1].call.n

Running(a) == pc[a] = "run" /\ stack[a] # <<>>
Waiting(a) == Running(a) /\ Top(a).call # NoCall
\* The model is to speak; it has asked for tools that have not run.
Thinking(a) == Running(a) /\ Top(a).call = NoCall /\ Top(a).todo = 0
Choosing(a) == Running(a) /\ Top(a).call = NoCall /\ Top(a).todo > 0
IsSub(a) == Top(a).call.agent # NoAgent

\* A span as it opens.
Span(parent) == [parent |-> parent, fate |-> "open"]

Mishap == mishaps < MaxMishaps /\ mishaps' = mishaps + 1

Init ==
  /\ SpansInit
  /\ live \in Lists /\ streams = {}
  /\ pc = [a \in Acts |-> "idle"] /\ stack = [a \in Acts |-> <<>>]
  /\ opened = [a \in Acts |-> Root] /\ tries = [a \in Acts |-> 0]
  /\ queued = 0
  /\ asked = [a \in Acts |-> 0] /\ made = [a \in Acts |-> <<Span(NoParent)>>]
  /\ mishaps = 0
-----------------------------------------------------------------------------
(* An act begins: complete or complete_streaming at depth 0 *)

\* spawn_shadow_runs: all replays of a request, or none when it is not sampled.
Launch(a, where) ==
  \E S \in {{}, {s \in Shadows : ShadowOf[s] = a /\ pc[s] = "idle"}} :
    pc' = [x \in Acts |-> IF x = a THEN where ELSE IF x \in S THEN "enter" ELSE pc[x]]

\* A request comes in or a worker claims a task.  The replays of a stream are
\* spawned before it opens.
Begin(a) ==
  /\ pc[a] = "idle" /\ a \notin Shadows
  /\ a \in Tasks => queued > 0
  /\ queued' = IF a \in Tasks THEN queued - 1 ELSE queued
  /\ \/ a \in Chats /\ streams' = streams \cup {a} /\ Launch(a, "enter")
     \/ streams' = streams /\ Goto(a, "enter")
  /\ UNCHANGED <<spanVars, live, stack, opened, tries, asked, made, mishaps>>

\* find_agent: the agent as it is configured now, kept for the whole run.
Enter(a) ==
  /\ pc[a] = "enter" /\ live[Start[a]] # NoAgent
  /\ stack' = [stack EXCEPT ![a] = <<Frame(Start[a])>>]
  /\ asked' = [asked EXCEPT ![a] = 0]
  /\ Goto(a, "run")
  /\ UNCHANGED <<spanVars, live, streams, opened, tries, queued, made, mishaps>>

\* UnknownAgent, or no provider, or the MCP servers give no tools.
EnterFails(a) ==
  /\ pc[a] = "enter"
  /\ IF live[Start[a]] = NoAgent THEN UNCHANGED mishaps ELSE Mishap
  /\ Goto(a, "close")
  /\ UNCHANGED <<spanVars, live, streams, stack, opened, tries, queued, asked, made>>
-----------------------------------------------------------------------------
(* The model *)

\* The model asks for tools, within max_turns.
Ask(a) ==
  /\ Thinking(a) /\ Top(a).left > 0
  /\ Top(a).cfg.tools \cup Top(a).cfg.subs # {}
  /\ asked' = [asked EXCEPT ![a] = @ + 1]
  /\ \E k \in 1..MaxBatch : SetTop(a, [Top(a) EXCEPT !.left = @ - 1, !.todo = k])
  /\ UNCHANGED <<spanVars, live, streams, pc, opened, tries, queued, made, mishaps>>

\* The tool call under way in frame f ends; the span closes with what it told.
EndCall(a, rest, told, how) ==
  LET f == rest[Len(rest)]
      above == IF Len(rest) = 1 THEN Root ELSE rest[Len(rest) - 1].call.n
  IN  /\ CloseTool(a, f.call, above, told)
      /\ made' = [made EXCEPT ![a][f.call.n].fate = how]
      /\ stack' = [stack EXCEPT ![a] =
           [rest EXCEPT ![Len(rest)].call = NoCall, ![Len(rest)].todo = @ - 1]]

\* The agent on top has ended: its caller's tool returns; or the act has ended.
Leave(a, told, how, where) ==
  IF Len(stack[a]) = 1
  THEN /\ stack' = [stack EXCEPT ![a] = <<>>] /\ Goto(a, where)
       /\ UNCHANGED <<spanVars, made>>
  ELSE EndCall(a, Below(a), told, how) /\ UNCHANGED pc

Answer(a) ==
  /\ Thinking(a)
  /\ asked' = [asked EXCEPT ![a] = @ + 1]
  /\ Leave(a, "result", "ok", "finish")
  /\ UNCHANGED <<live, streams, opened, tries, queued, mishaps>>

\* The provider fails, or asks for tools once more than max_turns allows; a
\* stream that is open is flushed all the same.
ModelFails(a) ==
  /\ Thinking(a)
  /\ IF Top(a).left = 0 THEN UNCHANGED mishaps ELSE Mishap
  /\ asked' = [asked EXCEPT ![a] = @ + 1]
  /\ Leave(a, "error", "failed", IF a \in streams THEN "finish" ELSE "close")
  /\ UNCHANGED <<live, streams, opened, tries, queued>>
-----------------------------------------------------------------------------
(* Tools *)

Open(a, tool, agent) ==
  /\ opened' = [opened EXCEPT ![a] = @ + 1]
  /\ made' = [made EXCEPT ![a] = Append(@, Span(Around(a)))]
  /\ SetTop(a, [Top(a) EXCEPT !.call = [n |-> opened[a] + 1, tool |-> tool, agent |-> agent]])

\* TelemetryTool, SkillTool, DispatchTaskTool, TasksStatusTool.
CallTool(a, t) ==
  /\ Choosing(a) /\ t \in Top(a).cfg.tools
  /\ Open(a, t, NoAgent)
  /\ UNCHANGED <<spanVars, live, streams, pc, tries, queued, asked, mishaps>>

\* dispatch_task has put a task in the queue.
ToolReturns(a) ==
  /\ Waiting(a) /\ ~IsSub(a)
  /\ EndCall(a, stack[a], "result", "ok")
  /\ queued' = IF Top(a).call.tool = "dispatch_task" THEN queued + 1 ELSE queued
  /\ UNCHANGED <<live, streams, pc, opened, tries, asked, mishaps>>

\* Mutant: only the MCP client's own errors are recorded.
ToolFailsSilently(a) ==
  /\ Waiting(a) /\ ~IsSub(a) /\ Mishap
  /\ EndCall(a, stack[a], "nothing", "failed")
  /\ UNCHANGED <<live, streams, pc, opened, tries, queued, asked>>

\* The tool, or the server or catalog behind it, fails: the error goes to the
\* model as the result; the two queue tools do not record it.
ToolFails(a) ==
  /\ Waiting(a) /\ ~IsSub(a) /\ Mishap
  /\ EndCall(a, stack[a], IF Top(a).call.tool \in Quiet THEN "nothing" ELSE "error", "failed")
  /\ UNCHANGED <<live, streams, pc, opened, tries, queued, asked>>

\* SubagentTool: the name resolves to an agent now, for this user.
CallSub(a, s, g) ==
  /\ Choosing(a) /\ s \in Top(a).cfg.subs /\ g \in Variants[s]
  /\ Open(a, s, g)
  /\ UNCHANGED <<spanVars, live, streams, pc, tries, queued, asked, mishaps>>

\* A tool whose own code takes the arguments apart: an agent, skill_file.
Refusable(a) == IsSub(a) \/ Top(a).call.tool \in Parsers

\* The arguments do not parse, or lack a field: the call leaves by `?`, its
\* error reaches the model alone, and the span closes with neither.
BadArguments(a) ==
  /\ Waiting(a) /\ Refusable(a) /\ Mishap
  /\ EndCall(a, stack[a], "nothing", "refused")
  /\ UNCHANGED <<live, streams, pc, opened, tries, queued, asked>>

\* Mutant: the hop limit is not looked at.
TooDeepNever(a) == FALSE

\* complete_with_depth: the new agent would be at depth Len(stack[a]).
TooDeep(a) == Len(stack[a]) > MaxDepth

EnterSub(a) ==
  /\ Waiting(a) /\ IsSub(a) /\ ~TooDeep(a) /\ live[Top(a).call.agent] # NoAgent
  /\ stack' = [stack EXCEPT ![a] = Append(@, Frame(Top(a).call.agent))]
  /\ UNCHANGED <<spanVars, live, streams, pc, opened, tries, queued, asked, made, mishaps>>

\* SubagentDepthExceeded, UnknownAgent, or no provider or tools for it.
EnterSubFails(a) ==
  /\ Waiting(a) /\ IsSub(a)
  /\ IF TooDeep(a) \/ live[Top(a).call.agent] = NoAgent THEN UNCHANGED mishaps ELSE Mishap
  /\ EndCall(a, stack[a], "error", "failed")
  /\ UNCHANGED <<live, streams, pc, opened, tries, queued, asked>>
-----------------------------------------------------------------------------
(* An act ends *)

\* complete_validated: the reply does not fit the format asked for.
Repair(a) ==
  /\ pc[a] = "finish" /\ a \in Chats \ streams
  /\ IF tries[a] < MaxRepairs
     THEN tries' = [tries EXCEPT ![a] = @ + 1] /\ Goto(a, "enter")
     ELSE UNCHANGED tries /\ Goto(a, "close")
  /\ UNCHANGED <<spanVars, live, streams, stack, opened, queued, asked, made, mishaps>>

\* The replays of a complete reply are spawned; record_llm_call, for a request
\* whose agent is still configured.
Finish(a) ==
  /\ pc[a] = "finish"
  /\ IF a \in Chats /\ live[Start[a]] # NoAgent
     THEN /\ opened' = [opened EXCEPT ![a] = @ + 1]
          /\ made' = [made EXCEPT ![a] = Append(@, Span(Root))]
          /\ CloseSpan(a, opened[a] + 1, Root)
     ELSE UNCHANGED <<spanVars, opened, made>>
  /\ IF a \in streams THEN Goto(a, "close") ELSE Launch(a, "close")
  /\ UNCHANGED <<live, streams, stack, tries, queued, asked, mishaps>>

\* The last handle of the root span goes.
Close(a) ==
  /\ pc[a] = "close"
  /\ CloseSpan(a, Root, NoParent)
  /\ Goto(a, "ended")
  /\ UNCHANGED <<live, streams, stack, opened, tries, queued, asked, made, mishaps>>

\* The client goes away: the future is dropped, the replays perhaps spawned.
\* The flush of a stream goes on.
Disconnect(a) ==
  /\ a \in Chats /\ Mishap
  /\ pc[a] \in {"enter", "run"} \cup (IF a \in streams THEN {} ELSE {"finish"})
  /\ CASE pc[a] = "run" -> Goto(a, "gone")
       [] pc[a] = "finish" -> Launch(a, "close")
       [] OTHER -> Goto(a, "close")
  /\ UNCHANGED <<spanVars, live, streams, stack, opened, tries, queued, asked, made>>

\* A dropped future drops what it runs before its own span: the innermost
\* tool span closes first.
Unwind(a) ==
  /\ pc[a] = "gone" /\ stack[a] # <<>>
  /\ IF Top(a).call = NoCall THEN UNCHANGED <<spanVars, made>>
     ELSE /\ CloseTool(a, Top(a).call, Around(a), "nothing")
          /\ made' = [made EXCEPT ![a][Top(a).call.n].fate = "cut"]
  /\ stack' = [stack EXCEPT ![a] = Below(a)]
  /\ UNCHANGED <<live, streams, pc, opened, tries, queued, asked, mishaps>>

\* Mutant: the flush hangs off the end of the stream, which nobody polls.
UnwoundUnpolled(a) ==
  /\ pc[a] = "gone" /\ stack[a] = <<>> /\ a \notin streams
  /\ Goto(a, "close")
  /\ UNCHANGED <<spanVars, live, streams, stack, opened, tries, queued, asked, made, mishaps>>

\* Nothing runs any more: an open stream flushes.
Unwound(a) ==
  /\ pc[a] = "gone" /\ stack[a] = <<>>
  /\ Goto(a, IF a \in streams THEN "finish" ELSE "close")
  /\ UNCHANGED <<spanVars, live, streams, stack, opened, tries, queued, asked, made, mishaps>>
-----------------------------------------------------------------------------
(* The operator and the process *)

\* An admin edit or a reload swaps the list.
EditAgents(l) ==
  /\ l # live /\ Mishap
  /\ live' = l
  /\ UNCHANGED <<spanVars, actVars>>

\* The process dies; pending tasks stay in the database.
Crash ==
  /\ Mishap
  /\ SpansCrash
  /\ pc' = [a \in Acts |-> IF pc[a] = "idle" THEN "idle" ELSE "dead"]
  /\ stack' = [a \in Acts |-> <<>>]
  /\ UNCHANGED <<live, streams, opened, tries, queued, asked, made>>

Writer ==
  /\ \/ Write /\ UNCHANGED mishaps
     \/ WriteFails /\ Mishap
  /\ UNCHANGED <<live, actVars>>

\* One step of an act, of its model or of its tools.
Work(a) ==
  \/ Enter(a) \/ EnterFails(a) \/ Ask(a) \/ Answer(a) \/ ModelFails(a)
  \/ \E t \in Tools : CallTool(a, t)
  \/ \E s \in Names : \E g \in Variants[s] : CallSub(a, s, g)
  \/ ToolReturns(a) \/ ToolFails(a) \/ BadArguments(a) \/ EnterSub(a) \/ EnterSubFails(a)
  \/ Repair(a) \/ Finish(a) \/ Close(a) \/ Unwind(a) \/ Unwound(a)

Next ==
  \/ \E a \in Acts : Begin(a) \/ Work(a) \/ Disconnect(a)
  \/ \E l \in Lists : EditAgents(l)
  \/ Writer \/ Crash

Spec == Init /\ [][Next]_vars

\* Models and tools answer, the runtime schedules every task, and the writer
\* is one of them.
FairSpec == Spec /\ WF_vars(Writer) /\ \A a \in Acts : WF_vars(Work(a))
-----------------------------------------------------------------------------
(* Properties *)

\* The most an agent can ask models with k levels to go, its own included: its
\* rounds and one answer, and what every call of a round sets off one level down.
Cost[k \in 0..(MaxDepth + 1)] ==
  IF k = 0 THEN 0 ELSE MaxRounds + 1 + MaxRounds * MaxBatch * Cost[k - 1]

Most == Cost[MaxDepth + 1]

\* MAX_SUBAGENT_DEPTH keeps "pathological loops" from burning tokens: however
\* agents list one another, and whatever is edited meanwhile, one run of an
\* agent asks models a bounded number of times.
WorkBounded == \A a \in Acts : asked[a] <= Most

Stored(a, n) == \E e \in events : e.act = a /\ e.n = n
Missing(a)   == {r.n : r \in {q \in lost : q.act = a}}

\* How many spans are above span n.
Nesting(a) ==
  LET above[n \in 1..Len(made[a])] ==
        IF made[a][n].parent = NoParent THEN 0 ELSE above[made[a][n].parent] + 1
  IN  above

\* "Child spans nest automatically": once a turn's own row is stored, so is
\* every span of the turn, short of failed inserts; the studio shows every row
\* under the call that caused it, and until then no deeper than it belongs.
\* This holds for requests that end, fail, are dropped or die with the process.
TreeFaithful ==
  \A a \in Recorded :
    LET page == Page(Turn[a])
        mine == {e \in page : e.act = a}
        whole == Stored(a, Root) /\ Missing(a) = {}
    IN  /\ whole => \A n \in 1..opened[a] : Stored(a, n)
        /\ \A e \in mine : Depths(page)[e] <= Nesting(a)[e.n]
        /\ whole => \A e \in mine : Depths(page)[e] = Nesting(a)[e.n]

\* tool_calls lists the calls of a turn in the order they ended, a call after
\* those it caused, numbered without gaps; a result is told only of calls that
\* returned, an error only of calls that failed and of every MCP, skill or
\* agent call that failed ("closing the blind spot that let hallucinated
\* tool-failure replies hide real upstream errors").  Neither is told of a call
\* that was cut, of a queue tool that failed, or of an agent or skill_file call
\* whose arguments did not parse: those leave no trace but the empty row.
CallsFaithful ==
  \A a \in Recorded :
    LET rows == CallsOf(a)
        fate(i) == made[a][calls[i].n].fate
    IN  /\ \A i, j \in rows : i < j =>
              calls[i].ordinal < calls[j].ordinal /\ made[a][calls[j].n].parent # calls[i].n
        /\ (Missing(a) = {}) =>
              \A i \in rows : \A k \in 0..(calls[i].ordinal - 1) :
                \E j \in rows : j < i /\ calls[j].ordinal = k
        /\ \A i \in rows :
             /\ calls[i].told = "result" => fate(i) = "ok"
             /\ calls[i].told = "error" => fate(i) = "failed"
             /\ (fate(i) = "failed" /\ calls[i].tool \notin Quiet) => calls[i].told = "error"
             /\ calls[i].told = "nothing" =>
                  fate(i) \in {"cut", "refused"} \/ (fate(i) = "failed" /\ calls[i].tool \in Quiet)

\* What the studio shows of a turn is what happened in it: every call under the
\* one that caused it, in order, with its error.
SpansFaithful == TreeFaithful /\ CallsFaithful

\* Nothing is left to do for an act: it has ended and, unless its insert failed,
\* its own row is stored; or the process died.
Settled(a) ==
  \/ pc[a] = "dead"
  \/ pc[a] = "ended" /\ (a \in Recorded => Root \in Missing(a) \/ Stored(a, Root))

\* Every run of an agent that begins ends, also when its client has gone or its
\* list has changed, and reaches the studio: from some time on, all have.
ActsEnd == <>[](\A a \in Acts : pc[a] = "idle" \/ Settled(a))
=============================================================================
