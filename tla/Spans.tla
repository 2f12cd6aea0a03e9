------------------------------- MODULE Spans -------------------------------
(***************************************************************************)
(* The telemetry layer (crates/telemetry): spans of the runtime become     *)
(* rows when they close.  on_close sends the rows down a channel; a task   *)
(* inserts them one by one; the studio draws a turn's rows as a tree.      *)
(*                                                                         *)
(* An act is one run of an agent, with spans numbered as they open; span 1 *)
(* is its root.  A shadow replay is an act of its own with the turn id of  *)
(* the request it replays.                                                 *)
(***************************************************************************)
EXTENDS Naturals, Sequences, FiniteSets

CONSTANTS
  Acts,      \* runs of an agent
  Recorded,  \* those whose root is a `turn` span; other roots have no context
  Turn       \* the turn id of an act

ASSUME SpansAssumption == Recorded \subseteq Acts /\ DOMAIN Turn = Acts

VARIABLES
  ordinal,  \* TurnExt::ordinal of each turn span
  queue,    \* the channel of write jobs
  events,   \* rows of the events table
  calls,    \* rows of tool_calls, in rowid order
  lost      \* history: rows whose insert failed

spanVars == <<ordinal, queue, events, calls, lost>>

Root == 1
NoParent == 0

SpansInit ==
  /\ ordinal = [a \in Acts |-> 0]
  /\ queue = <<>> /\ events = {} /\ calls = <<>> /\ lost = {}

Event(a, n, parent) == [table |-> "events", act |-> a, n |-> n, parent |-> parent]

\* A closed tool span told the result of its call, its error, or nothing (the
\* result column is null, too, when the result is empty text).
ToolCall(a, call, told) ==
  [table |-> "tool_calls", act |-> a, n |-> call.n, tool |-> call.tool,
   ordinal |-> ordinal[a], told |-> told]

\* on_close of a tool_call span: without a turn above it, nothing is recorded.
CloseTool(a, call, parent, told) ==
  IF a \in Recorded
  THEN /\ queue' = queue \o <<Event(a, call.n, parent), ToolCall(a, call, told)>>
       /\ ordinal' = [ordinal EXCEPT ![a] = @ + 1]
       /\ UNCHANGED <<events, calls, lost>>
  ELSE UNCHANGED spanVars

\* on_close of an llm_call or a turn span.
CloseSpan(a, n, parent) ==
  /\ queue' = IF a \in Recorded THEN Append(queue, Event(a, n, parent)) ELSE queue
  /\ UNCHANGED <<ordinal, events, calls, lost>>

\* The writer task inserts the oldest job.
Write ==
  /\ queue # <<>>
  /\ LET row == Head(queue) IN
       IF row.table = "events"
       THEN events' = events \cup {row} /\ UNCHANGED calls
       ELSE calls' = Append(calls, row) /\ UNCHANGED events
  /\ queue' = Tail(queue)
  /\ UNCHANGED <<ordinal, lost>>

\* A failed insert is logged and the row dropped.
WriteFails ==
  /\ queue # <<>>
  /\ lost' = lost \cup {Head(queue)}
  /\ queue' = Tail(queue)
  /\ UNCHANGED <<ordinal, events, calls>>

\* The process ends: the channel is gone.
SpansCrash ==
  /\ queue' = <<>> /\ ordinal' = [a \in Acts |-> 0]
  /\ UNCHANGED <<events, calls, lost>>
-----------------------------------------------------------------------------
(* The studio: fetch_turn, EventTree, tool_calls_for_turn *)

Page(t) == {e \in events : Turn[e.act] = t}

\* The row above e in the tree: a row whose parent is not there is at the top.
Above(page, e) == {p \in page : p.act = e.act /\ p.n = e.parent}

\* Indentation of each row of a page.
Depths(page) ==
  LET depth[e \in page] ==
        IF Above(page, e) = {} THEN 0
        ELSE depth[CHOOSE p \in Above(page, e) : TRUE] + 1
  IN  depth

\* Rows of one turn span: where they are in rowid order.
CallsOf(a) == {i \in DOMAIN calls : calls[i].act = a}
=============================================================================
