------------------------------ MODULE ChatTurn ------------------------------
(***************************************************************************)
(* Chat completions of one user on one API token: admission, the provider  *)
(* call with its format repairs, the SSE stream with its flush guard, and  *)
(* what a turn leaves behind in the windows, the ledger and the            *)
(* conversation (cli server.rs and stream.rs).                             *)
(*                                                                         *)
(* A client may go away at any time: the handler of a non-streaming turn   *)
(* is then dropped where it stands, while the guard of a stream spawns the *)
(* flush, which nothing but a crash stops.                                 *)
(***************************************************************************)
EXTENDS Quotas, Sequences, FiniteSets, FiniteSetsExt

CONSTANTS
  Reqs,       \* the requests
  Streams,    \* those with stream: true
  Caps,       \* what a request may send as limits
  MaxRepairs, \* MAX_FORMAT_REPAIRS
  MaxUse,     \* bound: tokens of one provider call
  Scenarios   \* bounds: what is sent (json: with a JSON response_format), whether one
              \* after the other, and what may go wrong

ASSUME ChatAssumption ==
  /\ Streams \subseteq Reqs /\ IsFiniteSet(Reqs)
  /\ Caps \subseteq [Kind -> Nat \cup {NoCap}]
  /\ MaxRepairs \in Nat /\ MaxUse \in Nat \ {0}

ASSUME ScenarioAssumption ==
  Scenarios \subseteq [reqs : SUBSET Reqs, json : SUBSET Reqs, serial : BOOLEAN,
                       caps : SUBSET Caps, clock : 0..MaxClock,
                       revokes : Nat, crashes : Nat, faults : Nat, gone : Nat]

VARIABLES
  scenario,  \* which of Scenarios this behaviour is of; never changes
  pc,        \* progress of a request
  caps,      \* its limits
  attempts,  \* format repairs so far
  consumed,  \* tokens the provider has consumed for it
  usage,     \* the usage the turn will record
  text,      \* the reply: "none", "partial" or "full"
  recAt,     \* the time Tracker::record took
  replied,   \* the client has the whole reply
  log,       \* messages: the conversation
  jobs,      \* turns handed to the extractor and the judges
  owed,      \* history: tokens the upserts added, per window
  uncounted, \* history: turns one of whose upserts failed
  unpaid,    \* history: turns whose charge failed
  crashes, faults, gone

historyVars == <<owed, uncounted, unpaid>>
reqVars  == <<pc, caps, attempts, consumed, usage, text, recAt, replied>>
vars     == <<now, quotaVars, reqVars, log, jobs, historyVars, crashes, faults, gone,
              scenario>>

Flushing == {"record", "hour", "day", "month", "spend", "user", "assistant"}
Ended    == {"rejected", "failed", "done", "gone"}
Pending(r) == pc[r] \notin Ended \cup {"new"}

Fault == faults < scenario.faults /\ faults' = faults + 1
Goto(r, where) == pc' = [pc EXCEPT ![r] = where]

Init ==
  /\ QuotaInit /\ scenario \in Scenarios
  /\ pc = [r \in Reqs |-> "new"] /\ caps \in [Reqs -> scenario.caps]
  /\ \A r \in Reqs \ scenario.reqs : caps[r] = CHOOSE c \in scenario.caps : TRUE
  /\ attempts = [r \in Reqs |-> 0]
  /\ consumed = [r \in Reqs |-> 0] /\ usage = [r \in Reqs |-> 0]
  /\ text = [r \in Reqs |-> "none"] /\ recAt = [r \in Reqs |-> 0]
  /\ replied = [r \in Reqs |-> FALSE]
  /\ log = <<>> /\ jobs = {}
  /\ owed = [k \in Kind |-> [t \in 0..MaxClock |-> 0]]
  /\ uncounted = {} /\ unpaid = {}
  /\ crashes = 0 /\ faults = 0 /\ gone = 0
-----------------------------------------------------------------------------
(* Admission *)

\* TokenStore::verify in the authentication layer.
Verify(r) ==
  /\ pc[r] = "new" /\ r \in scenario.reqs
  /\ scenario.serial => \A q \in Reqs : ~Pending(q)
  /\ Goto(r, IF revoked THEN "rejected" ELSE "limits")
  /\ UNCHANGED <<now, quotaVars, caps, attempts, consumed, usage, text, recAt, replied,
                 log, jobs, historyVars, crashes, faults, gone>>

\* Tracker::check.
CheckLimits(r) ==
  /\ pc[r] = "limits"
  /\ Goto(r, IF Reached(caps[r], now) THEN "rejected" ELSE "budget")
  /\ UNCHANGED <<now, quotaVars, caps, attempts, consumed, usage, text, recAt, replied,
                 log, jobs, historyVars, crashes, faults, gone>>

\* TokenStore::check_budget; the context, the instructions and the route follow.
CheckBudget(r) ==
  /\ pc[r] = "budget"
  /\ Goto(r, IF OverBudget(now) THEN "rejected" ELSE "call")
  /\ UNCHANGED <<now, quotaVars, caps, attempts, consumed, usage, text, recAt, replied,
                 log, jobs, historyVars, crashes, faults, gone>>

\* A failed query, an empty request, a bad schema or a failed provider call
\* ends the request with an error; tokens of earlier attempts are forgotten.
Fails(r) ==
  /\ pc[r] \in {"limits", "budget", "call"}
  /\ Fault
  /\ Goto(r, "failed")
  /\ UNCHANGED <<now, quotaVars, caps, attempts, consumed, usage, text, recAt, replied,
                 log, jobs, historyVars, crashes, gone>>
-----------------------------------------------------------------------------
(* Without stream: complete_validated *)

\* Mutant: the usage of a repaired attempt replaces that of the one before.
CompleteForgets(r) ==
  /\ pc[r] = "call" /\ r \notin Streams
  /\ \E u \in 1..MaxUse :
       /\ consumed' = [consumed EXCEPT ![r] = @ + u]
       /\ usage' = [usage EXCEPT ![r] = u]
  /\ text' = [text EXCEPT ![r] = "full"]
  /\ Goto(r, "validate")
  /\ UNCHANGED <<now, quotaVars, caps, attempts, recAt, replied, log, jobs, historyVars,
                 crashes, faults, gone>>

\* Agents::complete; the usage of the attempts is merged.
Complete(r) ==
  /\ pc[r] = "call" /\ r \notin Streams
  /\ \E u \in 1..MaxUse :
       /\ consumed' = [consumed EXCEPT ![r] = @ + u]
       /\ usage' = [usage EXCEPT ![r] = @ + u]
  /\ text' = [text EXCEPT ![r] = "full"]
  /\ Goto(r, "validate")
  /\ UNCHANGED <<now, quotaVars, caps, attempts, recAt, replied, log, jobs, historyVars,
                 crashes, faults, gone>>

\* No format is asked for, or the reply fits it.
Valid(r) ==
  /\ pc[r] = "validate"
  /\ Goto(r, "record")
  /\ UNCHANGED <<now, quotaVars, caps, attempts, consumed, usage, text, recAt, replied,
                 log, jobs, historyVars, crashes, faults, gone>>

\* The reply does not fit: ask again with the error, or give up.
Invalid(r) ==
  /\ pc[r] = "validate" /\ r \in scenario.json
  /\ IF attempts[r] >= MaxRepairs
     THEN Goto(r, "failed") /\ UNCHANGED <<attempts, text>>
     ELSE /\ attempts' = [attempts EXCEPT ![r] = @ + 1]
          /\ text' = [text EXCEPT ![r] = "none"]
          /\ Goto(r, "call")
  /\ UNCHANGED <<now, quotaVars, caps, consumed, usage, recAt, replied, log, jobs, historyVars,
                 crashes, faults, gone>>
-----------------------------------------------------------------------------
(* With stream: into_sse *)

\* complete_streaming returned: the provider has read the prompt and the
\* guard is armed.
OpenStream(r) ==
  /\ pc[r] = "call" /\ r \in Streams
  /\ consumed' = [consumed EXCEPT ![r] = 1]
  /\ Goto(r, "stream")
  /\ UNCHANGED <<now, quotaVars, caps, attempts, usage, text, recAt, replied,
                 log, jobs, historyVars, crashes, faults, gone>>

Delta(r) ==
  /\ pc[r] = "stream" /\ consumed[r] < MaxUse
  /\ consumed' = [consumed EXCEPT ![r] = @ + 1]
  /\ text' = [text EXCEPT ![r] = "partial"]
  /\ UNCHANGED <<now, quotaVars, pc, caps, attempts, usage, recAt, replied, log, jobs,
                 historyVars, crashes, faults, gone>>

\* StreamEvent::Done carries the usage of the whole turn; only then does the
\* guard know it.
Done(r) ==
  /\ pc[r] = "stream"
  /\ usage' = [usage EXCEPT ![r] = consumed[r]]
  /\ text' = [text EXCEPT ![r] = IF @ = "none" THEN @ ELSE "full"]
  /\ Goto(r, "closing")
  /\ UNCHANGED <<now, quotaVars, caps, attempts, consumed, recAt, replied, log, jobs,
                 historyVars, crashes, faults, gone>>

\* The stop event, or an error event when the text does not fit the format,
\* and [DONE]; the guard drops.
Close(r) ==
  /\ pc[r] = "closing"
  /\ \E ok \in (IF r \in scenario.json THEN BOOLEAN ELSE {TRUE}) :
       replied' = [replied EXCEPT ![r] = ok]
  /\ Goto(r, "record")
  /\ UNCHANGED <<now, quotaVars, caps, attempts, consumed, usage, text, recAt, log, jobs,
                 historyVars, crashes, faults, gone>>

\* The provider fails mid-stream.
StreamError(r) ==
  /\ pc[r] \in {"stream", "closing"}
  /\ Fault
  /\ Goto(r, "record")
  /\ UNCHANGED <<now, quotaVars, caps, attempts, consumed, usage, text, recAt, replied,
                 log, jobs, historyVars, crashes, gone>>

\* Mutant: the guard is gone with the stream.
DisconnectDrops(r) ==
  /\ Pending(r) /\ gone < scenario.gone
  /\ r \in Streams => pc[r] \notin Flushing
  /\ gone' = gone + 1
  /\ Goto(r, "gone")
  /\ UNCHANGED <<now, quotaVars, caps, attempts, consumed, usage, text, recAt, replied,
                 log, jobs, historyVars, crashes, faults>>

\* The client goes away: the handler is dropped, an open stream flushes.
Disconnect(r) ==
  /\ Pending(r) /\ gone < scenario.gone
  /\ r \in Streams => pc[r] \notin Flushing
  /\ gone' = gone + 1
  /\ Goto(r, IF pc[r] \in {"stream", "closing"} THEN "record" ELSE "gone")
  /\ UNCHANGED <<now, quotaVars, caps, attempts, consumed, usage, text, recAt, replied,
                 log, jobs, historyVars, crashes, faults>>
-----------------------------------------------------------------------------
(* finalize_non_streaming, MemoryFlush::drop *)

\* Tracker::record takes the time once; a turn without usage adds nothing.
BeginRecord(r) ==
  /\ pc[r] = "record"
  /\ IF usage[r] = 0
     THEN Goto(r, "spend") /\ UNCHANGED recAt
     ELSE Goto(r, "hour") /\ recAt' = [recAt EXCEPT ![r] = now]
  /\ UNCHANGED <<now, quotaVars, caps, attempts, consumed, usage, text, replied, log,
                 jobs, historyVars, crashes, faults, gone>>

After == [hour |-> "day", day |-> "month", month |-> "spend"]

\* One of the three upserts.
RecordKind(r) ==
  /\ pc[r] \in Kind
  /\ Upsert(pc[r], recAt[r], usage[r])
  /\ owed' = [owed EXCEPT ![pc[r]][Start(pc[r], recAt[r])] = @ + usage[r]]
  /\ Goto(r, After[pc[r]])
  /\ UNCHANGED <<uncounted, unpaid, now, ledger, revoked, caps, attempts, consumed, usage, text, recAt,
                 replied, log, jobs, crashes, faults, gone>>

\* A failed upsert skips the others; it is only logged.
RecordFails(r) ==
  /\ pc[r] \in Kind
  /\ Fault
  /\ Goto(r, "spend")
  /\ uncounted' = uncounted \cup {r}
  /\ UNCHANGED <<now, quotaVars, caps, attempts, consumed, usage, text, recAt, replied,
                 log, jobs, owed, unpaid, crashes, gone>>

RecordSpend(r) ==
  /\ pc[r] = "spend"
  /\ Charge(now, usage[r])
  /\ Goto(r, "user")
  /\ UNCHANGED <<now, window, revoked, caps, attempts, consumed, usage, text, recAt,
                 replied, log, jobs, historyVars, crashes, faults, gone>>

\* A failed insert is only logged.
SpendFails(r) ==
  /\ pc[r] = "spend"
  /\ Fault
  /\ Goto(r, "user")
  /\ unpaid' = unpaid \cup {r}
  /\ UNCHANGED <<now, quotaVars, caps, attempts, consumed, usage, text, recAt, replied,
                 log, jobs, owed, uncounted, crashes, gone>>

\* append_message; a stream without text has no reply to store.
AppendUser(r) ==
  /\ pc[r] = "user"
  /\ log' = Append(log, <<"user", r>>)
  /\ Goto(r, IF text[r] = "none" THEN "done" ELSE "assistant")
  /\ UNCHANGED <<now, quotaVars, caps, attempts, consumed, usage, text, recAt, replied,
                 jobs, historyVars, crashes, faults, gone>>

\* The flush logs the failure and goes on; the handler returns the error.
AppendUserFails(r) ==
  /\ pc[r] = "user"
  /\ Fault
  /\ Goto(r, IF r \notin Streams THEN "failed"
             ELSE IF text[r] = "none" THEN "done" ELSE "assistant")
  /\ UNCHANGED <<now, quotaVars, caps, attempts, consumed, usage, text, recAt, replied,
                 log, jobs, historyVars, crashes, gone>>

\* append_message_with_id, then the extractor and the judges are started; a
\* non-streaming client gets its reply.
AppendAssistant(r) ==
  /\ pc[r] = "assistant"
  /\ log' = Append(log, <<"assistant", r>>)
  /\ jobs' = jobs \cup {r}
  /\ replied' = [replied EXCEPT ![r] = @ \/ r \notin Streams]
  /\ Goto(r, "done")
  /\ UNCHANGED <<now, quotaVars, caps, attempts, consumed, usage, text, recAt, historyVars,
                 crashes, faults, gone>>

AppendAssistantFails(r) ==
  /\ pc[r] = "assistant"
  /\ Fault
  /\ Goto(r, IF r \in Streams THEN "done" ELSE "failed")
  /\ UNCHANGED <<now, quotaVars, caps, attempts, consumed, usage, text, recAt, replied,
                 log, jobs, historyVars, crashes, gone>>
-----------------------------------------------------------------------------
(* The operator, the process and time *)

Revoke ==
  /\ scenario.revokes > 0 /\ ~revoked
  /\ revoked' = TRUE
  /\ UNCHANGED <<now, window, ledger, reqVars, log, jobs, historyVars, crashes, faults, gone>>

\* The process dies: what is pending is lost, the database stays.
Crash ==
  /\ crashes < scenario.crashes
  /\ crashes' = crashes + 1
  /\ pc' = [r \in Reqs |-> IF Pending(r) THEN "gone" ELSE pc[r]]
  /\ UNCHANGED <<now, quotaVars, caps, attempts, consumed, usage, text, recAt, replied,
                 log, jobs, historyVars, faults, gone>>

Tick ==
  /\ now < scenario.clock
  /\ now' = now + 1
  /\ UNCHANGED <<quotaVars, reqVars, log, jobs, historyVars, crashes, faults, gone>>

Turn(r) == UNCHANGED scenario /\
 (\/ Verify(r) \/ CheckLimits(r) \/ CheckBudget(r)
  \/ Complete(r) \/ Valid(r) \/ Invalid(r)
  \/ OpenStream(r) \/ Delta(r) \/ Done(r) \/ Close(r)
  \/ BeginRecord(r) \/ RecordKind(r) \/ RecordSpend(r) \/ AppendUser(r) \/ AppendAssistant(r))

Mishap(r) == UNCHANGED scenario /\
 (\/ Fails(r) \/ StreamError(r) \/ Disconnect(r) \/ RecordFails(r) \/ SpendFails(r)
  \/ AppendUserFails(r) \/ AppendAssistantFails(r))

Next ==
  \/ \E r \in Reqs : Turn(r) \/ Mishap(r)
  \/ (Revoke \/ Crash \/ Tick) /\ UNCHANGED scenario

Spec == Init /\ [][Next]_vars

\* A started turn goes on: the runtime schedules its task, the provider
\* answers and a stream ends.
FairSpec == Spec /\ \A r \in Reqs : WF_vars(Turn(r))
-----------------------------------------------------------------------------
(* Properties *)

TurnTypes ==
  /\ pc \in [Reqs -> {"new", "limits", "budget", "call", "validate", "stream", "closing"}
                     \cup Flushing \cup Ended]
  /\ caps \in [Reqs -> Caps] /\ attempts \in [Reqs -> 0..MaxRepairs]
  /\ text \in [Reqs -> {"none", "partial", "full"}]

TokenTypes ==
  /\ consumed \in [Reqs -> Nat] /\ usage \in [Reqs -> Nat]
  /\ recAt \in [Reqs -> 0..MaxClock] /\ owed \in [Kind -> [0..MaxClock -> Nat]]
  /\ uncounted \subseteq Reqs /\ unpaid \subseteq Reqs
  /\ crashes \in Nat /\ faults \in Nat /\ gone \in Nat

ReplyTypes ==
  /\ replied \in [Reqs -> BOOLEAN] /\ jobs \subseteq Reqs
  /\ log \in Seq({"user", "assistant"} \X Reqs)

TypeOK == QuotaTypes /\ TurnTypes /\ TokenTypes /\ ReplyTypes

\* The most a turn can consume: the first call and the repairs.
MaxTurn == MaxUse * (MaxRepairs + 1)

\* Tracker::record: however turns overlap, fail or straddle a boundary, a
\* counter holds no more than what was recorded in its window.
NeverOvercounted == \A k \in Kind : window[k].count <= owed[k][window[k].start]

\* Tracker::record: "the row is replaced with a fresh `(start, tokens)` pair"
\* only when the window has rolled over, so the current window's counter
\* holds everything that was recorded in it, when turns do not overlap.
CountersExact == scenario.serial => \A k \in Kind : Count(k, now) = owed[k][Start(k, now)]

\* Tracker::check: a user whose requests carry a cap overruns it by less than
\* one turn.
WindowOverrun ==
  \A k \in Kind, q \in Reqs :
    caps[q][k] \notin {NoCap, 0} /\ (\A r \in Reqs : caps[r][k] = caps[q][k]) =>
      window[k].count < caps[q][k] + MaxTurn

\* TokenStore::check_budget: the charges of a month, or of a lifetime, exceed
\* the budget by less than the cost of one turn.
BudgetOverrun ==
  BudgetKind # "unlimited" /\ Limit > 0 => Spent(now) < Limit + MaxTurn * Price

\* Admission is tight: turns sent one after the other overrun caps and budget
\* by less than one turn; the budget until the token is revoked, which lifts it
\* for a request that was verified before.
OverrunBounded == scenario.serial => WindowOverrun /\ (~revoked => BudgetOverrun)

\* The counters a request is admitted on hold what was recorded, and what is
\* admitted on them overruns neither caps nor budget by a turn.
CountersSound == CountersExact /\ OverrunBounded

\* What the provider has consumed for some requests.
Tokens(S) == MapThenSumSet(LAMBDA r : consumed[r], S)

\* The turns that were finished, and not cut off before the usage was known.
Settled == {r \in Reqs : pc[r] = "done" /\ (r \in Streams => text[r] = "full")}

\* complete_validated returns "the cumulative usage across every attempt", and
\* the turn records it: the token has been charged all that the provider
\* consumed for the turns that settled, short of failed inserts, and never more
\* than it consumed for all; and the windows a request is admitted on hold all
\* that settled in them, short of failed upserts, when turns do not overlap.
UsageRecorded ==
  /\ Price * Tokens(Settled \ unpaid) <= ledger.total
  /\ ledger.total <= Price * Tokens(Reqs)
  /\ scenario.serial => \A k \in Kind :
       Tokens({r \in Settled \ uncounted : Start(k, recAt[r]) = Start(k, now)}) <= Count(k, now)

\* The flush "records token usage when the SSE stream ends, regardless of
\* whether it ended normally or the client disconnected".
UsageOnDisconnect ==
  faults = 0 => \A r \in Streams : pc[r] = "done" => usage[r] = consumed[r]

\* The conversation has no reply without its question before it, whatever
\* fails; a stream goes on after a failed append of the question.
QuestionFirst ==
  \A i \in 1..Len(log) :
    log[i][1] = "assistant" /\ (faults = 0 \/ log[i][2] \notin Streams) =>
      \E j \in 1..(i - 1) : log[j] = <<"user", log[i][2]>>

\* A turn that settled leaves its record: its usage is charged, and its answer
\* follows its question.
TurnKept == UsageRecorded /\ QuestionFirst

\* The flush guard: text that reached a stream is in the conversation in the
\* end, also when the client goes away, unless a write fails or the process dies.
PartialKept ==
  \A r \in Streams :
    (scenario.crashes + scenario.faults = 0 /\ pc[r] = "stream" /\ text[r] # "none") ~> (\E i \in 1..Len(log) : log[i] = <<"assistant", r>>)

\* Repairs, streams and flushes are finite: every request comes to an end.
TurnsEnd == \A r \in Reqs : (r \in scenario.reqs) ~> (pc[r] \in Ended)

\* Every request ends, and what it streamed is kept.
TurnsSettle == PartialKept /\ TurnsEnd
=============================================================================
