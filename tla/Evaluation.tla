----------------------------- MODULE Evaluation -----------------------------
(***************************************************************************)
(* Everything that produces a scored reply: chat turns routed by an        *)
(* experiment, the shadow replays of a served turn, smoke-test runs, and   *)
(* the background judges whose scores feed the bandit back (cli/src/       *)
(* server.rs, stream.rs, shadow.rs, smoke_runner.rs, crates/judges,        *)
(* crates/smoke).                                                          *)
(*                                                                         *)
(* The agent list is live (the studio edits it at any time); the router    *)
(* and the judges are built at boot.  Database rows are not validated, so  *)
(* the router may hold an experiment that config load would refuse.        *)
(***************************************************************************)
EXTENDS Experiments

CONSTANTS
    Users,        \* users of the chat endpoint
    Runs,         \* smoke-run ids, each with its own synthetic user
    Hash,         \* sticky seed of a user: hash of (user id, experiment name)
    Rubrics,      \* the judges built at boot, with their criteria
    Rates,        \* their sampling rates, over Scale
    BootAgents,   \* the agents at boot, with their judges
    JudgeLists,   \* the judge lists the studio may give an agent
    Gone,         \* no agent of that name
    Configs,      \* experiments the router may be built from
    Tests,        \* smoke tests the studio may launch
    RawScores,    \* the numbers a judge model may answer
    NaN,
    MaxScore,     \* the top of the scale (10)
    MaxReplies,   \* bound: model calls of agents
    MaxUpsets     \* bound: studio edits of agents and restarts

ASSUME EvaluationAssumption ==
    /\ Users \cap Runs = {}
    /\ Hash \in [Users \cup Runs -> Seeds]
    /\ MaxScore \in Nat /\ RawScores \subseteq Int \cup {NaN} /\ NaN \notin Int
    /\ Gone \notin Seq(Judges) /\ JudgeLists \subseteq Seq(Judges)
    /\ BootAgents \in [Agents -> Seq(Judges)]
    /\ DOMAIN Rubrics \subseteq Judges
    /\ \A j \in DOMAIN Rubrics : Rubrics[j] \subseteq Criteria /\ Rates[j] \in 0 .. Scale
    /\ Configs \subseteq ExperimentConfig
    \* A hash has more values than an experiment has arms.
    /\ \A e \in Configs : Len(e.variants) <= Scale
    /\ \A t \in Tests :
          /\ t.target \in Agents \cup {ExperimentName}
          /\ t.maxTurns \in Nat /\ t.repetitions \in Nat
          /\ t.initial \in BOOLEAN /\ t.marker \in BOOLEAN
    /\ MaxReplies \in Nat /\ MaxUpsets \in Nat

VARIABLES
    exp,        \* the experiment in the router
    agents,     \* the live agent list
    turn,       \* the chat turn of each user
    reply,      \* one entry per agent call, its index is the message id
    history,    \* assistant messages in each user's conversation
    scores,     \* judge answers, oldest first; one row per criterion each
    since,      \* the scores up to here are older than the bandit's window
    run,        \* smoke_runs
    messages,   \* smoke_messages
    task,       \* the spawned run_once of each run
    pending,    \* the dispatch loop of "Run now"
    budget, upsets

evaluationVars == <<exp, agents, turn, reply, history, scores, since, run,
          messages, task, pending, budget, upsets>>

Names == Agents \cup {ExperimentName}
NoTest == [target |-> ExperimentName, maxTurns |-> 0, repetitions |-> 0,
           initial |-> FALSE, marker |-> FALSE]
TestConfigs == Tests \cup {NoTest}
Message == [turn : Nat, role : {"assistant", "persona"}, id : Nat, stop : BOOLEAN]
Active == {"persona", "read", "route", "call", "finish", "failing"}

IdleTurn == [pc |-> "idle", stream |-> FALSE, lo |-> 0, hi |-> 0, id |-> 0]
NoRun == [status |-> "none", turns |-> 0, resolved |-> Unset]
Unspawned == [pc |-> "none", test |-> NoTest, turn |-> 0, conv |-> << >>,
              recorded |-> FALSE, lo |-> 0, hi |-> 0, agent |-> ExperimentName,
              id |-> 0]

EvaluationInit ==
    /\ exp \in Configs
    /\ agents = BootAgents
    /\ turn = [u \in Users |-> IdleTurn]
    /\ reply = << >>
    /\ history = [u \in Users |-> {}]
    /\ scores = << >>
    /\ since = 0
    /\ run = [r \in Runs |-> NoRun]
    /\ messages = [r \in Runs |-> {}]
    /\ task = [r \in Runs |-> Unspawned]
    /\ pending = [test |-> NoTest, left |-> 0]
    /\ budget = MaxReplies
    /\ upsets = 0

----------------------------------------------------------------------------
(* Scores.                                                                 *)

Count(S) == Cardinality(S)

SummaryAnyJudge(lo, hi) ==
    LET Rows(a) == {k \in (lo + 1) .. hi :
                       /\ exp.metric # Unset
                       /\ scores[k].agent = a
                       /\ exp.metric[2] \in DOMAIN scores[k].marks}
        Sum(a) == LET add[k \in lo .. hi] ==
                          IF k = lo THEN 0
                          ELSE add[k - 1] + IF k \in Rows(a)
                                            THEN scores[k].marks[exp.metric[2]] ELSE 0
                  IN  add[hi]
    IN  [a \in Agents |-> [samples |-> Count(Rows(a)), sum |-> Sum(a)]]

\* mean_scores_by_agent over the answers lo+1 .. hi: for each agent the
\* number of rows of the metric and their sum.
Summary(lo, hi) ==
    LET Rows(a) == {k \in (lo + 1) .. hi :
                       /\ exp.metric # Unset
                       /\ scores[k].agent = a
                       /\ scores[k].judge = exp.metric[1]
                       /\ exp.metric[2] \in DOMAIN scores[k].marks}
        Sum(a) == LET add[k \in lo .. hi] ==
                          IF k = lo THEN 0
                          ELSE add[k - 1] + IF k \in Rows(a)
                                            THEN scores[k].marks[exp.metric[2]] ELSE 0
                  IN  add[hi]
    IN  [a \in Agents |-> [samples |-> Count(Rows(a)), sum |-> Sum(a)]]

\* What the query reads: the window at this moment, nothing when the
\* strategy asks no query or the query fails.
Window == IF exp.strategy = "bandit" THEN {<<since, Len(scores)>>, <<0, 0>>}
          ELSE {<<0, 0>>}

\* The judges of an agent as the live list has them.  Those that were not
\* built at boot are passed over when their turn comes.
JudgesFor(a) == IF a \notin Agents \/ agents[a] = Gone THEN << >> ELSE agents[a]

Live(a) == a \in Agents /\ agents[a] # Gone

\* clamp_score.
Clamp(raw) ==
    CASE raw = NaN      -> 0
      [] raw < 0        -> 0
      [] raw > MaxScore -> MaxScore
      [] OTHER          -> raw

Call(kind, user, agent) ==
    [kind |-> kind, user |-> user, agent |-> agent, queue |-> << >>,
     state |-> IF Live(agent) THEN "calling" ELSE "failed"]

\* spawn_shadow_runs: the agents that replay a turn, none when the turn is
\* not sampled.
NameLists == UNION {[1 .. n -> Agents] : n \in 0 .. Len(exp.variants)}

Shadows == {names \in NameLists :
               \E fresh \in Seeds :
                  names = IF ShouldSample(exp, fresh) THEN ShadowVariants(exp) ELSE << >>}

ShadowCalls(u, names) == [i \in 1 .. Len(names) |-> Call("shadow", u, names[i])]

Scored(m) == [reply[m] EXCEPT !.state = "done", !.queue = JudgesFor(reply[m].agent)]

----------------------------------------------------------------------------
(* Chat turns.                                                             *)

TurnCost == 1 + Len(ShadowVariants(exp))

\* resolve_routing asks for the bandit's scores.
AskScores(u, stream) ==
    /\ turn[u].pc = "idle"
    /\ budget >= TurnCost
    /\ budget' = budget - TurnCost
    /\ \E w \in Window :
          turn' = [turn EXCEPT ![u] = [pc |-> "route", stream |-> stream,
                                       lo |-> w[1], hi |-> w[2], id |-> 0]]
    /\ UNCHANGED <<exp, agents, reply, history, scores, since, run,
                   messages, task, pending, upsets>>

\* It picks the variant and the call starts.  A streamed turn spawns its
\* shadow replays before the call.  An unknown agent fails the request.
Route(u) ==
    /\ turn[u].pc = "route"
    /\ \E fresh \in Seeds, a \in Names, names \in Shadows :
          /\ a = Resolve(exp, ExperimentName, Summary(turn[u].lo, turn[u].hi), Hash[u], fresh)
          /\ reply' = Append(reply, Call("chat", u, a))
                         \o (IF turn[u].stream THEN ShadowCalls(u, names) ELSE << >>)
          /\ turn' = [turn EXCEPT ![u] =
                         IF Live(a) THEN [@ EXCEPT !.pc = "call", !.id = Len(reply) + 1]
                         ELSE IdleTurn]
    /\ UNCHANGED <<exp, agents, history, scores, since, run, messages,
                   task, pending, budget, upsets>>

EndTurn(u, m, done, names) ==
    /\ turn' = [turn EXCEPT ![u] = IdleTurn]
    /\ reply' = [reply EXCEPT ![m] = done] \o ShadowCalls(u, names)
    /\ UNCHANGED <<exp, agents, scores, since, run, messages, task,
                   pending, budget, upsets>>

ChatFails(u) ==
    /\ turn[u].pc = "call"
    /\ EndTurn(u, turn[u].id, [reply[turn[u].id] EXCEPT !.state = "failed"], << >>)
    /\ UNCHANGED history

\* finalize_non_streaming, and the flush of a streamed reply: the turn is
\* stored, then its judges are spawned from the live list.
ChatReplies(u) ==
    /\ turn[u].pc = "call"
    /\ \E names \in IF turn[u].stream THEN {<< >>} ELSE Shadows :
          EndTurn(u, turn[u].id, Scored(turn[u].id), names)
    /\ history' = [history EXCEPT ![u] = @ \cup {turn[u].id}]

\* The reply cannot be stored (or is empty): it is not judged.
ChatUnsaved(u) ==
    /\ turn[u].pc = "call"
    /\ \E names \in IF turn[u].stream THEN {<< >>} ELSE Shadows :
          EndTurn(u, turn[u].id, [reply[turn[u].id] EXCEPT !.state = "done"], names)
    /\ UNCHANGED history

----------------------------------------------------------------------------
(* Background work: shadow replays and judges.                             *)

Background(m, new) ==
    /\ reply' = [reply EXCEPT ![m] = new]
    /\ UNCHANGED <<exp, agents, turn, history, since, run, messages,
                   task, pending, budget, upsets>>

IsShadow(m) == reply[m].kind = "shadow" /\ reply[m].state = "calling"

ShadowReplies(m) ==
    /\ IsShadow(m)
    /\ Background(m, Scored(m))
    /\ UNCHANGED scores

ShadowFails(m) ==
    /\ IsShadow(m)
    /\ Background(m, [reply[m] EXCEPT !.state = "failed"])
    /\ UNCHANGED scores

\* The sampling rate of the judge whose turn it is; one that was not built
\* at boot is never sampled.
Rate(m) == IF Head(reply[m].queue) \in DOMAIN Rubrics
           THEN Rates[Head(reply[m].queue)] ELSE 0

NextJudge(m) == [reply[m] EXCEPT !.queue = Tail(@)]

\* should_sample says no: certain at rate 0, impossible at rate 1.
JudgeSkips(m) ==
    /\ reply[m].queue # << >>
    /\ Rate(m) < Scale
    /\ Background(m, NextJudge(m))
    /\ UNCHANGED scores

\* The judge's model fails or answers no JSON; the next judge runs.
JudgeFails(m) ==
    /\ reply[m].queue # << >>
    /\ Rate(m) > 0
    /\ Background(m, NextJudge(m))
    /\ UNCHANGED scores

\* Shadow scores filed under the primary instead of the variant.
JudgeScoresPrimary(m) ==
    /\ reply[m].queue # << >>
    /\ LET j == Head(reply[m].queue)
       IN  /\ Rate(m) > 0
           /\ \E S \in SUBSET Rubrics[j] \ {{}} : \E raw \in [S -> RawScores] :
                 scores' = Append(scores,
                    [id |-> m, user |-> reply[m].user, judge |-> j,
                     agent |-> IF reply[m].kind = "shadow" /\ exp.primary # Unset
                               THEN exp.primary ELSE reply[m].agent,
                     marks |-> [c \in S |-> Clamp(raw[c])]])
    /\ Background(m, NextJudge(m))

\* The judge answers: a row per criterion, except those it left out and
\* those whose insert fails.
JudgeScores(m) ==
    /\ reply[m].queue # << >>
    /\ LET j == Head(reply[m].queue)
       IN  /\ Rate(m) > 0
           /\ \E S \in SUBSET Rubrics[j] \ {{}} : \E raw \in [S -> RawScores] :
                 scores' = Append(scores,
                    [id |-> m, agent |-> reply[m].agent, user |-> reply[m].user,
                     judge |-> j, marks |-> [c \in S |-> Clamp(raw[c])]])
    /\ Background(m, NextJudge(m))

\* Time passes: more scores leave the window.
Age ==
    /\ exp.strategy = "bandit"
    /\ since' \in (since + 1) .. Len(scores)
    /\ UNCHANGED <<exp, agents, turn, reply, history, scores, run,
                   messages, task, pending, budget, upsets>>

----------------------------------------------------------------------------
(* Smoke tests.                                                            *)

RunCost(t) == t.maxTurns * (IF t.repetitions = 0 THEN 1 ELSE t.repetitions)

\* "Run now": dispatch clones the test and inserts its runs one by one.
\* Tests saved by the studio may have any counts; no repetitions means one.
RunNow(t) ==
    /\ pending.left = 0
    /\ budget >= RunCost(t)
    /\ Count({r \in Runs : run[r].status = "none"})
          >= IF t.repetitions = 0 THEN 1 ELSE t.repetitions
    /\ budget' = budget - RunCost(t)
    /\ pending' = [test |-> t, left |-> IF t.repetitions = 0 THEN 1 ELSE t.repetitions]
    /\ UNCHANGED <<exp, agents, turn, reply, history, scores, since, run,
                   messages, task, upsets>>

StartRun(r) ==
    /\ pending.left > 0
    /\ run[r].status = "none"
    /\ pending' = [pending EXCEPT !.left = @ - 1]
    /\ run' = [run EXCEPT ![r].status = "running"]
    /\ task' = [task EXCEPT ![r] =
                   [Unspawned EXCEPT !.test = pending.test,
                                     !.pc = IF pending.test.maxTurns = 0 THEN "finish" ELSE "persona"]]
    /\ UNCHANGED <<exp, agents, turn, reply, history, scores, since,
                   messages, budget, upsets>>

\* An insert fails: the request fails, the runs already started go on.
StartFails ==
    /\ pending.left > 0
    /\ pending' = [pending EXCEPT !.left = 0]
    /\ UNCHANGED <<exp, agents, turn, reply, history, scores, since, run,
                   messages, task, budget, upsets>>

Smoke(r, new) ==
    /\ task' = [task EXCEPT ![r] = new]
    /\ UNCHANGED <<exp, agents, turn, history, scores, since, pending,
                   budget, upsets>>

Say(r, role, id, stop) ==
    [turn |-> task[r].turn, role |-> role, id |-> id, stop |-> stop]

\* The persona speaks (the first message may be the test's own) and the
\* message is recorded.  A stop marker ends the loop before the agent.
PersonaTurn(r) ==
    /\ task[r].pc = "persona"
    /\ \E stop \in BOOLEAN :
          /\ stop => task[r].test.marker
          /\ messages' = [messages EXCEPT ![r] = @ \cup {Say(r, "persona", 0, stop)}]
          /\ Smoke(r, [task[r] EXCEPT !.conv = Append(@, Say(r, "persona", 0, stop)),
                                      !.pc = IF stop THEN "finish" ELSE "read"])
    /\ UNCHANGED <<reply, run>>

\* resolve_target asks for the bandit's scores, on every turn.
SmokeAskScores(r) ==
    /\ task[r].pc = "read"
    /\ \E w \in IF task[r].test.target = ExperimentName THEN Window ELSE {<<0, 0>>} :
          Smoke(r, [task[r] EXCEPT !.lo = w[1], !.hi = w[2], !.pc = "route"])
    /\ UNCHANGED <<reply, run, messages>>

\* It picks the agent; the first pick of a run is recorded in its row.
SmokeRoute(r) ==
    /\ task[r].pc = "route"
    /\ \E fresh \in Seeds, a \in Names :
          /\ a = Resolve(exp, task[r].test.target, Summary(task[r].lo, task[r].hi), Hash[r], fresh)
          /\ run' = [run EXCEPT ![r].resolved = IF task[r].recorded THEN @ ELSE a]
          /\ reply' = Append(reply, Call("smoke", r, a))
          /\ Smoke(r, [task[r] EXCEPT !.recorded = TRUE, !.agent = a,
                                      !.id = Len(reply) + 1,
                                      !.pc = IF Live(a) THEN "call" ELSE "failing"])
    /\ UNCHANGED messages

\* The loop takes one turn too many.
SmokeRepliesPastMax(r) ==
    /\ task[r].pc = "call"
    /\ \E stop \in BOOLEAN :
          LET m    == Say(r, "assistant", task[r].id, stop)
              last == stop \/ task[r].turn = task[r].test.maxTurns
          IN  /\ stop => task[r].test.marker
              /\ messages' = [messages EXCEPT ![r] = @ \cup {m}]
              /\ run' = [run EXCEPT ![r].turns = task[r].turn + 1]
              /\ reply' = [reply EXCEPT ![task[r].id] = Scored(task[r].id)]
              /\ Smoke(r, [task[r] EXCEPT !.conv = Append(@, m),
                                          !.turn = @ + 1,
                                          !.pc = IF last THEN "finish" ELSE "persona"])

\* record_assistant_turn (message and turn count in one transaction), then
\* the judges; the loop ends on a marker or at max_turns.
SmokeReplies(r) ==
    /\ task[r].pc = "call"
    /\ \E stop \in BOOLEAN :
          LET m    == Say(r, "assistant", task[r].id, stop)
              last == stop \/ task[r].turn + 1 = task[r].test.maxTurns
          IN  /\ stop => task[r].test.marker
              /\ messages' = [messages EXCEPT ![r] = @ \cup {m}]
              /\ run' = [run EXCEPT ![r].turns = task[r].turn + 1]
              /\ reply' = [reply EXCEPT ![task[r].id] = Scored(task[r].id)]
              /\ Smoke(r, [task[r] EXCEPT !.conv = Append(@, m),
                                          !.turn = @ + 1,
                                          !.pc = IF last THEN "finish" ELSE "persona"])

\* A model or the store fails: the error leaves run_once.
SmokeFails(r) ==
    /\ task[r].pc \in Active \ {"failing", "read"}
    /\ task[r].pc = "route" => ~task[r].recorded
    /\ reply' = IF task[r].pc = "call"
                THEN [reply EXCEPT ![task[r].id].state = "failed"] ELSE reply
    /\ Smoke(r, [task[r] EXCEPT !.pc = "failing"])
    /\ UNCHANGED <<run, messages>>

FinishRun(r) ==
    /\ task[r].pc = "finish"
    /\ run' = [run EXCEPT ![r].status = "completed"]
    /\ Smoke(r, [task[r] EXCEPT !.pc = "gone"])
    /\ UNCHANGED <<reply, messages>>

\* Only a run that has resolved its agent is marked.
FailRunResolved(r) ==
    /\ task[r].pc = "failing" /\ task[r].recorded
    /\ run' = [run EXCEPT ![r].status = "failed"]
    /\ Smoke(r, [task[r] EXCEPT !.pc = "gone"])
    /\ UNCHANGED <<reply, messages>>

\* The spawn wrapper marks the run failed; when that cannot be stored
\* either, the row stays `running`.
FailRun(r) ==
    /\ task[r].pc = "failing"
    /\ \E saved \in BOOLEAN :
          run' = [run EXCEPT ![r].status = IF saved THEN "failed" ELSE @]
    /\ Smoke(r, [task[r] EXCEPT !.pc = "gone"])
    /\ UNCHANGED <<reply, messages>>

----------------------------------------------------------------------------
(* The studio and the process.                                             *)

\* An agent is edited, deleted or brought back while turns are in flight.
EditAgent(a, list) ==
    /\ upsets < MaxUpsets
    /\ upsets' = upsets + 1
    /\ agents' = [agents EXCEPT ![a] = list]
    /\ UNCHANGED <<exp, turn, reply, history, scores, since, run,
                   messages, task, pending, budget>>

\* Calls, judges and runs in flight are lost; what is stored stays, and
\* nobody marks the runs that were under way.
Restart ==
    /\ upsets < MaxUpsets
    /\ upsets' = upsets + 1
    /\ turn' = [u \in Users |-> IdleTurn]
    /\ reply' = [m \in 1 .. Len(reply) |->
                    [reply[m] EXCEPT !.queue = << >>,
                                     !.state = IF @ = "calling" THEN "failed" ELSE @]]
    /\ task' = [r \in Runs |-> IF task[r].pc = "none" THEN task[r]
                               ELSE [task[r] EXCEPT !.pc = "gone"]]
    /\ pending' = [pending EXCEPT !.left = 0]
    /\ UNCHANGED <<exp, agents, history, scores, since, run, messages,
                   budget>>

ChatStep(u) == Route(u) \/ ChatReplies(u) \/ ChatUnsaved(u) \/ ChatFails(u)

BackgroundStep(m) ==
    \/ ShadowReplies(m) \/ ShadowFails(m)
    \/ JudgeSkips(m) \/ JudgeFails(m) \/ JudgeScores(m)

SmokeStep(r) ==
    \/ PersonaTurn(r) \/ SmokeAskScores(r) \/ SmokeRoute(r) \/ SmokeReplies(r)
    \/ SmokeFails(r) \/ FinishRun(r) \/ FailRun(r)

EvaluationNext ==
    \/ \E u \in Users : ChatStep(u) \/ \E stream \in BOOLEAN : AskScores(u, stream)
    \/ \E m \in 1 .. Len(reply) : BackgroundStep(m)
    \/ Age
    \/ \E t \in Tests : RunNow(t)
    \/ StartFails
    \/ \E r \in Runs : StartRun(r) \/ SmokeStep(r)
    \/ \E a \in Agents, list \in JudgeLists \cup {Gone} : EditAgent(a, list)
    \/ Restart

EvaluationSpec == EvaluationInit /\ [][EvaluationNext]_evaluationVars

\* Every model call returns or fails and the runtime polls every task.
FairEvaluation ==
    /\ EvaluationSpec
    /\ \A u \in Users : WF_evaluationVars(ChatStep(u))
    /\ \A r \in Runs : WF_evaluationVars(SmokeStep(r))
    /\ \A m \in 1 .. MaxReplies : WF_evaluationVars(m \in 1 .. Len(reply) /\ BackgroundStep(m))
    /\ WF_evaluationVars(StartFails \/ \E r \in Runs : StartRun(r))

----------------------------------------------------------------------------
(* Properties.                                                             *)

\* A score row names the agent and the user of the message it is keyed by,
\* whether a chat turn, a shadow replay or a smoke turn produced it, comes
\* from a judge built at boot on its own criteria, and judges a finished
\* reply (ScoredExchange).
ScoresAttributed ==
    \A k \in 1 .. Len(scores) :
        LET s == scores[k]
        IN  /\ s.id \in 1 .. Len(reply)
            /\ reply[s.id].agent = s.agent
            /\ reply[s.id].user = s.user
            /\ reply[s.id].state = "done"
            /\ s.judge \in DOMAIN Rubrics
            /\ DOMAIN s.marks \subseteq Rubrics[s.judge]

Times(list, j) == Count({i \in DOMAIN list : list[i] = j})

\* spawn_score is called once per reply: a judge scores a message no more often
\* than the list its agent had then names it (which no validation keeps to
\* once), so the bandit's sample counts count replies.
ScoredOnce ==
    \A k \in 1 .. Len(scores) :
        LET s    == scores[k]
            rows == {l \in 1 .. Len(scores) : scores[l].id = s.id /\ scores[l].judge = s.judge}
        IN  \E list \in JudgeLists \cup {BootAgents[s.agent]} : Count(rows) <= Times(list, s.judge)

\* What is scored can be read: a scored chat reply is in its user's
\* history, a scored smoke reply in its run's transcript.  Shadow replies
\* are in neither ("Shadow runs never write to the user's message history").
ScoredIsStored ==
    /\ \A k \in 1 .. Len(scores) :
          LET m == scores[k].id
              r == reply[m]
          IN  /\ r.kind = "chat"  => m \in history[r.user]
              /\ r.kind = "smoke" => \E x \in messages[r.user] : x.id = m
    /\ \A u \in Users : \A m \in history[u] :
          m \in 1 .. Len(reply) /\ reply[m].kind = "chat" /\ reply[m].user = u

\* Whatever a judge model answers, NaN included, a stored score is on the scale.
ScoresOnScale ==
    \A i \in 1 .. Len(scores) : \A c \in DOMAIN scores[i].marks :
        scores[i].marks[c] \in 0 .. MaxScore

\* A score can be trusted: right message, counted once, message on record, on
\* the scale.
ScoresSound == ScoresOnScale /\ ScoresAttributed /\ ScoredOnce /\ ScoredIsStored

\* Under a shadow experiment that config load accepts, users and smoke runs
\* are served by the primary alone and the replays never repeat it.
PrimaryServes ==
    exp.strategy = "shadow" /\ Valid(exp, BootAgents, Rubrics) =>
        \A m \in 1 .. Len(reply) :
            /\ reply[m].kind = "chat"   => reply[m].agent = exp.primary
            /\ reply[m].kind = "shadow" => reply[m].agent # exp.primary

\* Under a sticky split a user meets one variant only, across turns,
\* restarts and agent edits (sticky_by_user).
StickyUser ==
    exp.strategy = "split" /\ exp.sticky =>
        \A m, n \in 1 .. Len(reply) :
            /\ reply[m].kind = "chat" /\ reply[n].kind = "chat"
            /\ reply[m].user = reply[n].user
            => reply[m].agent = reply[n].agent

\* The strategies keep their promise to the user.
RoutingHonoured == PrimaryServes /\ StickyUser

\* The share of seeds a variant receives is its share of the weights, up to
\* less than one seed, not counting the one that rounds to 1.0 (weighted_pick).
WeightsRespected ==
    reply = << >> /\ exp.strategy = "split" /\ Valid(exp, BootAgents, Rubrics) =>
        \A i \in DOMAIN exp.variants :
            LET total == Cumulative(exp)[Len(exp.variants)]
                fair  == Scale * exp.variants[i].weight
                given == Count({s \in 0 .. Scale - 1 : WeightedPick(exp, s) = i}) * total
            IN  fair - total < given /\ given < fair + total

\* On the scores of this moment the bandit serves an arm that still lacks
\* samples of the metric while there is one, and some user reaches each of
\* them; no other judge's scores count (bandit_pick, mean_scores_by_agent).
BanditFillsArms ==
    LET Of(a) == {k \in since + 1 .. Len(scores) :
                     scores[k].agent = a /\ scores[k].judge = exp.metric[1]
                        /\ exp.metric[2] \in DOMAIN scores[k].marks}
        Lacking == {a \in Arms(exp) :
                       Of(a) = {} \/ Count(Of(a)) < OrElse(exp.minSamples, DefaultMinSamples)}
        sum == Summary(since, Len(scores))
        Picks == {Resolve(exp, ExperimentName, sum, s, f) : s \in Seeds, f \in Seeds}
    IN  exp.strategy = "bandit" /\ Valid(exp, BootAgents, Rubrics) =>
            Picks = IF Lacking # {} THEN Lacking ELSE Picks \cap Arms(exp)

\* Enough scores to be compared.
Needed(e) ==
    LET min == OrElse(e.minSamples, DefaultMinSamples) IN IF min = 0 THEN 1 ELSE min

\* Of arms with enough samples the one served has the highest mean, unless
\* the draw explores; on every table of up to two scores more than needed.
\* Like WeightsRespected it depends on the experiment alone and is evaluated
\* before the first call.
LeaderIsBest ==
    reply = << >> /\ exp.strategy = "bandit" /\ Valid(exp, BootAgents, Rubrics) =>
        \A sum \in [Agents -> [samples : Needed(exp) .. Needed(exp) + 2, sum : 0 .. 3]] :
        \A s \in Seeds, f \in Seeds :
            LET a == Resolve(exp, ExperimentName, sum, s, f)
            IN  RoutingSeed(exp, s, f) >= OrElse(exp.epsilon, DefaultEpsilon) =>
                    \A b \in Arms(exp) :
                        sum[a].sum * sum[b].samples >= sum[b].sum * sum[a].samples

\* The pick of every strategy is the one its definition names.
PicksAsDefined == WeightsRespected /\ BanditFillsArms /\ LeaderIsBest

\* Who serves a turn: what the strategy promised the user, by the pick its
\* definition names.
RoutingSound == RoutingHonoured /\ PicksAsDefined

\* A run's row and its messages agree at every moment: one assistant message
\* per counted turn, each answering a persona message, at most max_turns,
\* nothing after a stop marker; a completed run reached its end.
RunTruthful ==
    \A r \in Runs :
        LET said(role) == {x.turn : x \in {y \in messages[r] : y.role = role}}
            stops == {x \in messages[r] : x.stop}
        IN  /\ said("assistant") = 0 .. run[r].turns - 1
            /\ said("persona") \in {0 .. run[r].turns - 1, 0 .. run[r].turns}
            /\ run[r].turns <= task[r].test.maxTurns
            /\ \A x \in stops, y \in messages[r] :
                  y.turn < x.turn \/ (y.turn = x.turn /\ (y.role = "persona" \/ x.role = "assistant"))
            /\ run[r].status = "completed" =>
                  stops # {} \/ run[r].turns = task[r].test.maxTurns
            /\ run[r].status = "none" => messages[r] = {}

\* The rows as the run page shows them (messages_for_run, then the sort of
\* RunDetailView::build).
Transcript(r) ==
    LET before(x, y) == x.turn < y.turn
                          \/ (x.turn = y.turn /\ x.role = "persona" /\ y.role # "persona")
    IN  [i \in 1 .. Count(messages[r]) |->
            CHOOSE x \in messages[r] :
                Count({y \in messages[r] : before(y, x)}) = i - 1]

\* The viewer shows the conversation the persona and the agent had.
TranscriptInOrder == \A r \in Runs : task[r].conv = Transcript(r)

\* The run page tells what happened.
RunsTruthful == RunTruthful /\ TranscriptInOrder

\* Every run ends, whatever fails on the way.
RunsEnd == \A r \in Runs : task[r].pc \in Active ~> task[r].pc = "gone"

Judging(m) == m \in 1 .. Len(reply) /\ reply[m].queue # << >>

\* A judge that fails or skips does not hold up the others: the judges of a
\* reply all get their turn.
JudgesDrain == \A m \in 1 .. MaxReplies : Judging(m) ~> ~Judging(m)

\* All background work ends: smoke runs and judges.
BackgroundEnds == RunsEnd /\ JudgesDrain
=============================================================================
