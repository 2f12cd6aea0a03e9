------------------------------ MODULE TaskQueue ------------------------------
(***************************************************************************)
(* The persistent task queue (crates/tasks), the worker pool that drains   *)
(* it (cli/src/workers.rs), the submitters (crates/triggers and the        *)
(* dispatch_task tool) and the boot sequence that reaps what a dead        *)
(* process left running (cli/src/commands/serve.rs).                       *)
(*                                                                         *)
(* Rows live in SQLite in WAL mode.  next_runnable is one deferred         *)
(* transaction: its SELECT pins a snapshot, and its UPDATE is refused      *)
(* (SQLITE_BUSY) once any other connection has committed since.            *)
(* `fresh[w]` says that w's pinned snapshot is still the latest commit.    *)
(***************************************************************************)
EXTENDS Naturals, FiniteSets

CONSTANTS
  Tasks,         \* task ids that can be submitted
  Workers,       \* the worker pool
  NoTask,        \* "this worker holds no task"
  NoWorker,      \* "nobody executes this task"
  MaxTime,       \* bound: last second of the wall clock
  MaxFaults      \* bound: crashes, failed writes, writes of other stores

ASSUME TaskQueueAssumption ==
  /\ NoTask \notin Tasks
  /\ NoWorker \notin Workers
  /\ MaxTime \in Nat
  /\ MaxFaults \in Nat

VARIABLES
  state,     \* tasks.state per row ("absent": no row)
  created,   \* tasks.created_at, in seconds
  started,   \* tasks.started_at, in seconds; 0 stands for NULL
  phase,     \* the process: "down", "booting" (workers up), "serving"
  pc,        \* where each worker is in run_loop / run_one
  cur,       \* the row a worker read, executes or is about to mark
  fresh,     \* the worker's open snapshot is still the latest commit
  outcome,   \* what Agents::complete returned to the worker
  clock,     \* wall clock, in seconds (now_secs)
  faults,    \* disturbances so far
  runs,      \* history: executions begun per task
  bootAt,    \* history: second of the last boot's reap
  lost       \* history: running rows left behind by a failed write

rowVars  == <<state, created, started>>
procVars == <<phase, bootAt>>
workVars == <<pc, cur, fresh, outcome>>
histVars == <<runs, lost>>
vars == <<rowVars, procVars, workVars, histVars, clock, faults>>

Terminal  == {"done", "errored"}
TaskState == {"absent", "queued", "running"} \cup Terminal
NullTime  == 0

Executing(w) == pc[w] \in {"running", "marking"}
Held(t)      == \E w \in Workers : Executing(w) /\ cur[w] = t
Orphan(t)    == state[t] = "running" /\ ~Held(t)

\* Every commit invalidates the snapshots other connections have open.
NoFresh == [w \in Workers |-> FALSE]

Init ==
  /\ state = [t \in Tasks |-> "absent"]
  /\ created = [t \in Tasks |-> NullTime]
  /\ started = [t \in Tasks |-> NullTime]
  /\ phase = "down"
  /\ pc = [w \in Workers |-> "off"]
  /\ cur = [w \in Workers |-> NoTask]
  /\ fresh = NoFresh
  /\ outcome = [w \in Workers |-> "none"]
  /\ clock = 1
  /\ faults = 0
  /\ runs = [t \in Tasks |-> 0]
  /\ bootAt = 1
  /\ lost = {}
------------------------------------------------------------------------------
(* Submitters *)

\* Tasks::enqueue, behind every submitter.
Submit(t) ==
  /\ state[t] = "absent"
  /\ state' = [state EXCEPT ![t] = "queued"]
  /\ created' = [created EXCEPT ![t] = clock]
  /\ fresh' = NoFresh
  /\ UNCHANGED <<started, bootAt, pc, cur, outcome, histVars, clock, faults>>

\* A cron trigger wakes up; cron loops start right after the workers.
CronFire(t) ==
  /\ phase # "down"
  /\ Submit(t)
  /\ UNCHANGED phase

\* POST to a webhook path whose agent template resolved to a name.
Webhook(t) ==
  /\ phase = "serving"
  /\ Submit(t)
  /\ UNCHANGED phase

\* The agent a worker is running calls the dispatch_task tool.
Dispatch(w, t) ==
  /\ pc[w] = "running"
  /\ Submit(t)
  /\ UNCHANGED phase

\* Boot::run awaits fire_boot after the workers are already polling, then
\* binds the port.
FireBoot(t) ==
  /\ phase = "booting"
  /\ Submit(t)
  /\ phase' = "serving"

\* No boot trigger is configured, or its enqueue failed, which is only
\* logged: the boot goes on.
FireNoBoot ==
  /\ phase = "booting"
  /\ phase' = "serving"
  /\ UNCHANGED <<rowVars, bootAt, workVars, histVars, clock, faults>>
------------------------------------------------------------------------------
(* Workers *)

\* Mutant: the SELECT without its ORDER BY.
AnyQueued == {t \in Tasks : state[t] = "queued"}

\* SELECT ... WHERE state = 'queued' ORDER BY created_at LIMIT 1.
OldestQueued ==
  {t \in Tasks : /\ state[t] = "queued"
                 /\ \A u \in Tasks : state[u] = "queued" => created[t] <= created[u]}

\* First half of next_runnable: read the oldest queued row.
ClaimRead(w) ==
  /\ pc[w] = "idle"
  /\ \E t \in OldestQueued : cur' = [cur EXCEPT ![w] = t]
  /\ pc' = [pc EXCEPT ![w] = "claiming"]
  /\ fresh' = [fresh EXCEPT ![w] = TRUE]
  /\ UNCHANGED <<rowVars, procVars, outcome, histVars, clock, faults>>

\* The queue is empty: None, sleep for IDLE_POLL_INTERVAL, poll again.
PollEmpty(w) ==
  /\ pc[w] = "idle"
  /\ OldestQueued = {}
  /\ UNCHANGED vars

\* Mutant: read and update outside a transaction, UPDATE by id only.
ClaimableBlindly(w) == TRUE

\* The guarded UPDATE affects one row.
Claimable(w) == fresh[w] /\ state[cur[w]] = "queued"

\* Second half: UPDATE ... WHERE id = ? AND state = 'queued', COMMIT, and
\* run_one starts the agent.
ClaimCommit(w) ==
  /\ pc[w] = "claiming"
  /\ Claimable(w)
  /\ state' = [state EXCEPT ![cur[w]] = "running"]
  /\ started' = [started EXCEPT ![cur[w]] = clock]
  /\ pc' = [pc EXCEPT ![w] = "running"]
  /\ fresh' = NoFresh
  /\ runs' = [runs EXCEPT ![cur[w]] = @ + 1]
  /\ UNCHANGED <<created, procVars, cur, outcome, lost, clock, faults>>

\* Mutant: run_loop returns when the poll fails.
ClaimMissFatal(w) ==
  /\ pc[w] = "claiming"
  /\ ~Claimable(w)
  /\ pc' = [pc EXCEPT ![w] = "off"]
  /\ cur' = [cur EXCEPT ![w] = NoTask]
  /\ fresh' = [fresh EXCEPT ![w] = FALSE]
  /\ UNCHANGED <<rowVars, procVars, outcome, histVars, clock, faults>>

\* SQLITE_BUSY on a stale snapshot, or no row affected: nothing is claimed
\* and the worker sleeps before it polls again.
ClaimMiss(w) ==
  /\ pc[w] = "claiming"
  /\ ~Claimable(w)
  /\ pc' = [pc EXCEPT ![w] = "idle"]
  /\ cur' = [cur EXCEPT ![w] = NoTask]
  /\ fresh' = [fresh EXCEPT ![w] = FALSE]
  /\ UNCHANGED <<rowVars, procVars, outcome, histVars, clock, faults>>

\* Agents::complete returns; the outcome is in the worker's hands only.
Complete(w) ==
  /\ pc[w] = "running"
  /\ pc' = [pc EXCEPT ![w] = "marking"]
  /\ \E o \in Terminal : outcome' = [outcome EXCEPT ![w] = o]
  /\ UNCHANGED <<rowVars, procVars, cur, fresh, histVars, clock, faults>>

\* mark_done / mark_errored: an UPDATE by id, whatever the row's state.
Mark(w) ==
  /\ pc[w] = "marking"
  /\ state' = [state EXCEPT ![cur[w]] = outcome[w]]
  /\ pc' = [pc EXCEPT ![w] = "idle"]
  /\ cur' = [cur EXCEPT ![w] = NoTask]
  /\ outcome' = [outcome EXCEPT ![w] = "none"]
  /\ fresh' = NoFresh
  /\ UNCHANGED <<created, started, procVars, histVars, clock, faults>>

\* The UPDATE fails: a warning is logged and the worker moves on.
MarkFails(w) ==
  /\ pc[w] = "marking"
  /\ faults < MaxFaults
  /\ faults' = faults + 1
  /\ lost' = lost \cup {cur[w]}
  /\ pc' = [pc EXCEPT ![w] = "idle"]
  /\ cur' = [cur EXCEPT ![w] = NoTask]
  /\ outcome' = [outcome EXCEPT ![w] = "none"]
  /\ UNCHANGED <<rowVars, procVars, fresh, runs, clock>>
------------------------------------------------------------------------------
(* The process and its environment *)

\* Mutant: the reap looks at started_at alone.
StaleAnyState(t) == started[t] < clock

\* reap_stale_running with cutoff = now: started_at IS NULL OR < cutoff.
Stale(t) ==
  /\ state[t] = "running"
  /\ started[t] = NullTime \/ started[t] < clock

\* The workers are spawned right after the reap, before any trigger.
SpawnWorkers ==
  /\ pc' = [w \in Workers |-> "idle"]
  /\ UNCHANGED <<cur, fresh, outcome>>

\* Boot::run up to the worker pool: reap, then spawn.
Boot ==
  /\ phase = "down"
  /\ phase' = "booting"
  /\ bootAt' = clock
  /\ state' = [t \in Tasks |-> IF Stale(t) THEN "errored" ELSE state[t]]
  /\ lost' = {}
  /\ SpawnWorkers
  /\ UNCHANGED <<created, started, runs, clock, faults>>

\* The reap itself fails; boot continues with the orphans still running.
BootReapFails ==
  /\ phase = "down"
  /\ faults < MaxFaults
  /\ faults' = faults + 1
  /\ phase' = "booting"
  /\ bootAt' = clock
  /\ lost' = {t \in Tasks : state[t] = "running"}
  /\ SpawnWorkers
  /\ UNCHANGED <<rowVars, runs, clock>>

\* SIGTERM, SIGKILL, a port that is taken: everything in memory is gone and
\* open transactions roll back.
Crash ==
  /\ phase # "down"
  /\ faults < MaxFaults
  /\ faults' = faults + 1
  /\ phase' = "down"
  /\ pc' = [w \in Workers |-> "off"]
  /\ cur' = [w \in Workers |-> NoTask]
  /\ fresh' = NoFresh
  /\ outcome' = [w \in Workers |-> "none"]
  /\ UNCHANGED <<rowVars, bootAt, histVars, clock>>

\* Another store (messages, telemetry, ...) commits to the same database.
ForeignCommit ==
  /\ \E w \in Workers : fresh[w]
  /\ faults < MaxFaults
  /\ faults' = faults + 1
  /\ fresh' = NoFresh
  /\ UNCHANGED <<rowVars, procVars, pc, cur, outcome, histVars, clock>>

Tick ==
  /\ clock < MaxTime
  /\ clock' = clock + 1
  /\ UNCHANGED <<rowVars, procVars, workVars, histVars, faults>>

WorkerStep(w) ==
  \/ ClaimRead(w)
  \/ PollEmpty(w)
  \/ ClaimCommit(w)
  \/ ClaimMiss(w)
  \/ Complete(w)
  \/ Mark(w)

Next ==
  \/ \E t \in Tasks : CronFire(t) \/ Webhook(t) \/ FireBoot(t)
  \/ \E w \in Workers, t \in Tasks : Dispatch(w, t)
  \/ \E w \in Workers : WorkerStep(w) \/ MarkFails(w)
  \/ FireNoBoot \/ Boot \/ BootReapFails \/ Crash \/ ForeignCommit \/ Tick

Spec == Init /\ [][Next]_vars

(***************************************************************************)
(* tokio keeps scheduling a worker that can move, agent calls return, and  *)
(* an operator (or the service manager) starts a server that is down.      *)
(* Crashes, failed writes and foreign commits come without fairness and    *)
(* are bounded by MaxFaults: progress is promised once they cease.         *)
(***************************************************************************)
Fairness ==
  /\ \A w \in Workers : WF_vars(WorkerStep(w))
  /\ WF_vars(Boot)

FairSpec == Spec /\ Fairness
------------------------------------------------------------------------------
(* Properties *)

TypeOK ==
  /\ state \in [Tasks -> TaskState]
  /\ created \in [Tasks -> Nat]
  /\ started \in [Tasks -> Nat]
  /\ phase \in {"down", "booting", "serving"}
  /\ pc \in [Workers -> {"off", "idle", "claiming", "running", "marking"}]
  /\ cur \in [Workers -> Tasks \cup {NoTask}]
  /\ fresh \in [Workers -> BOOLEAN]
  /\ outcome \in [Workers -> Terminal \cup {"none"}]
  /\ clock \in Nat
  /\ faults \in Nat
  /\ runs \in [Tasks -> Nat]
  /\ bootAt \in Nat
  /\ lost \in SUBSET Tasks

\* next_runnable claims "atomically": two workers never execute the same
\* task, and the row of a task under execution says so.
ClaimExclusive ==
  \A w \in Workers : Executing(w) =>
    /\ cur[w] \in Tasks
    /\ state[cur[w]] = "running"
    /\ \A v \in Workers \ {w} : Executing(v) => cur[v] # cur[w]

\* A task is executed at most once in its life, whatever crashes and
\* restarts happen in between: nothing ever puts a claimed row back to
\* `queued`.
AtMostOnce == \A t \in Tasks : runs[t] <= 1 /\ (state[t] = "queued" => runs[t] = 0)

\* While the server is up, a running row that no worker executes is one whose
\* outcome could not be written, one the boot failed to reap, or one that
\* was started in the second the reap looked at (its `<` is strict).
OrphansExplained ==
  \A t \in Tasks :
    phase # "down" /\ Orphan(t) => t \in lost \/ started[t] >= bootAt

\* Every execution is accounted for: claims are exclusive, no task runs twice,
\* and a running row without an executor has a known cause.
ClaimsSound == ClaimExclusive /\ AtMostOnce /\ OrphansExplained

\* A finished task stays finished: neither the unguarded mark_* UPDATEs nor
\* the reap ever rewrite an outcome.
OutcomeIsFinal ==
  [][\A t \in Tasks : state[t] \in Terminal => state'[t] = state[t]]_vars

\* Tasks are claimed oldest first, even though the row is chosen one step
\* before it is claimed.
OldestFirst ==
  [][\A t, u \in Tasks :
       /\ state[t] = "queued" /\ state'[t] = "running"
       /\ state[u] = "queued"
       => created[t] <= created[u]]_vars

\* Every submitted task is eventually executed, whatever finite number of
\* crashes, lost writes and busy snapshots comes before.
NoStarvation == \A t \in Tasks : state[t] = "queued" ~> runs[t] > 0

\* The queue implements the abstract task board.
holderOf == [t \in Tasks |-> IF Held(t)
                             THEN CHOOSE w \in Workers : Executing(w) /\ cur[w] = t
                             ELSE NoWorker]
Board == INSTANCE TaskBoard WITH status <- state, holder <- holderOf
ImplementsBoard == Board!BoardSpec
==============================================================================
