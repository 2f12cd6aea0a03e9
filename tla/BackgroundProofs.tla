--------------------------- MODULE BackgroundProofs ---------------------------
(***************************************************************************)
(* What runs behind the chat: the proofs about TaskQueue, for every set of *)
(* tasks and workers, and about Evaluation, for any agents, experiments,   *)
(* judges and smoke tests, whatever the scores.                            *)
(*                                                                         *)
(* ClaimExclusive is not inductive by itself: a claim is safe only because *)
(* a snapshot that is still fresh names a row that is still queued         *)
(* (FreshIsOldest), and the reap is safe only because no worker is alive   *)
(* while the process is down (DownIsQuiet).                                *)
(***************************************************************************)
EXTENDS TaskQueue, Evaluation, FiniteSetTheorems, TLAPS

\* A worker inside next_runnable has read a row; as long as its snapshot is
\* the latest commit that row is the oldest queued one.
FreshIsOldest ==
  \A w \in Workers : pc[w] = "claiming" =>
    /\ cur[w] \in Tasks
    /\ fresh[w] => cur[w] \in OldestQueued

\* No worker outlives its process.
DownIsQuiet == phase = "down" => \A w \in Workers : pc[w] = "off"

\* A worker about to call mark_* knows which of the two it is.
MarkHasOutcome == \A w \in Workers : pc[w] = "marking" => outcome[w] \in Terminal

\* Rows that were never claimed were never executed.
ClaimCounts ==
  \A t \in Tasks : /\ runs[t] <= 1
                   /\ state[t] \in {"absent", "queued"} => runs[t] = 0

\* The inductive invariant.
IInv ==
  /\ TypeOK
  /\ ClaimExclusive
  /\ FreshIsOldest
  /\ DownIsQuiet
  /\ MarkHasOutcome
  /\ ClaimCounts
  /\ OrphansExplained

------------------------------------------------------------------------------
\* The initial state, with the process down and no rows, satisfies every
\* part of the inductive invariant.
LEMMA InitIInv == Init => IInv
<1> SUFFICES ASSUME Init PROVE IInv
  OBVIOUS
<1>1. TypeOK
  BY TaskQueueAssumption
  DEF Init, TypeOK, TaskState, Terminal, NullTime, NoFresh
<1>2. ClaimExclusive /\ FreshIsOldest /\ DownIsQuiet /\ MarkHasOutcome
  BY DEF Init, ClaimExclusive, FreshIsOldest, DownIsQuiet, MarkHasOutcome, Executing
<1>3. ClaimCounts /\ OrphansExplained
  BY DEF Init, ClaimCounts, OrphansExplained, Orphan
<1> QED
  BY <1>1, <1>2, <1>3 DEF IInv

\* Every step of submitters, workers, process and environment keeps every
\* variable in its type.
LEMMA TypeStep == IInv /\ [Next]_vars => TypeOK'
<1> SUFFICES ASSUME IInv, [Next]_vars PROVE TypeOK'
  OBVIOUS
<1> USE TaskQueueAssumption DEF IInv, TypeOK, TaskState, Terminal, NoFresh, rowVars, procVars, workVars, histVars
<1>1. ASSUME NEW t \in Tasks, Submit(t), phase' \in {phase, "serving"} PROVE TypeOK'
  BY <1>1 DEF Submit
<1>2. ASSUME NEW w \in Workers, WorkerStep(w) \/ MarkFails(w) PROVE TypeOK'
  <2>1. CASE ClaimRead(w)
    BY <2>1 DEF ClaimRead, OldestQueued
  <2>2. CASE PollEmpty(w)
    BY <2>2 DEF PollEmpty, vars
  <2>3. CASE ClaimCommit(w)
    BY <2>3 DEF ClaimCommit, Claimable, FreshIsOldest
  <2>4. CASE ClaimMiss(w)
    BY <2>4 DEF ClaimMiss
  <2>5. CASE Complete(w)
    BY <2>5 DEF Complete
  <2>6. CASE Mark(w)
    BY <2>6 DEF Mark, MarkHasOutcome
  <2>7. CASE MarkFails(w)
    BY <2>7 DEF MarkFails, ClaimExclusive, Executing
  <2> QED
    BY <1>2, <2>1, <2>2, <2>3, <2>4, <2>5, <2>6, <2>7 DEF WorkerStep
<1>3. CASE FireNoBoot
  BY <1>3 DEF FireNoBoot
<1>4. CASE Boot
  BY <1>4 DEF Boot, SpawnWorkers
<1>5. CASE BootReapFails
  BY <1>5 DEF BootReapFails, SpawnWorkers
<1>6. CASE Crash
  BY <1>6 DEF Crash
<1>7. CASE ForeignCommit
  BY <1>7 DEF ForeignCommit
<1>8. CASE Tick
  BY <1>8 DEF Tick
<1>9. CASE UNCHANGED vars
  BY <1>9 DEF vars
<1> QED
  BY <1>1, <1>2, <1>3, <1>4, <1>5, <1>6, <1>7, <1>8, <1>9
  DEF Next, CronFire, Webhook, FireBoot, Dispatch

\* Every step keeps the parts of the invariant that relate workers, rows,
\* snapshots and the boot-time reap to each other.
LEMMA RelStep ==
  IInv /\ [Next]_vars =>
    (ClaimExclusive /\ FreshIsOldest /\ DownIsQuiet /\ MarkHasOutcome
       /\ ClaimCounts /\ OrphansExplained)'
<1> DEFINE Rel == /\ ClaimExclusive /\ FreshIsOldest /\ DownIsQuiet
                  /\ MarkHasOutcome /\ ClaimCounts /\ OrphansExplained
<1> SUFFICES ASSUME IInv, [Next]_vars PROVE Rel'
  OBVIOUS
<1> USE TaskQueueAssumption DEF IInv, TypeOK, TaskState, Terminal, rowVars, procVars, workVars, histVars
<1> USE DEF ClaimExclusive, FreshIsOldest, DownIsQuiet, MarkHasOutcome, ClaimCounts, OrphansExplained
<1> USE DEF Executing, Held, Orphan, OldestQueued, NoFresh
<1>1. ASSUME NEW t \in Tasks, Submit(t), phase # "down", phase' # "down" PROVE Rel'
  <2>1. ClaimExclusive' /\ FreshIsOldest' /\ DownIsQuiet'
    BY <1>1 DEF Submit
  <2>2. MarkHasOutcome' /\ ClaimCounts'
    BY <1>1 DEF Submit
  <2>3. OrphansExplained'
    BY <1>1 DEF Submit
  <2> QED
    BY <2>1, <2>2, <2>3
<1>2. ASSUME NEW w \in Workers, ClaimRead(w) PROVE Rel'
  <2>1. ClaimExclusive' /\ FreshIsOldest' /\ DownIsQuiet'
    BY <1>2 DEF ClaimRead
  <2>2. MarkHasOutcome' /\ ClaimCounts'
    BY <1>2 DEF ClaimRead
  <2>3. OrphansExplained'
    BY <1>2 DEF ClaimRead
  <2> QED
    BY <2>1, <2>2, <2>3
<1>3. ASSUME NEW w \in Workers, ClaimCommit(w) PROVE Rel'
  <2>1. ClaimExclusive' /\ FreshIsOldest' /\ DownIsQuiet'
    BY <1>3 DEF ClaimCommit, Claimable
  <2>2. MarkHasOutcome' /\ ClaimCounts'
    BY <1>3 DEF ClaimCommit, Claimable
  <2>3. OrphansExplained'
    BY <1>3 DEF ClaimCommit, Claimable
  <2> QED
    BY <2>1, <2>2, <2>3
<1>4. ASSUME NEW w \in Workers, ClaimMiss(w) PROVE Rel'
  <2>1. ClaimExclusive' /\ FreshIsOldest' /\ DownIsQuiet'
    BY <1>4 DEF ClaimMiss
  <2>2. MarkHasOutcome' /\ ClaimCounts'
    BY <1>4 DEF ClaimMiss
  <2>3. OrphansExplained'
    BY <1>4 DEF ClaimMiss
  <2> QED
    BY <2>1, <2>2, <2>3
<1>5. ASSUME NEW w \in Workers, Complete(w) PROVE Rel'
  <2>1. ClaimExclusive' /\ FreshIsOldest' /\ DownIsQuiet'
    BY <1>5 DEF Complete
  <2>2. MarkHasOutcome' /\ ClaimCounts'
    BY <1>5 DEF Complete
  <2>3. OrphansExplained'
    BY <1>5 DEF Complete
  <2> QED
    BY <2>1, <2>2, <2>3
<1>6. ASSUME NEW w \in Workers, Mark(w) PROVE Rel'
  <2>1. ClaimExclusive' /\ FreshIsOldest' /\ DownIsQuiet'
    BY <1>6 DEF Mark
  <2>2. MarkHasOutcome' /\ ClaimCounts'
    BY <1>6 DEF Mark
  <2>3. OrphansExplained'
    BY <1>6 DEF Mark
  <2> QED
    BY <2>1, <2>2, <2>3
<1>7. ASSUME NEW w \in Workers, MarkFails(w) PROVE Rel'
  <2>1. ClaimExclusive' /\ FreshIsOldest' /\ DownIsQuiet'
    BY <1>7 DEF MarkFails
  <2>2. MarkHasOutcome' /\ ClaimCounts'
    BY <1>7 DEF MarkFails
  <2>3. OrphansExplained'
    BY <1>7 DEF MarkFails
  <2> QED
    BY <2>1, <2>2, <2>3
<1>8. CASE FireNoBoot
  BY <1>8 DEF FireNoBoot
<1>9. CASE Boot
  <2>1. ClaimExclusive' /\ FreshIsOldest' /\ DownIsQuiet'
    BY <1>9 DEF Boot, SpawnWorkers
  <2>2. MarkHasOutcome' /\ ClaimCounts'
    BY <1>9 DEF Boot, SpawnWorkers, Stale
  <2>3. OrphansExplained'
    BY <1>9 DEF Boot, SpawnWorkers, Stale
  <2> QED
    BY <2>1, <2>2, <2>3
<1>10. CASE BootReapFails
  BY <1>10 DEF BootReapFails, SpawnWorkers
<1>11. CASE Crash
  BY <1>11 DEF Crash
<1>12. CASE ForeignCommit
  BY <1>12 DEF ForeignCommit
<1>13. CASE Tick
  BY <1>13 DEF Tick
<1>14. CASE UNCHANGED vars
  BY <1>14 DEF vars
<1>15. ASSUME NEW w \in Workers, PollEmpty(w) PROVE Rel'
  BY <1>15, <1>14 DEF PollEmpty
<1>16. ASSUME NEW w \in Workers, NEW t \in Tasks, Dispatch(w, t) PROVE Rel'
  <2>1. phase # "down" /\ phase' # "down"
    BY <1>16 DEF Dispatch
  <2> QED
    BY <1>1, <1>16, <2>1 DEF Dispatch
<1> QED
  BY <1>1, <1>2, <1>3, <1>4, <1>5, <1>6, <1>7, <1>8, <1>9, <1>10, <1>11, <1>12,
     <1>13, <1>14, <1>15, <1>16
  DEF Next, WorkerStep, CronFire, Webhook, FireBoot
------------------------------------------------------------------------------
\* The inductive invariant holds in every reachable state.
THEOREM Invariance == Spec => []IInv
<1>1. IInv /\ [Next]_vars => IInv'
  BY TypeStep, RelStep DEF IInv
<1> QED
  BY InitIInv, <1>1, PTL DEF Spec

\* Every variable stays in its type.
THEOREM TypeCorrect == Spec => []TypeOK
<1>1. IInv => TypeOK
  BY DEF IInv
<1> QED
  BY Invariance, <1>1, PTL

\* Two workers never execute the same task, and a task under execution is
\* `running` in the database.
THEOREM Exclusion == Spec => []ClaimExclusive
<1>1. IInv => ClaimExclusive
  BY DEF IInv
<1> QED
  BY Invariance, <1>1, PTL

\* A task is executed at most once, across any number of restarts.
THEOREM ExecutedAtMostOnce == Spec => []AtMostOnce
<1>1. IInv => AtMostOnce
  BY DEF IInv, ClaimCounts, AtMostOnce
<1> QED
  BY Invariance, <1>1, PTL

\* The only orphans of a running server are rows whose write failed and rows
\* started in the very second of the boot.
THEOREM OrphanCauses == Spec => []OrphansExplained
<1>1. IInv => OrphansExplained
  BY DEF IInv
<1> QED
  BY Invariance, <1>1, PTL

\* No step rewrites the outcome of a finished task.
THEOREM FinalOutcomes == Spec => OutcomeIsFinal
<1> DEFINE Keeps == \A t \in Tasks : state[t] \in Terminal => state'[t] = state[t]
<1>1. IInv /\ [Next]_vars => [Keeps]_vars
  <2> SUFFICES ASSUME IInv, Next PROVE Keeps
    OBVIOUS
  <2> USE DEF IInv, TypeOK, Terminal, rowVars
  <2>1. ASSUME NEW t \in Tasks, Submit(t) PROVE Keeps
    BY <2>1 DEF Submit
  <2>2. ASSUME NEW w \in Workers, ClaimCommit(w) PROVE Keeps
    BY <2>2 DEF ClaimCommit, Claimable, FreshIsOldest
  <2>3. ASSUME NEW w \in Workers, Mark(w) PROVE Keeps
    BY <2>3 DEF Mark, ClaimExclusive, Executing
  <2>4. CASE Boot
    BY <2>4 DEF Boot, Stale
  <2>5. ASSUME UNCHANGED state PROVE Keeps
    BY <2>5
  <2> QED
    BY <2>1, <2>2, <2>3, <2>4, <2>5
    DEF Next, CronFire, Webhook, FireBoot, Dispatch, WorkerStep, ClaimRead,
        PollEmpty, ClaimMiss, Complete, MarkFails, FireNoBoot, BootReapFails, Crash, ForeignCommit, Tick, vars
<1> QED
  BY Invariance, <1>1, PTL DEF Spec, OutcomeIsFinal

\* The row a claim moves to `running` is an oldest queued one at that moment,
\* although it was chosen a step earlier.
THEOREM ClaimsOldest == Spec => OldestFirst
<1> DEFINE Oldest ==
      \A t, u \in Tasks :
        /\ state[t] = "queued" /\ state'[t] = "running"
        /\ state[u] = "queued"
        => created[t] <= created[u]
<1>1. IInv /\ [Next]_vars => [Oldest]_vars
  <2> SUFFICES ASSUME IInv, Next PROVE Oldest
    OBVIOUS
  <2> USE DEF IInv, TypeOK, Terminal, rowVars
  <2>1. ASSUME NEW t \in Tasks, Submit(t) PROVE Oldest
    BY <2>1 DEF Submit
  <2>2. ASSUME NEW w \in Workers, ClaimCommit(w) PROVE Oldest
    BY <2>2 DEF ClaimCommit, Claimable, FreshIsOldest, OldestQueued
  <2>3. ASSUME NEW w \in Workers, Mark(w) PROVE Oldest
    BY <2>3 DEF Mark, ClaimExclusive, Executing
  <2>4. CASE Boot
    BY <2>4 DEF Boot, Stale
  <2>5. ASSUME UNCHANGED state PROVE Oldest
    BY <2>5
  <2> QED
    BY <2>1, <2>2, <2>3, <2>4, <2>5
    DEF Next, CronFire, Webhook, FireBoot, Dispatch, WorkerStep, ClaimRead,
        PollEmpty, ClaimMiss, Complete, MarkFails, FireNoBoot, BootReapFails, Crash, ForeignCommit, Tick, vars
<1> QED
  BY Invariance, <1>1, PTL DEF Spec, OldestFirst
------------------------------------------------------------------------------
(* The queue implements the abstract task board. *)

\* The refinement mapping is well defined: a task executed by w is held by w,
\* and by nobody when no worker executes it.
HolderOK ==
  /\ holderOf = [t \in Tasks |-> holderOf[t]]
  /\ \A t \in Tasks : ~Held(t) => holderOf[t] = NoWorker
  /\ \A w \in Workers : Executing(w) => holderOf[cur[w]] = w

\* The invariant determines the holder of every task.
LEMMA HolderFacts == IInv => HolderOK
<1> SUFFICES ASSUME IInv PROVE HolderOK
  OBVIOUS
<1>1. ASSUME NEW t \in Tasks, ~Held(t) PROVE holderOf[t] = NoWorker
  BY <1>1 DEF holderOf
<1>2. ASSUME NEW w \in Workers, Executing(w) PROVE holderOf[cur[w]] = w
  <2> DEFINE t == cur[w]
  <2>1. t \in Tasks /\ Held(t)
    BY <1>2 DEF IInv, ClaimExclusive, Held
  <2>2. \A v \in Workers : Executing(v) /\ cur[v] = t => v = w
    BY <1>2 DEF IInv, ClaimExclusive
  <2>3. holderOf[t] = CHOOSE v \in Workers : Executing(v) /\ cur[v] = t
    BY <2>1 DEF holderOf
  <2> QED
    BY <1>2, <2>2, <2>3
<1>3. holderOf = [t \in Tasks |-> holderOf[t]]
  BY DEF holderOf
<1> QED
  BY <1>1, <1>2, <1>3 DEF HolderOK

\* The same facts in the state after a step.
LEMMA HolderFactsNext == IInv' => HolderOK'
BY HolderFacts, PTL

\* A step that changes neither rows nor who executes what is a stuttering
\* step of the board.
LEMMA QuietStep ==
  ASSUME IInv, IInv', UNCHANGED state,
         \A w \in Workers : /\ Executing(w)' <=> Executing(w)
                            /\ Executing(w) => cur'[w] = cur[w]
  PROVE  UNCHANGED Board!boardVars
<1>1. \A t \in Tasks : Held(t)' <=> Held(t)
  BY DEF Held
<1>2. ASSUME NEW t \in Tasks PROVE holderOf'[t] = holderOf[t]
  <2>1. CASE Held(t)
    <3>1. PICK w \in Workers : Executing(w) /\ cur[w] = t
      BY <2>1 DEF Held
    <3> QED
      BY <3>1, HolderFacts, HolderFactsNext DEF HolderOK
  <2>2. CASE ~Held(t)
    BY <2>2, <1>1, HolderFacts, HolderFactsNext DEF HolderOK
  <2> QED
    BY <2>1, <2>2
<1> QED
  BY <1>2, HolderFacts, HolderFactsNext DEF Board!boardVars, HolderOK

\* Every step of the queue is a step of the board or leaves it unchanged.
LEMMA BoardStep == IInv /\ IInv' /\ [Next]_vars => [Board!BoardNext]_(Board!boardVars)
<1> SUFFICES ASSUME IInv, IInv', [Next]_vars
             PROVE  Board!BoardNext \/ UNCHANGED Board!boardVars
  OBVIOUS
<1> USE HolderFacts, HolderFactsNext
<1> USE DEF IInv, TypeOK, Terminal, rowVars, procVars, workVars, histVars
<1>1. ASSUME NEW t \in Tasks, Submit(t) PROVE Board!Enqueue(t)
  <2>1. UNCHANGED holderOf
    BY <1>1 DEF Submit, holderOf, Held, Executing
  <2> QED
    BY <1>1, <2>1 DEF Submit, Board!Enqueue
<1>2. ASSUME NEW w \in Workers, ClaimRead(w) \/ ClaimMiss(w) \/ Complete(w)
      PROVE  UNCHANGED Board!boardVars
  BY <1>2, QuietStep DEF ClaimRead, ClaimMiss, Complete, Executing
<1>3. ASSUME NEW w \in Workers, ClaimCommit(w) PROVE Board!Start(w, cur[w])
  <2> DEFINE t == cur[w]
  <2>1. t \in Tasks /\ ~Held(t) /\ state[t] = "queued"
    BY <1>3 DEF ClaimCommit, Claimable, FreshIsOldest, ClaimExclusive, Held
  <2>2. \A u \in Tasks : holderOf[u] # w
    BY <1>3, TaskQueueAssumption DEF ClaimCommit, HolderOK, Held, Executing
  <2>3. holderOf'[t] = w
    BY <1>3 DEF ClaimCommit, HolderOK, Executing
  <2>4. ASSUME NEW u \in Tasks, u # t PROVE holderOf'[u] = holderOf[u]
    <3>1. CASE Held(u)
      <4>1. PICK v \in Workers : Executing(v) /\ cur[v] = u
        BY <3>1 DEF Held
      <4> QED
        BY <1>3, <4>1 DEF ClaimCommit, HolderOK, Executing
    <3>2. CASE ~Held(u)
      BY <1>3, <2>4, <3>2 DEF ClaimCommit, HolderOK, Executing, Held
    <3> QED
      BY <3>1, <3>2
  <2>5. holderOf' = [holderOf EXCEPT ![t] = w]
    BY <2>3, <2>4 DEF HolderOK
  <2> QED
    BY <1>3, <2>1, <2>2, <2>5 DEF Board!Start, ClaimCommit
<1>4. ASSUME NEW w \in Workers, Mark(w) \/ MarkFails(w)
      PROVE  /\ cur[w] \in Tasks /\ state[cur[w]] = "running" /\ holderOf[cur[w]] = w
             /\ holderOf' = [holderOf EXCEPT ![cur[w]] = NoWorker]
  <2>1. Executing(w)
    BY <1>4 DEF Mark, MarkFails, Executing
  <2>2. PICK t \in Tasks : t = cur[w] /\ state[t] = "running" /\ holderOf[t] = w
    BY <2>1 DEF ClaimExclusive, HolderOK
  <2>3. /\ ~Executing(w)'
        /\ \A v \in Workers \ {w} : /\ Executing(v)' <=> Executing(v)
                                   /\ cur'[v] = cur[v]
    BY <1>4 DEF Mark, MarkFails, Executing
  <2>4. ~Held(t)'
    BY <2>1, <2>2, <2>3 DEF ClaimExclusive, Held
  <2>5. ASSUME NEW u \in Tasks, u # t PROVE holderOf'[u] = holderOf[u]
    <3>1. CASE Held(u)
      <4>1. PICK v \in Workers : Executing(v) /\ cur[v] = u
        BY <3>1 DEF Held
      <4> QED
        BY <2>2, <2>3, <2>5, <4>1 DEF HolderOK
    <3>2. CASE ~Held(u)
      BY <2>3, <3>2 DEF HolderOK, Held
    <3> QED
      BY <3>1, <3>2
  <2>6. holderOf'[t] = NoWorker
    BY <2>2, <2>4 DEF HolderOK
  <2>7. holderOf' = [holderOf EXCEPT ![t] = NoWorker]
    BY <2>5, <2>6 DEF HolderOK
  <2> QED
    BY <2>2, <2>7
<1>5. ASSUME NEW w \in Workers, Mark(w) PROVE Board!Finish(cur[w])
  <2>1. outcome[w] \in Terminal /\ state' = [state EXCEPT ![cur[w]] = outcome[w]]
    BY <1>5 DEF Mark, MarkHasOutcome
  <2> QED
    <3>1. /\ holderOf[cur[w]] # NoWorker /\ state[cur[w]] = "running"
          /\ holderOf' = [holderOf EXCEPT ![cur[w]] = NoWorker]
      BY <1>4, <1>5, TaskQueueAssumption
    <3> QED
      BY <2>1, <3>1 DEF Board!Finish, Board!Terminal
<1>6. ASSUME NEW w \in Workers, MarkFails(w) PROVE Board!Abandon({cur[w]})
  <2>1. UNCHANGED state
    BY <1>6 DEF MarkFails
  <2>2. holderOf' = [holderOf EXCEPT ![cur[w]] = NoWorker]
    BY <1>4, <1>6
  <2> QED
    BY <2>1, <2>2 DEF Board!Abandon, HolderOK
<1>7. CASE Boot
  <2>1. \A t \in Tasks : ~Held(t) /\ ~Held(t)'
    BY <1>7 DEF Boot, SpawnWorkers, DownIsQuiet, Held, Executing
  <2>2. UNCHANGED holderOf
    BY <2>1 DEF HolderOK
  <2> DEFINE S == {t \in Tasks : Stale(t)}
  <2>3. Board!Reap(S)
    BY <1>7, <2>1, <2>2 DEF Boot, Stale, HolderOK, Board!Reap
  <2> QED
    BY <2>3 DEF Board!BoardNext
<1>8. CASE BootReapFails
  BY <1>8, QuietStep DEF BootReapFails, SpawnWorkers, DownIsQuiet, Executing
<1>9. CASE Crash
  <2>1. \A t \in Tasks : holderOf'[t] = NoWorker
    BY <1>9 DEF Crash, HolderOK, Held, Executing
  <2>2. Board!Abandon(Tasks)
    BY <1>9, <2>1 DEF Crash, Board!Abandon, HolderOK
  <2> QED
    BY <2>2 DEF Board!BoardNext
<1>10. CASE FireNoBoot \/ ForeignCommit \/ Tick \/ UNCHANGED vars
  BY <1>10, QuietStep DEF FireNoBoot, ForeignCommit, Tick, vars, Executing
<1>11. ASSUME NEW w \in Workers, WorkerStep(w) \/ MarkFails(w)
       PROVE  Board!BoardNext \/ UNCHANGED Board!boardVars
  <2>1. CASE PollEmpty(w)
    BY <2>1, <1>10 DEF PollEmpty
  <2>2. CASE ClaimCommit(w)
    BY <2>2, <1>3 DEF Board!BoardNext, ClaimCommit, FreshIsOldest
  <2>3. CASE Mark(w)
    BY <2>3, <1>4, <1>5 DEF Board!BoardNext
  <2>4. CASE MarkFails(w)
    <3>1. cur[w] \in Tasks /\ Board!Abandon({cur[w]})
      BY <2>4, <1>4, <1>6
    <3> QED
      BY <3>1 DEF Board!BoardNext
  <2> QED
    BY <1>2, <1>11, <2>1, <2>2, <2>3, <2>4 DEF WorkerStep
<1> QED
  BY <1>1, <1>7, <1>8, <1>9, <1>10, <1>11
  DEF Next, CronFire, Webhook, FireBoot, Dispatch, Board!BoardNext

\* The detailed queue (rows, snapshots, crashes, reaping) implements the
\* abstract task board.
THEOREM Refinement == Spec => ImplementsBoard
<1>1. Init => Board!BoardInit
  BY DEF Init, Board!BoardInit, holderOf, Held, Executing
<1> QED
  BY <1>1, Invariance, BoardStep, PTL DEF Spec, ImplementsBoard, Board!BoardSpec

\* Exclusive claims, at-most-once execution and explained orphans.
THEOREM SoundClaims == Spec => []ClaimsSound
BY Exclusion, ExecutedAtMostOnce, OrphanCauses, PTL DEF ClaimsSound
-----------------------------------------------------------------------------
(***************************************************************************)
(* Scores and smoke runs, for any number of users, runs, agents and        *)
(* judges.  The argument for scores: the queue of a reply is the rest of a *)
(* list its agent has had, and each judge has left at most one row for     *)
(* each time the part behind it names it (Drains); a call in flight has    *)
(* neither, so its turn or its run may file it once, on record.            *)
(***************************************************************************)
ListsOf(a) == JudgeLists \cup {BootAgents[a]}

Reply == [kind : {"chat", "shadow", "smoke"}, user : Users \cup Runs, agent : Names,
          queue : Seq(Judges), state : {"calling", "failed", "done"}]
Marks == UNION {[S -> 0 .. MaxScore] : S \in SUBSET Criteria}
Score == [id : Nat, agent : Names, user : Users \cup Runs, judge : Judges, marks : Marks]
Chat  == [pc : {"idle", "route", "call"}, stream : BOOLEAN, lo : Nat, hi : Nat, id : Nat]
Row   == [status : {"none", "running", "completed", "failed"}, turns : Nat,
          resolved : Names \cup {Unset}]
Loop  == [pc : Active \cup {"none", "gone"}, test : TestConfigs, turn : Nat, conv : Seq(Message),
          recorded : BOOLEAN, lo : Nat, hi : Nat, agent : Names, id : Nat]

EvaluationTypes ==
  /\ exp \in Configs
  /\ agents \in [Agents -> Seq(Judges) \cup {Gone}]
  /\ \A a \in Agents : agents[a] = Gone \/ agents[a] \in ListsOf(a)
  /\ turn \in [Users -> Chat] /\ reply \in Seq(Reply)
  /\ history \in [Users -> SUBSET Nat] /\ scores \in Seq(Score) /\ since \in Nat
  /\ run \in [Runs -> Row] /\ messages \in [Runs -> SUBSET Message]
  /\ task \in [Runs -> Loop]
  /\ pending \in [test : TestConfigs, left : Nat]

Unscored(m) == \A k \in DOMAIN scores : scores[k].id # m

Judged(m, j) == {k \in DOMAIN scores : scores[k].id = m /\ scores[k].judge = j}

Consumed(list, n, j) == {i \in 1 .. n : list[i] = j}

\* The judges of reply e that are still to come, and the rows of those that were.
Drains(m, e) ==
  \E list \in ListsOf(e.agent) : \E n \in 0 .. Len(list) :
    /\ e.queue = SubSeq(list, n + 1, Len(list))
    /\ \A j \in Judges : Cardinality(Judged(m, j)) <= Cardinality(Consumed(list, n, j))

OnRecord(m, e) ==
  /\ e.kind = "chat"  => m \in history[e.user]
  /\ e.kind = "smoke" => \E x \in messages[e.user] : x.id = m

\* What is true of reply e under the id m.
SoundReply(m, e) ==
  /\ e \in Reply /\ (e.kind = "smoke" <=> e.user \in Runs)
  /\ e.state # "failed" => e.agent \in Agents
  /\ e.state # "done" => e.queue = << >> /\ Unscored(m)
  /\ e.state = "done" => Drains(m, e)
  /\ e.queue # << >> \/ ~Unscored(m) => OnRecord(m, e)

SoundRow(s) ==
  /\ s.id \in DOMAIN reply
  /\ reply[s.id].agent = s.agent /\ reply[s.id].user = s.user /\ reply[s.id].state = "done"
  /\ s.judge \in DOMAIN Rubrics /\ DOMAIN s.marks \subseteq Rubrics[s.judge]
  /\ \A c \in DOMAIN s.marks : s.marks[c] \in 0 .. MaxScore

\* A turn, and a run, in a call has one of its own.
Calls(m, kind, user) ==
  /\ m \in DOMAIN reply /\ reply[m].kind = kind /\ reply[m].user = user
  /\ reply[m].state = "calling"

RepliesSound == \A m \in DOMAIN reply : SoundReply(m, reply[m])
RowsSound == \A k \in DOMAIN scores : SoundRow(scores[k])
TurnCall(u) == turn[u].pc = "call" => Calls(turn[u].id, "chat", u)
TurnsCall   == \A u \in Users : TurnCall(u)
RunCall(r)  == task[r].pc = "call" => Calls(task[r].id, "smoke", r)
RunsCall    == \A r \in Runs : RunCall(r)
HistorySound ==
  \A u \in Users : \A m \in history[u] :
    m \in DOMAIN reply /\ reply[m].kind = "chat" /\ reply[m].user = u

ScoreIInv ==
  /\ EvaluationTypes /\ RepliesSound /\ RowsSound /\ TurnsCall /\ RunsCall /\ HistorySound

\* A call as it begins.
Fresh(e) ==
  /\ e \in Reply /\ (e.kind = "smoke" <=> e.user \in Runs)
  /\ e.queue = << >> /\ e.state # "done" /\ (e.state = "calling" => e.agent \in Agents)

\* One entry changed, others added.
LEMMA ChangeAndAdd ==
  ASSUME NEW S, NEW s \in Seq(S), NEW m \in 1 .. Len(s), NEW e \in S, NEW t \in Seq(S)
  PROVE  LET r == [s EXCEPT ![m] = e] \o t
         IN  /\ r \in Seq(S) /\ DOMAIN r = 1 .. (Len(s) + Len(t))
             /\ \A i \in 1 .. Len(s) : r[i] = IF i = m THEN e ELSE s[i]
             /\ \A i \in 1 .. Len(t) : r[Len(s) + i] = t[i]
<1>1. PICK q : q = [s EXCEPT ![m] = e] OBVIOUS
<1>2. q \in Seq(S) /\ Len(q) = Len(s) /\ \A i \in 1 .. Len(s) : q[i] = IF i = m THEN e ELSE s[i]
  BY <1>1
<1>3. /\ q \o t \in Seq(S) /\ DOMAIN (q \o t) = 1 .. (Len(s) + Len(t))
      /\ \A i \in 1 .. Len(s) : (q \o t)[i] = q[i]
      /\ \A i \in 1 .. Len(t) : (q \o t)[Len(s) + i] = t[i]
  BY <1>2
<1> QED BY <1>1, <1>2, <1>3

LEMMA Added ==
  ASSUME NEW S, NEW s \in Seq(S), NEW t \in Seq(S)
  PROVE  LET r == s \o t
         IN  /\ r \in Seq(S) /\ DOMAIN r = 1 .. (Len(s) + Len(t))
             /\ \A i \in 1 .. Len(s) : r[i] = s[i]
             /\ \A i \in 1 .. Len(t) : r[Len(s) + i] = t[i]
OBVIOUS

\* What is sound stays so while the rows stay and the records only grow.
LEMMA SoundKept ==
  ASSUME NEW m, NEW e, SoundReply(m, e), UNCHANGED scores, EvaluationTypes,
         \A u \in Users : history[u] \subseteq history'[u],
         \A r \in Runs : messages[r] \subseteq messages'[r]
  PROVE  SoundReply(m, e)'
<1>1. Unscored(m)' <=> Unscored(m) BY DEF Unscored
<1>2. Drains(m, e)' <=> Drains(m, e) BY DEF Drains, Judged, ListsOf, Consumed
<1>3. OnRecord(m, e) => OnRecord(m, e)'
  <2> SUFFICES ASSUME OnRecord(m, e) PROVE OnRecord(m, e)' OBVIOUS
  <2>1. e.kind = "chat" => e.user \in Users /\ m \in history[e.user]
    BY DEF OnRecord, SoundReply, Reply
  <2>2. e.kind = "smoke" => e.user \in Runs /\ \E x \in messages[e.user] : x.id = m
    BY DEF OnRecord, SoundReply
  <2> QED BY <2>1, <2>2 DEF OnRecord
<1> QED BY <1>1, <1>2, <1>3 DEF SoundReply

\* A call that begins under a new id is sound.
LEMMA FreshSound ==
  ASSUME NEW m, NEW e, Fresh(e), ScoreIInv, m \notin DOMAIN reply, UNCHANGED scores
  PROVE  SoundReply(m, e)'
<1>1. Unscored(m)' BY DEF Unscored, ScoreIInv, RowsSound, SoundRow
<1>2. e.state \in {"calling", "failed"} BY DEF Fresh, Reply
<1> QED BY <1>1, <1>2 DEF SoundReply, Fresh

\* A step that begins calls, changes one reply and files nothing new: what is
\* left to show is that reply, and the turns and runs that are in a call.
LEMMA ReplyStep ==
  ASSUME ScoreIInv, EvaluationTypes', UNCHANGED scores,
         \A u \in Users : history[u] \subseteq history'[u],
         \A r \in Runs : messages[r] \subseteq messages'[r],
         DOMAIN reply \subseteq DOMAIN reply', NEW changed, NEW e,
         \A m \in DOMAIN reply : m # changed => reply'[m] = reply[m],
         \A m \in DOMAIN reply' \ DOMAIN reply : Fresh(reply'[m]),
         changed \in DOMAIN reply =>
           /\ reply'[changed] = e /\ e.agent = reply[changed].agent
           /\ e.user = reply[changed].user /\ e.kind = reply[changed].kind
           /\ (reply[changed].state = "done" => e.state = "done")
           /\ SoundReply(changed, e)',
         TurnsCall', RunsCall',
         \A u \in Users : \A m \in history'[u] :
           m \in history[u] \/ (m \in DOMAIN reply /\ reply[m].kind = "chat" /\ reply[m].user = u)
  PROVE  ScoreIInv'
<1>1. \A m \in DOMAIN reply : m \in DOMAIN reply' /\ reply'[m].agent = reply[m].agent
        /\ reply'[m].user = reply[m].user /\ reply'[m].kind = reply[m].kind
        /\ (reply[m].state = "done" => reply'[m].state = "done")
  OBVIOUS
<1>2. RepliesSound'
  <2>1. SUFFICES ASSUME NEW m \in DOMAIN reply', NEW d, d = reply'[m] PROVE SoundReply(m, d)'
    BY DEF RepliesSound
  <2>2. CASE m \in DOMAIN reply /\ m # changed
    <3>1. SoundReply(m, d) BY <2>1, <2>2 DEF ScoreIInv, RepliesSound
    <3> QED BY <3>1, SoundKept DEF ScoreIInv
  <2>3. CASE m \in DOMAIN reply /\ m = changed BY <2>1, <2>3
  <2>4. CASE m \notin DOMAIN reply
    <3>1. Fresh(d) BY <2>1, <2>4
    <3> QED BY <2>4, <3>1, FreshSound
  <2> QED BY <2>2, <2>3, <2>4
<1>3. RowsSound'
  <2>1. SUFFICES ASSUME NEW k \in DOMAIN scores, NEW s, s = scores[k], SoundRow(s) PROVE SoundRow(s)'
    BY DEF RowsSound, ScoreIInv
  <2> QED BY <1>1, <2>1 DEF SoundRow
<1>4. HistorySound'
  <2>1. \A u \in Users : \A m \in history'[u] :
          m \in DOMAIN reply /\ reply[m].kind = "chat" /\ reply[m].user = u
    BY DEF ScoreIInv, HistorySound
  <2> QED BY <1>1, <2>1 DEF HistorySound
<1> QED BY <1>2, <1>3, <1>4 DEF ScoreIInv

LEMMA ConsumedCount ==
  ASSUME NEW list, NEW n \in Nat, NEW j
  PROVE  IsFiniteSet(Consumed(list, n, j)) /\ Cardinality(Consumed(list, n, j)) \in Nat
<1>1. IsFiniteSet(1 .. n) BY FS_Interval
<1>2. Consumed(list, n, j) \in SUBSET (1 .. n) BY DEF Consumed
<1> QED BY <1>1, <1>2, FS_Subset, FS_CardinalityType

\* A judge list of its agent that is used up.
LEMMA Drained ==
  ASSUME EvaluationTypes, NEW m, NEW e, e.queue = << >>, e.agent \in Agents, Unscored(m),
         UNCHANGED scores
  PROVE  Drains(m, e)'
<1> DEFINE list == BootAgents[e.agent]
<1>1. list \in Seq(Judges) /\ list \in ListsOf(e.agent) /\ Len(list) \in Nat
  BY EvaluationAssumption DEF ListsOf
<1>2. SubSeq(list, Len(list) + 1, Len(list)) = << >> BY <1>1
<1>3. \A j \in Judges : Judged(m, j)' = {} BY DEF Judged, Unscored
<1>4. \A j \in Judges : Cardinality(Consumed(list, Len(list), j)) \in Nat
  BY <1>1, ConsumedCount
<1>5. \A j \in Judges : Cardinality(Judged(m, j)') <= Cardinality(Consumed(list, Len(list), j))
  <2> SUFFICES ASSUME NEW j \in Judges
               PROVE  Cardinality(Judged(m, j)') <= Cardinality(Consumed(list, Len(list), j))
    OBVIOUS
  <2>1. Cardinality(Judged(m, j)') = 0 BY <1>3, FS_EmptySet
  <2> HIDE DEF list
  <2> QED BY <1>4, <2>1
<1> HIDE DEF list
<1>6. list \in ListsOf(e.agent)' BY <1>1 DEF ListsOf
<1> QED BY <1>1, <1>2, <1>5, <1>6 DEF Drains, Consumed, Judged

\* A call that ends unjudged.
LEMMA Ending ==
  ASSUME ScoreIInv, NEW m \in DOMAIN reply, reply[m].state = "calling", UNCHANGED scores,
         NEW how \in {"done", "failed"}, NEW e, e = [reply[m] EXCEPT !.state = how]
  PROVE  e \in Reply /\ SoundReply(m, e)'
<1>1. /\ reply[m] \in Reply /\ (reply[m].kind = "smoke" <=> reply[m].user \in Runs)
      /\ reply[m].agent \in Agents /\ reply[m].queue = << >> /\ Unscored(m)
  BY DEF ScoreIInv, RepliesSound, SoundReply
<1>2. /\ e \in Reply /\ e.kind = reply[m].kind /\ e.user = reply[m].user
      /\ e.agent = reply[m].agent /\ e.queue = << >> /\ e.state = how
  BY <1>1 DEF Reply
<1>3. Drains(m, e)' BY <1>1, <1>2, Drained DEF ScoreIInv
<1>4. Unscored(m)' BY <1>1 DEF Unscored
<1> QED BY <1>1, <1>2, <1>3, <1>4 DEF SoundReply

\* A call that ends and is handed to its agent's judges.
LEMMA Scoring ==
  ASSUME ScoreIInv, NEW m \in DOMAIN reply, reply[m].state = "calling", UNCHANGED scores,
         NEW e, e = Scored(m), OnRecord(m, e)'
  PROVE  e \in Reply /\ SoundReply(m, e)'
<1>1. /\ reply[m] \in Reply /\ (reply[m].kind = "smoke" <=> reply[m].user \in Runs)
      /\ reply[m].agent \in Agents /\ reply[m].queue = << >> /\ Unscored(m)
  BY DEF ScoreIInv, RepliesSound, SoundReply
<1>2. JudgesFor(reply[m].agent) \in Seq(Judges) BY DEF ScoreIInv, EvaluationTypes, JudgesFor
<1>3. /\ e \in Reply /\ e.kind = reply[m].kind /\ e.user = reply[m].user
      /\ e.agent = reply[m].agent /\ e.queue = JudgesFor(reply[m].agent) /\ e.state = "done"
  BY <1>1, <1>2 DEF Reply, Scored
<1>4. Drains(m, e)'
  <2>1. CASE agents[e.agent] = Gone
    <3>1. e.queue = << >> BY <1>3, <2>1 DEF JudgesFor
    <3> QED BY <1>1, <1>3, <3>1, Drained DEF ScoreIInv
  <2>2. CASE agents[e.agent] # Gone
    <3>1. e.queue \in ListsOf(e.agent) /\ e.queue \in Seq(Judges)
      BY <1>1, <1>2, <1>3, <2>2 DEF ScoreIInv, EvaluationTypes, JudgesFor
    <3>2. \A j \in Judges : Judged(m, j)' = {} BY <1>1 DEF Judged, Unscored
    <3>3. \A j \in Judges : Consumed(e.queue, 0, j) = {} BY DEF Consumed
    <3>4. e.queue = SubSeq(e.queue, 0 + 1, Len(e.queue)) /\ 0 \in 0 .. Len(e.queue) BY <3>1
    <3>5. \A j \in Judges : Cardinality(Judged(m, j)') <= Cardinality(Consumed(e.queue, 0, j))
      BY <3>2, <3>3, FS_EmptySet
    <3>6. e.queue \in ListsOf(e.agent)' BY <3>1 DEF ListsOf
    <3> QED BY <3>4, <3>5, <3>6 DEF Drains, Consumed, Judged
  <2> QED BY <2>1, <2>2
<1>5. Unscored(m)' BY <1>1 DEF Unscored
<1> QED BY <1>1, <1>3, <1>4, <1>5 DEF SoundReply

\* What a call that begins is given.
LEMMA CallFresh ==
  ASSUME EvaluationTypes, NEW kind \in {"chat", "shadow", "smoke"}, NEW user \in Users \cup Runs,
         NEW agent \in Names, kind = "smoke" <=> user \in Runs
  PROVE  Fresh(Call(kind, user, agent)) /\ Call(kind, user, agent) \in Reply
BY DEF Fresh, Call, Reply, Live, Names

LEMMA ShadowsTyped == ASSUME EvaluationTypes, NEW names \in Shadows PROVE names \in Seq(Agents)
<1>1. PICK n \in 0 .. Len(exp.variants) : names \in [1 .. n -> Agents] BY DEF Shadows, NameLists
<1>2. exp.variants \in Seq([agent : Agents, weight : Int])
  BY EvaluationAssumption DEF EvaluationTypes, ExperimentConfig
<1>3. n \in Nat BY <1>2
<1> QED BY <1>1, <1>3

LEMMA ShadowsFresh ==
  ASSUME EvaluationTypes, NEW u \in Users, NEW names \in Seq(Agents)
  PROVE  /\ ShadowCalls(u, names) \in Seq(Reply)
         /\ \A i \in 1 .. Len(ShadowCalls(u, names)) : Fresh(ShadowCalls(u, names)[i])
<1>1. \A i \in 1 .. Len(names) :
        Fresh(Call("shadow", u, names[i])) /\ Call("shadow", u, names[i]) \in Reply
  BY CallFresh, EvaluationAssumption DEF Names
<1>2. ShadowCalls(u, names) \in [1 .. Len(names) -> Reply] BY <1>1 DEF ShadowCalls
<1> QED BY <1>1, <1>2 DEF ShadowCalls

LEMMA ScoreAskStep ==
  ASSUME ScoreIInv, NEW u \in Users, NEW stream \in BOOLEAN, AskScores(u, stream) PROVE ScoreIInv'
<1>1. PICK w \in Window :
        turn' = [turn EXCEPT ![u] = [pc |-> "route", stream |-> stream,
                                     lo |-> w[1], hi |-> w[2], id |-> 0]]
  BY DEF AskScores
<1>2. w[1] \in Nat /\ w[2] \in Nat BY DEF Window, ScoreIInv, EvaluationTypes
<1>3. EvaluationTypes' BY <1>1, <1>2 DEF AskScores, ScoreIInv, EvaluationTypes, Chat, ListsOf
<1>4. \A v \in Users : turn'[v].pc = "call" => v # u /\ turn'[v] = turn[v]
  BY <1>1 DEF ScoreIInv, EvaluationTypes
<1>5. TurnsCall' BY <1>4 DEF AskScores, ScoreIInv, TurnsCall, TurnCall, Calls
<1>6. RunsCall' BY DEF AskScores, ScoreIInv, RunsCall, RunCall, Calls
<1>7. 0 \notin DOMAIN reply BY DEF ScoreIInv, EvaluationTypes
<1> QED BY <1>3, <1>5, <1>6, <1>7, ReplyStep DEF AskScores

\* A reply changes: the turns and runs in a call of another reply stay in it.
LEMMA CallsKept ==
  ASSUME ScoreIInv, DOMAIN reply \subseteq DOMAIN reply', NEW m,
         \A n \in DOMAIN reply : n # m => reply'[n] = reply[n],
         \A u \in Users : \/ turn'[u] = turn[u] /\ (turn[u].pc = "call" => turn[u].id # m)
                          \/ TurnCall(u)',
         \A r \in Runs : \/ /\ task'[r].pc = task[r].pc /\ task'[r].id = task[r].id
                            /\ (task[r].pc = "call" => task[r].id # m)
                         \/ RunCall(r)'
  PROVE  TurnsCall' /\ RunsCall'
<1>1. \A n \in DOMAIN reply : n # m => n \in DOMAIN reply' /\ reply'[n] = reply[n] OBVIOUS
<1>2. TurnsCall' BY <1>1 DEF ScoreIInv, TurnsCall, TurnCall, Calls
<1>3. RunsCall' BY <1>1 DEF ScoreIInv, RunsCall, RunCall, Calls
<1> QED BY <1>2, <1>3

\* A turn's call ends, with or without shadow replays.
LEMMA EndTurnStep ==
  ASSUME ScoreIInv, NEW u \in Users, NEW m, m = turn[u].id, turn[u].pc = "call",
         NEW e \in Reply, e.agent = reply[m].agent, e.user = reply[m].user,
         e.kind = reply[m].kind, SoundReply(m, e)', NEW names \in Seq(Agents),
         EndTurn(u, m, e, names),
         UNCHANGED history \/ history' = [history EXCEPT ![u] = @ \cup {m}]
  PROVE  ScoreIInv'
<1>1. m \in DOMAIN reply /\ reply[m].kind = "chat" /\ reply[m].user = u /\ reply[m].state = "calling"
  BY DEF ScoreIInv, TurnsCall, TurnCall, Calls
<1>2. PICK t : t = ShadowCalls(u, names) OBVIOUS
<1>3. t \in Seq(Reply) /\ \A i \in 1 .. Len(t) : Fresh(t[i])
  BY <1>2, ShadowsFresh DEF ScoreIInv
<1>4. reply \in Seq(Reply) /\ DOMAIN reply = 1 .. Len(reply) /\ Len(reply) \in Nat
  BY DEF ScoreIInv, EvaluationTypes
<1>5. reply' = [reply EXCEPT ![m] = e] \o t BY <1>2 DEF EndTurn
<1>6. /\ reply' \in Seq(Reply) /\ DOMAIN reply' = 1 .. (Len(reply) + Len(t))
      /\ \A i \in 1 .. Len(reply) : reply'[i] = IF i = m THEN e ELSE reply[i]
      /\ \A i \in 1 .. Len(t) : reply'[Len(reply) + i] = t[i]
  BY <1>1, <1>3, <1>4, <1>5, ChangeAndAdd
<1>7. /\ DOMAIN reply \subseteq DOMAIN reply' /\ reply'[m] = e
      /\ \A i \in DOMAIN reply : i # m => reply'[i] = reply[i]
      /\ \A i \in DOMAIN reply' \ DOMAIN reply : Fresh(reply'[i])
  <2>1. \A i \in DOMAIN reply' \ DOMAIN reply : i - Len(reply) \in 1 .. Len(t)
                                                  /\ i = Len(reply) + (i - Len(reply))
    BY <1>3, <1>4, <1>6
  <2> QED BY <1>1, <1>3, <1>4, <1>6, <2>1
<1>8. /\ \A v \in Users : IF v = u THEN turn'[v] = IdleTurn ELSE turn'[v] = turn[v]
      /\ UNCHANGED <<exp, agents, scores, since, run, messages, task, pending>>
  BY DEF EndTurn, ScoreIInv, EvaluationTypes
<1>14. /\ history' \in [Users -> SUBSET Nat]
       /\ \A v \in Users : history[v] \subseteq history'[v]
       /\ \A v \in Users : \A n \in history'[v] : n \in history[v] \/ (n = m /\ v = u)
  <2>1. history \in [Users -> SUBSET Nat] /\ m \in Nat
    BY <1>1, <1>4 DEF ScoreIInv, EvaluationTypes
  <2>2. CASE UNCHANGED history BY <2>1, <2>2
  <2>3. CASE history' = [history EXCEPT ![u] = @ \cup {m}] BY <2>1, <2>3
  <2> QED BY <2>2, <2>3
<1>9. EvaluationTypes'
  <2>1. turn' \in [Users -> Chat] BY DEF EndTurn, ScoreIInv, EvaluationTypes, IdleTurn, Chat
  <2> QED
    BY <1>6, <1>8, <1>14, <2>1 DEF ScoreIInv, EvaluationTypes, ListsOf
<1>10. \A v \in Users : turn[v].pc = "call" /\ turn[v].id = m => v = u
  BY <1>1 DEF ScoreIInv, TurnsCall, TurnCall, Calls
<1>11. \A r \in Runs : task[r].pc = "call" => task[r].id # m
  BY <1>1 DEF ScoreIInv, RunsCall, RunCall, Calls
<1>12. TurnCall(u)' BY <1>8 DEF TurnCall, IdleTurn
<1>13. TurnsCall' /\ RunsCall' BY <1>7, <1>8, <1>10, <1>11, <1>12, CallsKept
<1>15. \A v \in Users : \A n \in history'[v] :
         n \in history[v] \/ (n \in DOMAIN reply /\ reply[n].kind = "chat" /\ reply[n].user = v)
  BY <1>1, <1>14
<1>16. (reply[m].state = "done" => e.state = "done") BY <1>1
<1> QED BY <1>7, <1>8, <1>9, <1>13, <1>14, <1>15, <1>16, ReplyStep

LEMMA ScoreTurnEnds ==
  ASSUME ScoreIInv, NEW u \in Users, ChatReplies(u) \/ ChatUnsaved(u) \/ ChatFails(u)
  PROVE  ScoreIInv'
<1>1. PICK m : m = turn[u].id OBVIOUS
<1>2. turn[u].pc = "call" BY DEF ChatReplies, ChatUnsaved, ChatFails
<1>3. m \in DOMAIN reply /\ reply[m].kind = "chat" /\ reply[m].user = u /\ reply[m].state = "calling"
  BY <1>1, <1>2 DEF ScoreIInv, TurnsCall, TurnCall, Calls
<1>4. << >> \in Seq(Agents) /\ \A names \in Shadows : names \in Seq(Agents)
  BY ShadowsTyped DEF ScoreIInv
<1>5. UNCHANGED scores BY DEF ChatReplies, ChatUnsaved, ChatFails, EndTurn
<1>6. reply[m] \in Reply BY <1>3 DEF ScoreIInv, EvaluationTypes
<1>7. CASE ChatReplies(u)
  <2>1. PICK names \in IF turn[u].stream THEN {<< >>} ELSE Shadows :
          EndTurn(u, m, Scored(m), names)
    BY <1>1, <1>7 DEF ChatReplies
  <2>2. history' = [history EXCEPT ![u] = @ \cup {m}] BY <1>1, <1>7 DEF ChatReplies
  <2>3. PICK e : e = Scored(m) OBVIOUS
  <2>4. e.agent = reply[m].agent /\ e.user = reply[m].user /\ e.kind = reply[m].kind
    BY <1>6, <2>3 DEF Scored, Reply
  <2>5. m \in history'[u] BY <2>2 DEF ScoreIInv, EvaluationTypes
  <2>6. OnRecord(m, e)' BY <1>3, <2>4, <2>5 DEF OnRecord
  <2>7. e \in Reply /\ SoundReply(m, e)' BY <1>3, <1>5, <2>3, <2>6, Scoring
  <2>8. names \in Seq(Agents) BY <1>4
  <2> QED BY <1>1, <1>2, <2>1, <2>2, <2>3, <2>4, <2>7, <2>8, EndTurnStep
<1>8. CASE ChatUnsaved(u) \/ ChatFails(u)
  <2>1. PICK how \in {"done", "failed"}, names \in Seq(Agents) :
          EndTurn(u, m, [reply[m] EXCEPT !.state = how], names)
    BY <1>1, <1>4, <1>8 DEF ChatUnsaved, ChatFails
  <2>2. PICK e : e = [reply[m] EXCEPT !.state = how] OBVIOUS
  <2>3. e.agent = reply[m].agent /\ e.user = reply[m].user /\ e.kind = reply[m].kind
    BY <1>6, <2>2 DEF Reply
  <2>4. e \in Reply /\ SoundReply(m, e)' BY <1>3, <1>5, <2>2, Ending
  <2>5. UNCHANGED history BY <1>8 DEF ChatUnsaved, ChatFails
  <2> QED BY <1>1, <1>2, <2>1, <2>2, <2>3, <2>4, <2>5, EndTurnStep
<1> QED BY <1>7, <1>8

LEMMA ScoreRouteStep ==
  ASSUME ScoreIInv, NEW u \in Users, Route(u) PROVE ScoreIInv'
<1>1. PICK a \in Names, names \in Shadows :
        /\ reply' = Append(reply, Call("chat", u, a))
                      \o (IF turn[u].stream THEN ShadowCalls(u, names) ELSE << >>)
        /\ turn' = [turn EXCEPT ![u] =
                      IF Live(a) THEN [@ EXCEPT !.pc = "call", !.id = Len(reply) + 1]
                      ELSE IdleTurn]
  BY DEF Route
<1>2. PICK c : c = Call("chat", u, a) OBVIOUS
<1>3. c \in Reply /\ Fresh(c) /\ c.kind = "chat" /\ c.user = u /\ (Live(a) => c.state = "calling")
  <2>1. ~("chat" = "smoke" \/ u \in Runs) BY EvaluationAssumption
  <2>2. c \in Reply /\ Fresh(c) BY <1>2, <2>1, CallFresh DEF ScoreIInv
  <2> QED BY <1>2, <2>2 DEF Call
<1>4. PICK t : t = IF turn[u].stream THEN ShadowCalls(u, names) ELSE << >> OBVIOUS
<1>5. t \in Seq(Reply) /\ \A i \in 1 .. Len(t) : Fresh(t[i])
  <2>1. names \in Seq(Agents) BY ShadowsTyped DEF ScoreIInv
  <2>2. CASE turn[u].stream BY <1>4, <2>1, <2>2, ShadowsFresh DEF ScoreIInv
  <2>3. CASE ~turn[u].stream
    <3>1. t = << >> BY <1>4, <2>3
    <3> QED BY <3>1
  <2> QED BY <2>2, <2>3
<1>6. reply \in Seq(Reply) /\ DOMAIN reply = 1 .. Len(reply) /\ Len(reply) \in Nat
  BY DEF ScoreIInv, EvaluationTypes
<1>7. reply' = Append(reply, c) \o t BY <1>1, <1>2, <1>4
<1>8. PICK s : s = Append(reply, c) OBVIOUS
<1>9. /\ s \in Seq(Reply) /\ Len(s) = Len(reply) + 1 /\ s[Len(reply) + 1] = c
      /\ \A i \in 1 .. Len(reply) : s[i] = reply[i]
  BY <1>3, <1>6, <1>8
<1>10. /\ reply' \in Seq(Reply) /\ DOMAIN reply' = 1 .. (Len(s) + Len(t))
       /\ \A i \in 1 .. Len(s) : reply'[i] = s[i]
       /\ \A i \in 1 .. Len(t) : reply'[Len(s) + i] = t[i]
  <2>1. reply' = s \o t /\ s \in Seq(Reply) /\ t \in Seq(Reply) BY <1>5, <1>7, <1>8, <1>9
  <2> QED BY <2>1, Added
<1>11. /\ DOMAIN reply \subseteq DOMAIN reply' /\ Len(reply) + 1 \in DOMAIN reply'
       /\ reply'[Len(reply) + 1] = c
       /\ \A i \in DOMAIN reply : reply'[i] = reply[i]
       /\ \A i \in DOMAIN reply' \ DOMAIN reply : Fresh(reply'[i])
  <2>1. \A i \in DOMAIN reply' \ DOMAIN reply :
          i = Len(reply) + 1 \/ (i - Len(s) \in 1 .. Len(t) /\ i = Len(s) + (i - Len(s)))
    <3>1. Len(t) \in Nat BY <1>5
    <3>2. ASSUME NEW i \in DOMAIN reply' \ DOMAIN reply, i # Len(reply) + 1
          PROVE  i - Len(s) \in 1 .. Len(t) /\ i = Len(s) + (i - Len(s))
      <4>1. i \in 1 .. (Len(reply) + 1 + Len(t)) /\ i \notin 1 .. Len(reply)
        BY <1>6, <1>9, <1>10, <3>2
      <4>2. Len(s) = Len(reply) + 1 /\ Len(reply) \in Nat BY <1>6, <1>9
      <4> QED BY <3>1, <3>2, <4>1, <4>2
    <3> QED BY <3>2
  <2>2. 1 .. Len(s) \subseteq DOMAIN reply' /\ Len(reply) + 1 \in 1 .. Len(s)
        /\ DOMAIN reply \subseteq 1 .. Len(s)
    <3>1. Len(t) \in Nat /\ Len(reply) \in Nat /\ Len(s) = Len(reply) + 1 BY <1>5, <1>6, <1>9
    <3> QED BY <1>6, <1>10, <3>1
  <2>3. reply'[Len(reply) + 1] = c BY <1>9, <1>10, <2>2
  <2>4. \A i \in DOMAIN reply : reply'[i] = reply[i] BY <1>6, <1>9, <1>10, <2>2
  <2>5. \A i \in DOMAIN reply' \ DOMAIN reply : Fresh(reply'[i])
    <3> SUFFICES ASSUME NEW i \in DOMAIN reply' \ DOMAIN reply PROVE Fresh(reply'[i]) OBVIOUS
    <3>1. CASE i = Len(reply) + 1 BY <1>3, <2>3, <3>1
    <3>2. CASE i # Len(reply) + 1
      <4>1. PICK j \in 1 .. Len(t) : i = Len(s) + j BY <2>1, <3>2
      <4> QED BY <1>5, <1>10, <4>1
    <3> QED BY <3>1, <3>2
  <2> QED BY <2>2, <2>3, <2>4, <2>5
<1>12. UNCHANGED <<exp, agents, history, scores, since, run, messages, task, pending>>
  BY DEF Route
<1>13. /\ turn' \in [Users -> Chat]
       /\ \A v \in Users : v # u => turn'[v] = turn[v]
       /\ turn'[u].pc = "call" => Live(a) /\ turn'[u].id = Len(reply) + 1
  <2>1. turn[u] \in Chat /\ turn \in [Users -> Chat] BY DEF ScoreIInv, EvaluationTypes
  <2>2. PICK e : e = IF Live(a) THEN [turn[u] EXCEPT !.pc = "call", !.id = Len(reply) + 1]
                     ELSE IdleTurn
    OBVIOUS
  <2>3. e \in Chat /\ (e.pc = "call" => Live(a) /\ e.id = Len(reply) + 1)
    <3>1. CASE Live(a)
      <4>1. e = [turn[u] EXCEPT !.pc = "call", !.id = Len(reply) + 1] BY <2>2, <3>1
      <4>2. Len(reply) + 1 \in Nat BY <1>6
      <4>3. e \in Chat /\ e.id = Len(reply) + 1 BY <2>1, <4>1, <4>2 DEF Chat
      <4> QED BY <3>1, <4>3
    <3>2. CASE ~Live(a) BY <2>2, <3>2 DEF Chat, IdleTurn
    <3> QED BY <3>1, <3>2
  <2>4. turn' = [turn EXCEPT ![u] = e] BY <1>1, <2>2
  <2> QED BY <2>1, <2>3, <2>4
<1>14. EvaluationTypes' BY <1>10, <1>12, <1>13 DEF ScoreIInv, EvaluationTypes, ListsOf
<1>15. 0 \notin DOMAIN reply BY <1>6
<1>16. \A v \in Users : turn[v].pc = "call" => turn[v].id # 0
  BY <1>15 DEF ScoreIInv, TurnsCall, TurnCall, Calls
<1>17. \A v \in Runs : task[v].pc = "call" => task[v].id # 0
  BY <1>15 DEF ScoreIInv, RunsCall, RunCall, Calls
<1>18. TurnCall(u)' BY <1>3, <1>11, <1>13 DEF TurnCall, Calls
<1>19. TurnsCall' /\ RunsCall' BY <1>11, <1>12, <1>13, <1>16, <1>17, <1>18, CallsKept
<1> QED BY <1>11, <1>12, <1>14, <1>15, <1>19, ReplyStep

-----------------------------------------------------------------------------
LEMMA TaskChanges ==
  ASSUME EvaluationTypes, NEW r \in Runs, NEW e \in Loop, task' = [task EXCEPT ![r] = e]
  PROVE  task' \in [Runs -> Loop] /\ task'[r] = e /\ \A q \in Runs : q # r => task'[q] = task[q]
BY DEF EvaluationTypes

\* A run goes on and touches no reply.
LEMMA QuietSmoke ==
  ASSUME ScoreIInv, NEW r \in Runs, NEW e \in Loop, Smoke(r, e), e.pc # "call", UNCHANGED reply,
         run' \in [Runs -> Row], messages' \in [Runs -> SUBSET Message],
         \A q \in Runs : messages[q] \subseteq messages'[q]
  PROVE  ScoreIInv'
<1>1. task' \in [Runs -> Loop] /\ task'[r] = e /\ \A q \in Runs : q # r => task'[q] = task[q]
  BY TaskChanges DEF Smoke, ScoreIInv
<1>2. EvaluationTypes' BY <1>1 DEF Smoke, ScoreIInv, EvaluationTypes, ListsOf
<1>3. 0 \notin DOMAIN reply BY DEF ScoreIInv, EvaluationTypes
<1>4. TurnsCall' BY DEF Smoke, ScoreIInv, TurnsCall, TurnCall, Calls
<1>5. RunsCall' BY <1>1 DEF ScoreIInv, RunsCall, RunCall, Calls
<1> QED BY <1>2, <1>3, <1>4, <1>5, ReplyStep DEF Smoke

LEMMA SayTyped ==
  ASSUME EvaluationTypes, NEW r \in Runs, NEW role \in {"assistant", "persona"}, NEW id \in Nat,
         NEW stop \in BOOLEAN
  PROVE  Say(r, role, id, stop) \in Message
BY DEF EvaluationTypes, Loop, Say, Message

\* The run's messages grow by one.
LEMMA MessagesGrow ==
  ASSUME EvaluationTypes, NEW r \in Runs, NEW x \in Message,
         messages' = [messages EXCEPT ![r] = @ \cup {x}]
  PROVE  /\ messages' \in [Runs -> SUBSET Message] /\ x \in messages'[r]
         /\ \A q \in Runs : messages[q] \subseteq messages'[q]
BY DEF EvaluationTypes

LEMMA ScoreQuietSmoke ==
  ASSUME ScoreIInv, NEW r \in Runs,
         PersonaTurn(r) \/ SmokeAskScores(r) \/ FinishRun(r) \/ FailRun(r)
  PROVE  ScoreIInv'
<1>1. task[r] \in Loop /\ EvaluationTypes BY DEF ScoreIInv, EvaluationTypes
<1>2. run \in [Runs -> Row] /\ messages \in [Runs -> SUBSET Message] BY <1>1 DEF EvaluationTypes
<1>3. CASE PersonaTurn(r)
  <2>1. PICK stop \in BOOLEAN :
          /\ messages' = [messages EXCEPT ![r] = @ \cup {Say(r, "persona", 0, stop)}]
          /\ Smoke(r, [task[r] EXCEPT !.conv = Append(@, Say(r, "persona", 0, stop)),
                                      !.pc = IF stop THEN "finish" ELSE "read"])
    BY <1>3 DEF PersonaTurn
  <2>2. PICK x : x = Say(r, "persona", 0, stop) OBVIOUS
  <2>3. x \in Message BY <1>1, <2>2, SayTyped
  <2>4. /\ messages' \in [Runs -> SUBSET Message]
        /\ \A q \in Runs : messages[q] \subseteq messages'[q]
    BY <1>1, <2>1, <2>2, <2>3, MessagesGrow
  <2>5. PICK p \in {"finish", "read"} : p = IF stop THEN "finish" ELSE "read" OBVIOUS
  <2>6. PICK e : e = [task[r] EXCEPT !.conv = Append(@, x), !.pc = p] OBVIOUS
  <2>7. e \in Loop /\ e.pc # "call"
    <3>1. task[r].conv \in Seq(Message) BY <1>1 DEF Loop
    <3>2. PICK c : c = Append(task[r].conv, x) OBVIOUS
    <3>3. c \in Seq(Message) BY <2>3, <3>1, <3>2
    <3>4. e = [task[r] EXCEPT !.conv = c, !.pc = p] BY <2>6, <3>2
    <3> QED BY <1>1, <3>3, <3>4 DEF Loop, Active
  <2>8. Smoke(r, e) BY <2>1, <2>2, <2>5, <2>6
  <2> QED BY <1>2, <1>3, <2>4, <2>7, <2>8, QuietSmoke DEF PersonaTurn
<1>4. CASE SmokeAskScores(r)
  <2>1. PICK lo \in Nat, hi \in Nat :
          Smoke(r, [task[r] EXCEPT !.lo = lo, !.hi = hi, !.pc = "route"])
    <3>1. \A w \in Window \cup {<<0, 0>>} : w[1] \in Nat /\ w[2] \in Nat
      BY <1>1 DEF Window, EvaluationTypes
    <3>2. PICK w \in Window \cup {<<0, 0>>} :
            Smoke(r, [task[r] EXCEPT !.lo = w[1], !.hi = w[2], !.pc = "route"])
      BY <1>4 DEF SmokeAskScores
    <3> QED BY <3>1, <3>2
  <2>2. PICK e : e = [task[r] EXCEPT !.lo = lo, !.hi = hi, !.pc = "route"] OBVIOUS
  <2>3. e \in Loop /\ e.pc # "call" BY <1>1, <2>2 DEF Loop, Active
  <2> QED BY <1>2, <1>4, <2>1, <2>2, <2>3, QuietSmoke DEF SmokeAskScores
<1>5. CASE FinishRun(r) \/ FailRun(r)
  <2>1. Smoke(r, [task[r] EXCEPT !.pc = "gone"]) /\ UNCHANGED <<reply, messages>>
    BY <1>5 DEF FinishRun, FailRun
  <2>2. PICK e : e = [task[r] EXCEPT !.pc = "gone"] OBVIOUS
  <2>3. e \in Loop /\ e.pc # "call" BY <1>1, <2>2 DEF Loop, Active
  <2>4. run' \in [Runs -> Row]
    BY <1>2, <1>5 DEF FinishRun, FailRun, Row
  <2> QED BY <1>2, <2>1, <2>2, <2>3, <2>4, QuietSmoke
<1> QED BY <1>3, <1>4, <1>5

LEMMA ScoreSmokeRoute ==
  ASSUME ScoreIInv, NEW r \in Runs, SmokeRoute(r) PROVE ScoreIInv'
<1>1. PICK a \in Names :
        /\ run' = [run EXCEPT ![r].resolved = IF task[r].recorded THEN @ ELSE a]
        /\ reply' = Append(reply, Call("smoke", r, a))
        /\ Smoke(r, [task[r] EXCEPT !.recorded = TRUE, !.agent = a, !.id = Len(reply) + 1,
                                    !.pc = IF Live(a) THEN "call" ELSE "failing"])
  BY DEF SmokeRoute
<1>2. PICK c : c = Call("smoke", r, a) OBVIOUS
<1>3. c \in Reply /\ Fresh(c) /\ c.kind = "smoke" /\ c.user = r /\ (Live(a) => c.state = "calling")
  <2>1. c \in Reply /\ Fresh(c) BY <1>2, CallFresh DEF ScoreIInv
  <2> QED BY <1>2, <2>1 DEF Call
<1>4. reply \in Seq(Reply) /\ DOMAIN reply = 1 .. Len(reply) /\ Len(reply) \in Nat
  BY DEF ScoreIInv, EvaluationTypes
<1>5. /\ reply' \in Seq(Reply) /\ DOMAIN reply' = 1 .. (Len(reply) + 1)
      /\ reply'[Len(reply) + 1] = c /\ \A i \in 1 .. Len(reply) : reply'[i] = reply[i]
  <2>1. reply' = Append(reply, c) BY <1>1, <1>2
  <2> QED BY <1>3, <1>4, <2>1
<1>6. /\ DOMAIN reply \subseteq DOMAIN reply' /\ Len(reply) + 1 \in DOMAIN reply'
      /\ \A i \in DOMAIN reply : reply'[i] = reply[i]
      /\ \A i \in DOMAIN reply' \ DOMAIN reply : Fresh(reply'[i])
  <2>1. \A i \in DOMAIN reply' \ DOMAIN reply : i = Len(reply) + 1 BY <1>4, <1>5
  <2> QED BY <1>3, <1>4, <1>5, <2>1
<1>7. PICK p \in {"call", "failing"} : p = IF Live(a) THEN "call" ELSE "failing" OBVIOUS
<1>8. PICK e : e = [task[r] EXCEPT !.recorded = TRUE, !.agent = a, !.id = Len(reply) + 1, !.pc = p]
  OBVIOUS
<1>9. e \in Loop /\ e.pc = p /\ e.id = Len(reply) + 1
  <2>1. task[r] \in Loop /\ Len(reply) + 1 \in Nat BY <1>4 DEF ScoreIInv, EvaluationTypes
  <2> QED BY <1>8, <2>1 DEF Loop, Active
<1>10. Smoke(r, e) BY <1>1, <1>7, <1>8
<1>11. task' \in [Runs -> Loop] /\ task'[r] = e /\ \A q \in Runs : q # r => task'[q] = task[q]
  BY <1>9, <1>10, TaskChanges DEF Smoke, ScoreIInv
<1>12. run' \in [Runs -> Row]
  <2>1. run \in [Runs -> Row] BY DEF ScoreIInv, EvaluationTypes
  <2>2. PICK v \in Names \cup {Unset} : v = IF task[r].recorded THEN run[r].resolved ELSE a
    BY <2>1 DEF Row
  <2>3. run' = [run EXCEPT ![r].resolved = v] BY <1>1, <2>2
  <2>4. [run[r] EXCEPT !.resolved = v] \in Row BY <2>1 DEF Row
  <2> QED BY <2>1, <2>3, <2>4
<1>13. UNCHANGED <<exp, agents, turn, history, scores, since, pending, messages>>
  BY <1>10 DEF SmokeRoute, Smoke
<1>14. EvaluationTypes' BY <1>5, <1>11, <1>12, <1>13 DEF ScoreIInv, EvaluationTypes, ListsOf
<1>15. 0 \notin DOMAIN reply BY <1>4
<1>16. \A v \in Users : turn[v].pc = "call" => turn[v].id # 0
  BY <1>15 DEF ScoreIInv, TurnsCall, TurnCall, Calls
<1>17. \A v \in Runs : task[v].pc = "call" => task[v].id # 0
  BY <1>15 DEF ScoreIInv, RunsCall, RunCall, Calls
<1>18. RunCall(r)' BY <1>3, <1>5, <1>6, <1>7, <1>9, <1>11 DEF RunCall, Calls
<1>19. TurnsCall' /\ RunsCall' BY <1>6, <1>11, <1>13, <1>16, <1>17, <1>18, CallsKept
<1> QED BY <1>6, <1>13, <1>14, <1>15, <1>19, ReplyStep

\* The call of a run ends, in a reply on record or in a failure.
LEMMA SmokeCallEnds ==
  ASSUME ScoreIInv, NEW r \in Runs, NEW m, m = task[r].id, task[r].pc = "call",
         NEW d \in Reply, d.agent = reply[m].agent, d.user = reply[m].user,
         d.kind = reply[m].kind, SoundReply(m, d)', reply' = [reply EXCEPT ![m] = d],
         NEW e \in Loop, Smoke(r, e), e.pc # "call",
         run' \in [Runs -> Row], messages' \in [Runs -> SUBSET Message],
         \A q \in Runs : messages[q] \subseteq messages'[q]
  PROVE  ScoreIInv'
<1>1. m \in DOMAIN reply /\ reply[m].kind = "smoke" /\ reply[m].user = r /\ reply[m].state = "calling"
  BY DEF ScoreIInv, RunsCall, RunCall, Calls
<1>2. reply \in Seq(Reply) BY DEF ScoreIInv, EvaluationTypes
<1>3. /\ reply' \in Seq(Reply) /\ DOMAIN reply' = DOMAIN reply /\ reply'[m] = d
      /\ \A i \in DOMAIN reply : i # m => reply'[i] = reply[i]
  BY <1>1, <1>2
<1>4. task' \in [Runs -> Loop] /\ task'[r] = e /\ \A q \in Runs : q # r => task'[q] = task[q]
  BY TaskChanges DEF Smoke, ScoreIInv
<1>5. UNCHANGED <<exp, agents, turn, history, scores, since, pending>> BY DEF Smoke
<1>6. EvaluationTypes' BY <1>3, <1>4, <1>5 DEF ScoreIInv, EvaluationTypes, ListsOf
<1>7. \A v \in Users : turn[v].pc = "call" => turn[v].id # m
  BY <1>1 DEF ScoreIInv, TurnsCall, TurnCall, Calls
<1>8. \A v \in Runs : task[v].pc = "call" /\ task[v].id = m => v = r
  BY <1>1 DEF ScoreIInv, RunsCall, RunCall, Calls
<1>9. RunCall(r)' BY <1>4 DEF RunCall
<1>10. TurnsCall' /\ RunsCall' BY <1>3, <1>4, <1>5, <1>7, <1>8, <1>9, CallsKept
<1>11. (reply[m].state = "done" => d.state = "done") BY <1>1
<1> QED BY <1>3, <1>5, <1>6, <1>10, <1>11, ReplyStep

LEMMA ScoreSmokeReplies ==
  ASSUME ScoreIInv, NEW r \in Runs, SmokeReplies(r) PROVE ScoreIInv'
<1>1. PICK m : m = task[r].id OBVIOUS
<1>2. PICK stop \in BOOLEAN, p \in {"finish", "persona"} :
        /\ messages' = [messages EXCEPT ![r] = @ \cup {Say(r, "assistant", m, stop)}]
        /\ run' = [run EXCEPT ![r].turns = task[r].turn + 1]
        /\ reply' = [reply EXCEPT ![m] = Scored(m)]
        /\ Smoke(r, [task[r] EXCEPT !.conv = Append(@, Say(r, "assistant", m, stop)),
                                    !.turn = @ + 1, !.pc = p])
  BY <1>1 DEF SmokeReplies
<1>3. task[r].pc = "call" BY DEF SmokeReplies
<1>4. m \in DOMAIN reply /\ reply[m].kind = "smoke" /\ reply[m].user = r /\ reply[m].state = "calling"
  BY <1>1, <1>3 DEF ScoreIInv, RunsCall, RunCall, Calls
<1>5. reply[m] \in Reply /\ m \in Nat /\ task[r] \in Loop /\ run \in [Runs -> Row] /\ EvaluationTypes
  BY <1>4 DEF ScoreIInv, EvaluationTypes
<1>6. PICK x : x = Say(r, "assistant", m, stop) OBVIOUS
<1>7. x \in Message /\ x.id = m BY <1>5, <1>6, SayTyped DEF Say
<1>8. /\ messages' \in [Runs -> SUBSET Message] /\ x \in messages'[r]
      /\ \A q \in Runs : messages[q] \subseteq messages'[q]
  BY <1>2, <1>5, <1>6, <1>7, MessagesGrow
<1>9. PICK d : d = Scored(m) OBVIOUS
<1>10. d.agent = reply[m].agent /\ d.user = reply[m].user /\ d.kind = reply[m].kind
  BY <1>5, <1>9 DEF Scored, Reply
<1>11. OnRecord(m, d)' BY <1>4, <1>7, <1>8, <1>10 DEF OnRecord
<1>12. UNCHANGED scores BY <1>2 DEF Smoke
<1>13. d \in Reply /\ SoundReply(m, d)' BY <1>4, <1>9, <1>11, <1>12, Scoring
<1>14. PICK e : e = [task[r] EXCEPT !.conv = Append(@, x), !.turn = @ + 1, !.pc = p] OBVIOUS
<1>15. e \in Loop /\ e.pc # "call"
  <2>1. task[r].conv \in Seq(Message) /\ task[r].turn + 1 \in Nat BY <1>5 DEF Loop
  <2>2. PICK c : c = Append(task[r].conv, x) OBVIOUS
  <2>3. c \in Seq(Message) BY <1>7, <2>1, <2>2
  <2>4. e = [task[r] EXCEPT !.conv = c, !.turn = @ + 1, !.pc = p] BY <1>14, <2>2
  <2> QED BY <1>5, <2>1, <2>3, <2>4 DEF Loop, Active
<1>16. Smoke(r, e) BY <1>2, <1>6, <1>14
<1>17. run' \in [Runs -> Row]
  <2>1. task[r].turn + 1 \in Nat BY <1>5 DEF Loop
  <2>2. [run[r] EXCEPT !.turns = task[r].turn + 1] \in Row BY <1>5, <2>1 DEF Row
  <2> QED BY <1>2, <1>5, <2>2
<1>18. reply' = [reply EXCEPT ![m] = d] BY <1>2, <1>9
<1> QED BY <1>1, <1>3, <1>8, <1>10, <1>13, <1>15, <1>16, <1>17, <1>18, SmokeCallEnds

LEMMA ScoreSmokeFails ==
  ASSUME ScoreIInv, NEW r \in Runs, SmokeFails(r) PROVE ScoreIInv'
<1>1. task[r] \in Loop /\ run \in [Runs -> Row] /\ messages \in [Runs -> SUBSET Message]
  BY DEF ScoreIInv, EvaluationTypes
<1>2. PICK e : e = [task[r] EXCEPT !.pc = "failing"] OBVIOUS
<1>3. e \in Loop /\ e.pc # "call" BY <1>1, <1>2 DEF Loop, Active
<1>4. Smoke(r, e) /\ UNCHANGED <<run, messages>> BY <1>2 DEF SmokeFails
<1>5. CASE task[r].pc = "call"
  <2>1. PICK m : m = task[r].id OBVIOUS
  <2>2. m \in DOMAIN reply /\ reply[m].state = "calling"
    BY <1>5, <2>1 DEF ScoreIInv, RunsCall, RunCall, Calls
  <2>3. reply[m] \in Reply BY <2>2 DEF ScoreIInv, EvaluationTypes
  <2>4. PICK d : d = [reply[m] EXCEPT !.state = "failed"] OBVIOUS
  <2>5. d.agent = reply[m].agent /\ d.user = reply[m].user /\ d.kind = reply[m].kind
    BY <2>3, <2>4 DEF Reply
  <2>6. UNCHANGED scores BY <1>4 DEF Smoke
  <2>7. d \in Reply /\ SoundReply(m, d)' BY <2>2, <2>4, <2>6, Ending
  <2>8. reply' = [reply EXCEPT ![m] = d] BY <1>5, <2>1, <2>4 DEF SmokeFails
  <2> QED BY <1>1, <1>3, <1>4, <1>5, <2>1, <2>5, <2>7, <2>8, SmokeCallEnds
<1>6. CASE task[r].pc # "call"
  <2>1. UNCHANGED reply BY <1>6 DEF SmokeFails
  <2> QED BY <1>1, <1>3, <1>4, <2>1, QuietSmoke
<1> QED BY <1>5, <1>6

-----------------------------------------------------------------------------
LEMMA ClampOnScale == ASSUME NEW raw \in RawScores PROVE Clamp(raw) \in 0 .. MaxScore
<1>1. MaxScore \in Nat /\ raw \in Int \cup {NaN} BY EvaluationAssumption
<1>2. CASE raw = NaN BY <1>1, <1>2 DEF Clamp
<1>3. CASE raw # NaN
  <2>1. raw \in Int BY <1>1, <1>3
  <2>2. Clamp(raw) = IF raw < 0 THEN 0 ELSE IF raw > MaxScore THEN MaxScore ELSE raw
    BY <1>1, <1>3, <2>1 DEF Clamp
  <2> QED BY <1>1, <2>1, <2>2
<1> QED BY <1>2, <1>3

\* A reply that ends in the background: nobody waits for it.
LEMMA BackgroundKept ==
  ASSUME ScoreIInv, NEW m \in DOMAIN reply, reply[m].kind = "shadow" \/ reply[m].state = "done",
         NEW e \in Reply, Background(m, e)
  PROVE  /\ DOMAIN reply' = DOMAIN reply /\ reply'[m] = e
         /\ \A i \in DOMAIN reply : i # m => reply'[i] = reply[i]
         /\ reply' \in Seq(Reply) /\ TurnsCall' /\ RunsCall'
<1>1. reply \in Seq(Reply) BY DEF ScoreIInv, EvaluationTypes
<1>2. UNCHANGED <<turn, task>> /\ reply' = [reply EXCEPT ![m] = e] BY DEF Background
<1>3. /\ DOMAIN reply' = DOMAIN reply /\ reply'[m] = e /\ reply' \in Seq(Reply)
      /\ \A i \in DOMAIN reply : i # m => reply'[i] = reply[i]
  BY <1>1, <1>2
<1>4. \A v \in Users : turn[v].pc = "call" => turn[v].id # m
  BY DEF ScoreIInv, TurnsCall, TurnCall, Calls
<1>5. \A v \in Runs : task[v].pc = "call" => task[v].id # m
  BY DEF ScoreIInv, RunsCall, RunCall, Calls
<1>6. TurnsCall' /\ RunsCall' BY <1>2, <1>3, <1>4, <1>5, CallsKept
<1> QED BY <1>3, <1>6

LEMMA BackgroundReply ==
  ASSUME ScoreIInv, NEW m \in DOMAIN reply, reply[m].kind = "shadow" \/ reply[m].state = "done",
         NEW e \in Reply, Background(m, e), UNCHANGED scores, e.agent = reply[m].agent,
         e.user = reply[m].user, e.kind = reply[m].kind,
         (reply[m].state = "done" => e.state = "done"), SoundReply(m, e)'
  PROVE  ScoreIInv'
<1>1. /\ DOMAIN reply' = DOMAIN reply /\ reply'[m] = e
      /\ \A i \in DOMAIN reply : i # m => reply'[i] = reply[i]
      /\ reply' \in Seq(Reply) /\ TurnsCall' /\ RunsCall'
  BY BackgroundKept
<1>2. UNCHANGED <<exp, agents, turn, history, since, run, messages, task, pending>>
  BY DEF Background
<1>3. EvaluationTypes' BY <1>1, <1>2 DEF ScoreIInv, EvaluationTypes, ListsOf
<1> QED BY <1>1, <1>2, <1>3, ReplyStep

LEMMA ScoreShadowEnds ==
  ASSUME ScoreIInv, NEW m \in DOMAIN reply, ShadowReplies(m) \/ ShadowFails(m) PROVE ScoreIInv'
<1>1. /\ reply[m].kind = "shadow" /\ reply[m].state = "calling" /\ reply[m] \in Reply
      /\ UNCHANGED scores
  BY DEF ShadowReplies, ShadowFails, IsShadow, ScoreIInv, EvaluationTypes
<1>2. CASE ShadowReplies(m)
  <2>1. PICK e : e = Scored(m) OBVIOUS
  <2>2. e.agent = reply[m].agent /\ e.user = reply[m].user /\ e.kind = "shadow"
    BY <1>1, <2>1 DEF Scored, Reply
  <2>3. OnRecord(m, e)' BY <2>2 DEF OnRecord
  <2>4. e \in Reply /\ SoundReply(m, e)' BY <1>1, <2>1, <2>3, Scoring
  <2>5. Background(m, e) BY <1>2, <2>1 DEF ShadowReplies
  <2>6. (reply[m].state = "done" => e.state = "done") BY <1>1
  <2> QED BY <1>1, <2>2, <2>4, <2>5, <2>6, BackgroundReply
<1>3. CASE ShadowFails(m)
  <2>1. PICK e : e = [reply[m] EXCEPT !.state = "failed"] OBVIOUS
  <2>2. e.agent = reply[m].agent /\ e.user = reply[m].user /\ e.kind = "shadow"
    BY <1>1, <2>1 DEF Reply
  <2>3. e \in Reply /\ SoundReply(m, e)' BY <1>1, <2>1, Ending
  <2>4. Background(m, e) BY <1>3, <2>1 DEF ShadowFails
  <2>5. (reply[m].state = "done" => e.state = "done") BY <1>1
  <2> QED BY <1>1, <2>2, <2>3, <2>4, <2>5, BackgroundReply
<1> QED BY <1>2, <1>3

\* The head of a queue is the next of the list it was cut from.
LEMMA QueueHead ==
  ASSUME NEW list \in Seq(Judges), NEW n \in 0 .. Len(list), NEW queue,
         queue = SubSeq(list, n + 1, Len(list)), queue # << >>
  PROVE  /\ n + 1 \in 0 .. Len(list) /\ Head(queue) = list[n + 1] /\ Head(queue) \in Judges
         /\ Tail(queue) = SubSeq(list, n + 1 + 1, Len(list)) /\ Tail(queue) \in Seq(Judges)
<1>1. Len(list) \in Nat /\ n \in Nat /\ n <= Len(list) OBVIOUS
<1>2. n # Len(list) BY <1>1
<1>3. n + 1 <= Len(list) /\ n + 1 \in Nat BY <1>1, <1>2
<1>4. queue \in Seq(Judges) /\ Len(queue) = Len(list) - n
      /\ \A i \in 1 .. Len(queue) : queue[i] = list[n + i]
  BY <1>1, <1>3
<1>5. Head(queue) = list[n + 1] /\ Head(queue) \in Judges BY <1>3, <1>4
<1>6. /\ Tail(queue) \in Seq(Judges) /\ Len(Tail(queue)) = Len(list) - n - 1
      /\ \A i \in 1 .. Len(Tail(queue)) : Tail(queue)[i] = list[n + 1 + i]
  BY <1>1, <1>3, <1>4
<1>7. PICK rest : rest = SubSeq(list, n + 1 + 1, Len(list)) OBVIOUS
<1>8. /\ rest \in Seq(Judges) /\ Len(rest) = Len(list) - n - 1
      /\ \A i \in 1 .. Len(rest) : rest[i] = list[n + 1 + i]
  BY <1>1, <1>3, <1>7
<1>9. Tail(queue) = rest
  <2>1. PICK t : t = Tail(queue) OBVIOUS
  <2>2. t \in Seq(Judges) /\ Len(t) = Len(rest) BY <1>6, <1>8, <2>1
  <2>3. \A i \in 1 .. Len(t) : t[i] = rest[i] BY <1>6, <1>8, <2>1, <2>2
  <2>4. t = [i \in 1 .. Len(t) |-> t[i]] /\ rest = [i \in 1 .. Len(t) |-> rest[i]]
    BY <1>8, <2>2
  <2> QED BY <2>1, <2>3, <2>4
<1> QED BY <1>3, <1>5, <1>6, <1>7, <1>9

LEMMA ConsumedGrows ==
  ASSUME NEW list, NEW n \in Nat, NEW j
  PROVE  /\ Cardinality(Consumed(list, n, j)) <= Cardinality(Consumed(list, n + 1, j))
         /\ (list[n + 1] = j =>
              Cardinality(Consumed(list, n + 1, j)) = Cardinality(Consumed(list, n, j)) + 1)
<1>1. IsFiniteSet(Consumed(list, n, j)) /\ Cardinality(Consumed(list, n, j)) \in Nat
  BY ConsumedCount
<1>2. CASE list[n + 1] = j
  <2>1. Consumed(list, n + 1, j) = Consumed(list, n, j) \cup {n + 1} BY <1>2 DEF Consumed
  <2>2. n + 1 \notin Consumed(list, n, j) BY DEF Consumed
  <2>3. Cardinality(Consumed(list, n + 1, j)) = Cardinality(Consumed(list, n, j)) + 1
    BY <1>1, <2>1, <2>2, FS_AddElement
  <2> QED BY <1>1, <2>3
<1>3. CASE list[n + 1] # j
  <2>1. Consumed(list, n + 1, j) = Consumed(list, n, j) BY <1>3 DEF Consumed
  <2> QED BY <1>1, <1>3, <2>1
<1> QED BY <1>2, <1>3

\* A reply with judges to come.
LEMMA Queued ==
  ASSUME ScoreIInv, NEW m \in DOMAIN reply, reply[m].queue # << >>
  PROVE  /\ reply[m] \in Reply /\ (reply[m].kind = "smoke" <=> reply[m].user \in Runs)
         /\ reply[m].state = "done" /\ reply[m].agent \in Agents
         /\ OnRecord(m, reply[m]) /\ Drains(m, reply[m])
BY DEF ScoreIInv, RepliesSound, SoundReply

LEMMA ScoreJudgePasses ==
  ASSUME ScoreIInv, NEW m \in DOMAIN reply, JudgeSkips(m) \/ JudgeFails(m) PROVE ScoreIInv'
<1>1. reply[m].queue # << >> /\ UNCHANGED scores /\ Background(m, NextJudge(m))
  BY DEF JudgeSkips, JudgeFails
<1>2. /\ reply[m] \in Reply /\ (reply[m].kind = "smoke" <=> reply[m].user \in Runs)
      /\ reply[m].state = "done" /\ reply[m].agent \in Agents
      /\ OnRecord(m, reply[m]) /\ Drains(m, reply[m])
  BY <1>1, Queued
<1>3. PICK e : e = NextJudge(m) OBVIOUS
<1>4. PICK list \in ListsOf(reply[m].agent), n \in Nat :
        /\ n \in 0 .. Len(list)
        /\ reply[m].queue = SubSeq(list, n + 1, Len(list))
        /\ \A j \in Judges : Cardinality(Judged(m, j)) <= Cardinality(Consumed(list, n, j))
  <2>1. \A l \in ListsOf(reply[m].agent) : Len(l) \in Nat
    BY <1>2, EvaluationAssumption DEF ListsOf
  <2>2. PICK l \in ListsOf(reply[m].agent) : \E k \in 0 .. Len(l) :
          /\ reply[m].queue = SubSeq(l, k + 1, Len(l))
          /\ \A j \in Judges : Cardinality(Judged(m, j)) <= Cardinality(Consumed(l, k, j))
    BY <1>2 DEF Drains
  <2>3. PICK k \in 0 .. Len(l) :
          /\ reply[m].queue = SubSeq(l, k + 1, Len(l))
          /\ \A j \in Judges : Cardinality(Judged(m, j)) <= Cardinality(Consumed(l, k, j))
    BY <2>2
  <2>4. k \in Nat BY <2>1
  <2> QED BY <2>3, <2>4
<1>5. list \in Seq(Judges) BY <1>2, EvaluationAssumption DEF ListsOf
<1>6. PICK q : q = Tail(reply[m].queue) OBVIOUS
<1>7. n + 1 \in 0 .. Len(list) /\ q = SubSeq(list, n + 1 + 1, Len(list)) /\ q \in Seq(Judges)
  BY <1>1, <1>4, <1>5, <1>6, QueueHead
<1>8. e = [reply[m] EXCEPT !.queue = q] BY <1>3, <1>6 DEF NextJudge
<1>9. /\ e \in Reply /\ e.queue = q /\ e.agent = reply[m].agent /\ e.user = reply[m].user
      /\ e.kind = reply[m].kind /\ e.state = "done"
  BY <1>2, <1>7, <1>8 DEF Reply
<1>10. \A j \in Judges : Cardinality(Judged(m, j)) <= Cardinality(Consumed(list, n + 1, j))
  <2> SUFFICES ASSUME NEW j \in Judges
               PROVE  Cardinality(Judged(m, j)) <= Cardinality(Consumed(list, n + 1, j))
    OBVIOUS
  <2>1. n \in Nat BY <1>5
  <2>2. Cardinality(Judged(m, j)) \in Nat
    <3>1. IsFiniteSet(DOMAIN scores) /\ Judged(m, j) \in SUBSET DOMAIN scores
      BY FS_Interval DEF ScoreIInv, EvaluationTypes, Judged
    <3> QED BY <3>1, FS_Subset, FS_CardinalityType
  <2>3. Cardinality(Consumed(list, n, j)) \in Nat /\ Cardinality(Consumed(list, n + 1, j)) \in Nat
    BY <2>1, ConsumedCount
  <2>4. Cardinality(Consumed(list, n, j)) <= Cardinality(Consumed(list, n + 1, j))
    BY <2>1, ConsumedGrows
  <2>5. Cardinality(Judged(m, j)) <= Cardinality(Consumed(list, n, j)) BY <1>4
  <2> QED BY <2>2, <2>3, <2>4, <2>5
<1>11. Drains(m, e)
  BY <1>4, <1>7, <1>9, <1>10 DEF Drains
<1>12. OnRecord(m, e) BY <1>2, <1>9 DEF OnRecord
<1>13. SoundReply(m, e) BY <1>2, <1>9, <1>11, <1>12 DEF SoundReply
<1>14. UNCHANGED <<history, messages>> BY <1>1 DEF Background
<1>15. SoundReply(m, e)' BY <1>1, <1>13, <1>14, SoundKept DEF ScoreIInv
<1>16. Background(m, e) BY <1>1, <1>3
<1> QED BY <1>1, <1>2, <1>9, <1>15, <1>16, BackgroundReply

\* A judge scores: the rows of that reply and judge grow by one, and so does
\* what is used up of its list.
LEMMA ScoreJudgeScores ==
  ASSUME ScoreIInv, NEW m \in DOMAIN reply, JudgeScores(m) PROVE ScoreIInv'
<1>1. reply[m].queue # << >> /\ Background(m, NextJudge(m)) BY DEF JudgeScores
<1>2. /\ reply[m] \in Reply /\ (reply[m].kind = "smoke" <=> reply[m].user \in Runs)
      /\ reply[m].state = "done" /\ reply[m].agent \in Agents
      /\ OnRecord(m, reply[m]) /\ Drains(m, reply[m])
  BY <1>1, Queued
<1>3. PICK h : h = Head(reply[m].queue) OBVIOUS
<1>4. h \in DOMAIN Rubrics
  <2>1. Rate(m) > 0 BY DEF JudgeScores
  <2> QED BY <1>3, <2>1 DEF Rate
<1>5. PICK S \in SUBSET Rubrics[h], raw \in UNION {[T -> RawScores] : T \in SUBSET Rubrics[h]} :
        raw \in [S -> RawScores] /\ scores' = Append(scores,
                    [id |-> m, agent |-> reply[m].agent, user |-> reply[m].user,
                     judge |-> h, marks |-> [c \in S |-> Clamp(raw[c])]])
  BY <1>3 DEF JudgeScores
<1>6. PICK marks : marks = [c \in S |-> Clamp(raw[c])] OBVIOUS
<1>7. DOMAIN marks = S /\ marks \in Marks /\ \A c \in S : marks[c] \in 0 .. MaxScore
  <2>1. \A c \in S : Clamp(raw[c]) \in 0 .. MaxScore BY <1>5, ClampOnScale
  <2>2. S \in SUBSET Criteria BY <1>4, EvaluationAssumption
  <2>3. marks \in [S -> 0 .. MaxScore] BY <1>6, <2>1
  <2> QED BY <1>6, <2>2, <2>3 DEF Marks
<1>8. PICK row : row = [id |-> m, agent |-> reply[m].agent, user |-> reply[m].user,
                        judge |-> h, marks |-> marks]
  OBVIOUS
<1>9. scores \in Seq(Score) /\ Len(scores) \in Nat /\ m \in Nat
  BY DEF ScoreIInv, EvaluationTypes
<1>10. row \in Score
  <2>1. h \in Judges BY <1>4, EvaluationAssumption
  <2> QED BY <1>2, <1>7, <1>8, <1>9, <2>1 DEF Score, Reply
<1>11. /\ scores' \in Seq(Score) /\ DOMAIN scores' = DOMAIN scores \cup {Len(scores) + 1}
       /\ Len(scores) + 1 \notin DOMAIN scores
       /\ scores'[Len(scores) + 1] = row /\ \A k \in DOMAIN scores : scores'[k] = scores[k]
  <2>1. scores' = Append(scores, row) BY <1>5, <1>6, <1>8
  <2> QED BY <1>9, <1>10, <2>1
<1>12. PICK list \in ListsOf(reply[m].agent), n \in Nat :
        /\ n \in 0 .. Len(list)
        /\ reply[m].queue = SubSeq(list, n + 1, Len(list))
        /\ \A j \in Judges : Cardinality(Judged(m, j)) <= Cardinality(Consumed(list, n, j))
  <2>1. \A l \in ListsOf(reply[m].agent) : Len(l) \in Nat
    BY <1>2, EvaluationAssumption DEF ListsOf
  <2>2. PICK l \in ListsOf(reply[m].agent) : \E k \in 0 .. Len(l) :
          /\ reply[m].queue = SubSeq(l, k + 1, Len(l))
          /\ \A j \in Judges : Cardinality(Judged(m, j)) <= Cardinality(Consumed(l, k, j))
    BY <1>2 DEF Drains
  <2>3. PICK k \in 0 .. Len(l) :
          /\ reply[m].queue = SubSeq(l, k + 1, Len(l))
          /\ \A j \in Judges : Cardinality(Judged(m, j)) <= Cardinality(Consumed(l, k, j))
    BY <2>2
  <2>4. k \in Nat BY <2>1
  <2> QED BY <2>3, <2>4
<1>13. list \in Seq(Judges) /\ n \in Nat BY <1>2, EvaluationAssumption DEF ListsOf
<1>14. PICK q : q = Tail(reply[m].queue) OBVIOUS
<1>15. /\ n + 1 \in 0 .. Len(list) /\ h = list[n + 1]
       /\ q = SubSeq(list, n + 1 + 1, Len(list)) /\ q \in Seq(Judges)
  BY <1>1, <1>3, <1>12, <1>13, <1>14, QueueHead
<1>16. PICK e : e = [reply[m] EXCEPT !.queue = q] OBVIOUS
<1>17. /\ e \in Reply /\ e.queue = q /\ e.agent = reply[m].agent /\ e.user = reply[m].user
       /\ e.kind = reply[m].kind /\ e.state = "done"
  BY <1>2, <1>15, <1>16 DEF Reply
<1>18. Background(m, e) BY <1>1, <1>14, <1>16 DEF NextJudge
<1>19. /\ DOMAIN reply' = DOMAIN reply /\ reply'[m] = e
       /\ \A i \in DOMAIN reply : i # m => reply'[i] = reply[i]
       /\ reply' \in Seq(Reply) /\ TurnsCall' /\ RunsCall'
  BY <1>2, <1>17, <1>18, BackgroundKept
<1>20. UNCHANGED <<exp, agents, turn, history, since, run, messages, task, pending>>
  BY <1>18 DEF Background
<1>21. \A i, j : i # m => Judged(i, j)' = Judged(i, j) BY <1>8, <1>11 DEF Judged
<1>22. \A i : i # m /\ Unscored(i) => Unscored(i)' BY <1>8, <1>11 DEF Unscored
<1>23. \A i : i # m /\ Unscored(i)' => Unscored(i) BY <1>11 DEF Unscored
<1>24. Drains(m, e)'
  <2>1. ASSUME NEW j \in Judges
        PROVE  Cardinality(Judged(m, j)') <= Cardinality(Consumed(list, n + 1, j))
    <3>1. IsFiniteSet(DOMAIN scores) /\ Judged(m, j) \in SUBSET DOMAIN scores
      BY <1>9, FS_Interval DEF Judged
    <3>2. IsFiniteSet(Judged(m, j)) /\ Cardinality(Judged(m, j)) \in Nat
      BY <3>1, FS_Subset, FS_CardinalityType
    <3>3. Cardinality(Consumed(list, n, j)) \in Nat /\ Cardinality(Consumed(list, n + 1, j)) \in Nat
      BY <1>13, ConsumedCount
    <3>4. Cardinality(Judged(m, j)) <= Cardinality(Consumed(list, n, j)) BY <1>12
    <3>5. CASE j = h
      <4>1. Judged(m, j)' = Judged(m, j) \cup {Len(scores) + 1}
        BY <1>8, <1>11, <3>5 DEF Judged
      <4>2. Len(scores) + 1 \notin Judged(m, j) BY <1>11 DEF Judged
      <4>3. Cardinality(Judged(m, j)') = Cardinality(Judged(m, j)) + 1
        BY <3>2, <4>1, <4>2, FS_AddElement
      <4>4. Cardinality(Consumed(list, n + 1, j)) = Cardinality(Consumed(list, n, j)) + 1
        BY <1>13, <1>15, <3>5, ConsumedGrows
      <4> QED BY <3>2, <3>3, <3>4, <4>3, <4>4
    <3>6. CASE j # h
      <4>1. Judged(m, j)' = Judged(m, j) BY <1>8, <1>11, <3>6 DEF Judged
      <4>2. Cardinality(Consumed(list, n, j)) <= Cardinality(Consumed(list, n + 1, j))
        BY <1>13, ConsumedGrows
      <4> QED BY <3>2, <3>3, <3>4, <4>1, <4>2
    <3> QED BY <3>5, <3>6
  <2>2. list \in ListsOf(e.agent)' BY <1>17 DEF ListsOf
  <2> QED BY <1>15, <1>17, <2>1, <2>2 DEF Drains, Consumed, Judged
<1>25. OnRecord(m, e)' BY <1>2, <1>17, <1>20 DEF OnRecord
<1>26. SoundReply(m, e)' BY <1>2, <1>17, <1>24, <1>25 DEF SoundReply
<1>27. ASSUME NEW i \in DOMAIN reply, i # m, NEW d, SoundReply(i, d) PROVE SoundReply(i, d)'
  <2>1. Unscored(i)' <=> Unscored(i) BY <1>22, <1>23, <1>27
  <2>2. Drains(i, d)' <=> Drains(i, d)
    <3>1. \A j : Cardinality(Judged(i, j)') = Cardinality(Judged(i, j)) BY <1>21, <1>27
    <3> QED BY <3>1 DEF Drains, ListsOf, Consumed
  <2>3. OnRecord(i, d)' <=> OnRecord(i, d) BY <1>20 DEF OnRecord
  <2> QED BY <1>27, <2>1, <2>2, <2>3 DEF SoundReply
<1>28. RepliesSound'
  <2>1. SUFFICES ASSUME NEW i \in DOMAIN reply, NEW d, d = reply'[i] PROVE SoundReply(i, d)'
    BY <1>19 DEF RepliesSound
  <2>2. CASE i = m BY <1>19, <1>26, <2>1, <2>2
  <2>3. CASE i # m
    <3>1. SoundReply(i, d) BY <1>19, <2>1, <2>3 DEF ScoreIInv, RepliesSound
    <3> QED BY <1>27, <2>3, <3>1
  <2> QED BY <2>2, <2>3
<1>29. \A i \in DOMAIN reply : /\ reply'[i].agent = reply[i].agent /\ reply'[i].user = reply[i].user
                               /\ reply'[i].kind = reply[i].kind
                               /\ (reply[i].state = "done" => reply'[i].state = "done")
  BY <1>17, <1>19
<1>30. RowsSound'
  <2>1. SUFFICES ASSUME NEW k \in DOMAIN scores', NEW s, s = scores'[k] PROVE SoundRow(s)'
    BY DEF RowsSound
  <2>2. CASE k = Len(scores) + 1
    BY <1>2, <1>4, <1>5, <1>7, <1>8, <1>11, <1>17, <1>19, <2>1, <2>2 DEF SoundRow
  <2>3. CASE k # Len(scores) + 1
    <3>1. SoundRow(s) BY <1>11, <2>1, <2>3 DEF ScoreIInv, RowsSound
    <3> QED BY <1>19, <1>29, <3>1 DEF SoundRow
  <2> QED BY <2>2, <2>3
<1>31. HistorySound'
  <2>1. \A u \in Users : \A i \in history[u] :
          i \in DOMAIN reply /\ reply[i].kind = "chat" /\ reply[i].user = u
    BY DEF ScoreIInv, HistorySound
  <2> QED BY <1>19, <1>20, <1>29, <2>1 DEF HistorySound
<1>32. EvaluationTypes' BY <1>11, <1>19, <1>20 DEF ScoreIInv, EvaluationTypes, ListsOf
<1> QED BY <1>19, <1>28, <1>30, <1>31, <1>32 DEF ScoreIInv

-----------------------------------------------------------------------------
\* Nothing a score rests on changes.
LEMMA ScoreElsewhere ==
  ASSUME ScoreIInv, EvaluationTypes', UNCHANGED <<reply, history, scores, messages, turn>>,
         \A r \in Runs : task'[r] = task[r] \/ task'[r].pc # "call"
  PROVE  ScoreIInv'
<1>1. 0 \notin DOMAIN reply BY DEF ScoreIInv, EvaluationTypes
<1>2. TurnsCall' BY DEF ScoreIInv, TurnsCall, TurnCall, Calls
<1>3. RunsCall' BY DEF ScoreIInv, RunsCall, RunCall, Calls
<1> QED BY <1>1, <1>2, <1>3, ReplyStep

LEMMA ScoreStudioSteps ==
  ASSUME ScoreIInv,
         \/ Age \/ StartFails
         \/ \E t \in Tests : RunNow(t)
         \/ \E r \in Runs : StartRun(r)
         \/ \E a \in Agents, list \in JudgeLists \cup {Gone} : EditAgent(a, list)
         \/ UNCHANGED evaluationVars
  PROVE  ScoreIInv'
<1>1. EvaluationTypes BY DEF ScoreIInv
<1>2. CASE Age
  <2>1. since' \in Nat BY <1>1, <1>2 DEF Age, EvaluationTypes
  <2>2. EvaluationTypes' BY <1>1, <1>2, <2>1 DEF Age, EvaluationTypes, ListsOf
  <2> QED BY <1>2, <2>2, ScoreElsewhere DEF Age
<1>3. CASE StartFails
  <2>1. pending' \in [test : TestConfigs, left : Nat] BY <1>1, <1>3 DEF StartFails, EvaluationTypes
  <2>2. EvaluationTypes' BY <1>1, <1>3, <2>1 DEF StartFails, EvaluationTypes, ListsOf
  <2> QED BY <1>3, <2>2, ScoreElsewhere DEF StartFails
<1>4. ASSUME NEW t \in Tests, RunNow(t) PROVE ScoreIInv'
  <2>1. pending' \in [test : TestConfigs, left : Nat]
    BY <1>4, EvaluationAssumption DEF RunNow, TestConfigs
  <2>2. EvaluationTypes' BY <1>1, <1>4, <2>1 DEF RunNow, EvaluationTypes, ListsOf
  <2> QED BY <1>4, <2>2, ScoreElsewhere DEF RunNow
<1>5. ASSUME NEW r \in Runs, StartRun(r) PROVE ScoreIInv'
  <2>1. pending \in [test : TestConfigs, left : Nat] /\ pending.left > 0 /\ run \in [Runs -> Row]
    BY <1>1, <1>5 DEF StartRun, EvaluationTypes
  <2>2. pending' \in [test : TestConfigs, left : Nat] BY <1>5, <2>1 DEF StartRun
  <2>3. run' \in [Runs -> Row]
    <3>1. [run[r] EXCEPT !.status = "running"] \in Row BY <2>1 DEF Row
    <3> QED BY <1>5, <2>1, <3>1 DEF StartRun
  <2>4. PICK p \in {"finish", "persona"} :
          p = IF pending.test.maxTurns = 0 THEN "finish" ELSE "persona"
    OBVIOUS
  <2>5. PICK e : e = [Unspawned EXCEPT !.test = pending.test, !.pc = p] OBVIOUS
  <2>6. e \in Loop /\ e.pc = p
    <3>1. << >> \in Seq(Message) OBVIOUS
    <3> QED BY <2>1, <2>5, <3>1 DEF Unspawned, Loop, Active, Names
  <2>7. task' = [task EXCEPT ![r] = e] BY <1>5, <2>4, <2>5 DEF StartRun
  <2>8. task' \in [Runs -> Loop] /\ task'[r] = e /\ \A q \in Runs : q # r => task'[q] = task[q]
    BY <1>1, <2>6, <2>7, TaskChanges
  <2>9. EvaluationTypes' BY <1>1, <1>5, <2>2, <2>3, <2>8 DEF StartRun, EvaluationTypes, ListsOf
  <2> QED BY <1>5, <2>6, <2>8, <2>9, ScoreElsewhere DEF StartRun
<1>6. ASSUME NEW a \in Agents, NEW list \in JudgeLists \cup {Gone}, EditAgent(a, list)
      PROVE  ScoreIInv'
  <2>1. /\ agents' \in [Agents -> Seq(Judges) \cup {Gone}]
        /\ \A b \in Agents : agents'[b] = Gone \/ agents'[b] \in ListsOf(b)
    BY <1>1, <1>6, EvaluationAssumption DEF EditAgent, EvaluationTypes, ListsOf
  <2>2. EvaluationTypes' BY <1>1, <1>6, <2>1 DEF EditAgent, EvaluationTypes, ListsOf
  <2> QED BY <1>6, <2>2, ScoreElsewhere DEF EditAgent
<1>7. CASE UNCHANGED evaluationVars
  <2>1. EvaluationTypes' BY <1>1, <1>7 DEF evaluationVars, EvaluationTypes, ListsOf
  <2> QED BY <1>7, <2>1, ScoreElsewhere DEF evaluationVars
<1> QED BY <1>2, <1>3, <1>4, <1>5, <1>6, <1>7

\* Every call and every judge under way is lost; rows and records stay.
LEMMA ScoreRestart == ASSUME ScoreIInv, Restart PROVE ScoreIInv'
<1>1. /\ reply \in Seq(Reply) /\ DOMAIN reply = 1 .. Len(reply) /\ task \in [Runs -> Loop]
      /\ pending \in [test : TestConfigs, left : Nat] /\ EvaluationTypes
  BY DEF ScoreIInv, EvaluationTypes
<1>2. /\ DOMAIN reply' = DOMAIN reply
      /\ \A m \in DOMAIN reply :
           reply'[m] = [reply[m] EXCEPT !.queue = << >>,
                                        !.state = IF @ = "calling" THEN "failed" ELSE @]
  BY <1>1 DEF Restart
<1>3. ASSUME NEW m \in DOMAIN reply, NEW d, d = reply'[m]
      PROVE  /\ d \in Reply /\ d.kind = reply[m].kind /\ d.user = reply[m].user
             /\ d.agent = reply[m].agent /\ d.queue = << >> /\ d.state # "calling"
             /\ (reply[m].state = "done" <=> d.state = "done")
             /\ (d.state # "failed" => reply[m].state # "failed")
  <2>1. PICK s : s = IF reply[m].state = "calling" THEN "failed" ELSE reply[m].state OBVIOUS
  <2>2. reply[m] \in Reply BY <1>1
  <2>3. s \in {"failed", "done"} /\ (reply[m].state = "done" <=> s = "done")
        /\ (s # "failed" => reply[m].state # "failed")
    BY <2>1, <2>2 DEF Reply
  <2>4. d = [reply[m] EXCEPT !.queue = << >>, !.state = s] BY <1>2, <1>3, <2>1
  <2>5. << >> \in Seq(Judges) OBVIOUS
  <2> QED BY <2>2, <2>3, <2>4, <2>5 DEF Reply
<1>4. /\ UNCHANGED <<exp, agents, history, scores, since, run, messages>>
      /\ turn' = [u \in Users |-> IdleTurn]
  BY DEF Restart
<1>5. task' \in [Runs -> Loop] /\ \A r \in Runs : task'[r].pc # "call"
  <2>1. \A r \in Runs : task[r] \in Loop /\ [task[r] EXCEPT !.pc = "gone"] \in Loop
    BY <1>1 DEF Loop
  <2>2. \A r \in Runs : task'[r] = IF task[r].pc = "none" THEN task[r]
                                   ELSE [task[r] EXCEPT !.pc = "gone"]
    BY DEF Restart
  <2>3. task' \in [Runs -> Loop] BY <2>1, <2>2 DEF Restart
  <2>4. ASSUME NEW r \in Runs PROVE task'[r].pc # "call"
    <3>1. CASE task[r].pc = "none" BY <2>2, <3>1
    <3>2. CASE task[r].pc # "none"
      <4>1. task'[r] = [task[r] EXCEPT !.pc = "gone"] BY <2>2, <3>2
      <4> QED BY <2>1, <4>1 DEF Loop
    <3> QED BY <3>1, <3>2
  <2> QED BY <2>3, <2>4
<1>6. EvaluationTypes'
  <2>1. reply' \in Seq(Reply)
    <3>1. reply' \in [1 .. Len(reply) -> Reply] BY <1>1, <1>2, <1>3 DEF Restart
    <3> QED BY <1>1, <3>1
  <2>2. turn' \in [Users -> Chat] BY <1>4 DEF IdleTurn, Chat
  <2>3. pending' \in [test : TestConfigs, left : Nat] BY <1>1 DEF Restart
  <2> QED BY <1>1, <1>4, <1>5, <2>1, <2>2, <2>3 DEF EvaluationTypes, ListsOf
<1>7. RepliesSound'
  <2>1. SUFFICES ASSUME NEW m \in DOMAIN reply, NEW d, d = reply'[m] PROVE SoundReply(m, d)'
    BY <1>2 DEF RepliesSound
  <2>2. /\ d \in Reply /\ d.kind = reply[m].kind /\ d.user = reply[m].user
        /\ d.agent = reply[m].agent /\ d.queue = << >> /\ d.state # "calling"
        /\ (reply[m].state = "done" <=> d.state = "done")
        /\ (d.state # "failed" => reply[m].state # "failed")
    BY <1>3, <2>1
  <2>3. SoundReply(m, reply[m]) BY DEF ScoreIInv, RepliesSound
  <2>4. d.state = "done" => Drains(m, d)
    <3>1. SUFFICES ASSUME d.state = "done" PROVE Drains(m, d) OBVIOUS
    <3>2. reply[m].agent \in Agents /\ Drains(m, reply[m]) BY <2>2, <2>3, <3>1 DEF SoundReply, Reply
    <3>3. PICK list \in ListsOf(reply[m].agent) : \E n \in 0 .. Len(list) :
            \A j \in Judges : Cardinality(Judged(m, j)) <= Cardinality(Consumed(list, n, j))
      BY <3>2 DEF Drains
    <3>4. list \in Seq(Judges) BY <3>2, EvaluationAssumption DEF ListsOf
    <3>5. PICK n \in 0 .. Len(list) :
            \A j \in Judges : Cardinality(Judged(m, j)) <= Cardinality(Consumed(list, n, j))
      BY <3>3
    <3>6. ASSUME NEW j \in Judges
          PROVE  Cardinality(Judged(m, j)) <= Cardinality(Consumed(list, Len(list), j))
      <4>1. /\ IsFiniteSet(DOMAIN scores) /\ Judged(m, j) \in SUBSET DOMAIN scores
            /\ n \in Nat /\ Len(list) \in Nat /\ n <= Len(list)
        BY <1>1, <3>4, FS_Interval DEF EvaluationTypes, Judged
      <4>2. Cardinality(Judged(m, j)) \in Nat BY <4>1, FS_Subset, FS_CardinalityType
      <4>3. /\ IsFiniteSet(Consumed(list, Len(list), j))
            /\ Cardinality(Consumed(list, Len(list), j)) \in Nat
            /\ Cardinality(Consumed(list, n, j)) \in Nat
        BY <4>1, ConsumedCount
      <4>4. Consumed(list, n, j) \in SUBSET Consumed(list, Len(list), j) BY <4>1 DEF Consumed
      <4>5. Cardinality(Consumed(list, n, j)) <= Cardinality(Consumed(list, Len(list), j))
        BY <4>3, <4>4, FS_Subset
      <4>6. Cardinality(Judged(m, j)) <= Cardinality(Consumed(list, n, j)) BY <3>5
      <4> QED BY <4>2, <4>3, <4>5, <4>6
    <3>7. d.queue = SubSeq(list, Len(list) + 1, Len(list)) /\ Len(list) \in 0 .. Len(list)
      BY <2>2, <3>4
    <3>8. list \in ListsOf(d.agent) BY <2>2
    <3> QED BY <3>6, <3>7, <3>8 DEF Drains
  <2>5. OnRecord(m, reply[m]) => OnRecord(m, d) BY <2>2 DEF OnRecord
  <2>6. SoundReply(m, d) BY <2>2, <2>3, <2>4, <2>5 DEF SoundReply
  <2> QED BY <1>4, <2>6, SoundKept DEF ScoreIInv
<1>8. \A i \in DOMAIN reply : /\ reply'[i].agent = reply[i].agent /\ reply'[i].user = reply[i].user
                              /\ reply'[i].kind = reply[i].kind
                              /\ (reply[i].state = "done" => reply'[i].state = "done")
  BY <1>3
<1>9. RowsSound'
  <2>1. SUFFICES ASSUME NEW k \in DOMAIN scores, NEW s, s = scores[k], SoundRow(s) PROVE SoundRow(s)'
    BY <1>4 DEF RowsSound, ScoreIInv
  <2> QED BY <1>2, <1>8, <2>1 DEF SoundRow
<1>10. HistorySound'
  <2>1. \A u \in Users : \A i \in history[u] :
          i \in DOMAIN reply /\ reply[i].kind = "chat" /\ reply[i].user = u
    BY DEF ScoreIInv, HistorySound
  <2> QED BY <1>2, <1>4, <1>8, <2>1 DEF HistorySound
<1>11. TurnsCall' /\ RunsCall' BY <1>4, <1>5 DEF TurnsCall, TurnCall, RunsCall, RunCall, IdleTurn
<1> QED BY <1>6, <1>7, <1>9, <1>10, <1>11 DEF ScoreIInv

-----------------------------------------------------------------------------
LEMMA ScoreStarts == EvaluationInit => ScoreIInv
<1> SUFFICES ASSUME EvaluationInit PROVE ScoreIInv OBVIOUS
<1>1. DOMAIN reply = {} /\ DOMAIN scores = {} BY DEF EvaluationInit
<1>2. NoTest \in TestConfigs BY DEF TestConfigs
<1>3. Unspawned \in Loop /\ Unspawned.pc = "none"
  <2>1. << >> \in Seq(Message) OBVIOUS
  <2> QED BY <1>2, <2>1 DEF Unspawned, Loop, Active, Names
<1>4. IdleTurn \in Chat /\ IdleTurn.pc = "idle" BY DEF IdleTurn, Chat
<1>5. NoRun \in Row BY DEF NoRun, Row
<1>6. EvaluationTypes
  BY <1>2, <1>3, <1>4, <1>5, EvaluationAssumption DEF EvaluationInit, EvaluationTypes, ListsOf
<1>7. TurnsCall /\ RunsCall
  BY <1>3, <1>4 DEF EvaluationInit, TurnsCall, TurnCall, RunsCall, RunCall
<1> QED BY <1>1, <1>6, <1>7
    DEF EvaluationInit, ScoreIInv, RepliesSound, RowsSound, HistorySound

LEMMA ScoreStep == ScoreIInv /\ [EvaluationNext]_evaluationVars => ScoreIInv'
<1> SUFFICES ASSUME ScoreIInv, [EvaluationNext]_evaluationVars PROVE ScoreIInv' OBVIOUS
<1>1. ASSUME NEW u \in Users, ChatStep(u) \/ \E stream \in BOOLEAN : AskScores(u, stream)
      PROVE  ScoreIInv'
  BY <1>1, ScoreAskStep, ScoreRouteStep, ScoreTurnEnds DEF ChatStep
<1>2. ASSUME NEW m \in 1 .. Len(reply), BackgroundStep(m) PROVE ScoreIInv'
  <2>1. m \in DOMAIN reply BY DEF ScoreIInv, EvaluationTypes
  <2> QED BY <1>2, <2>1, ScoreShadowEnds, ScoreJudgePasses, ScoreJudgeScores DEF BackgroundStep
<1>3. ASSUME NEW r \in Runs, SmokeStep(r) PROVE ScoreIInv'
  BY <1>3, ScoreQuietSmoke, ScoreSmokeRoute, ScoreSmokeReplies, ScoreSmokeFails DEF SmokeStep
<1> QED BY <1>1, <1>2, <1>3, ScoreStudioSteps, ScoreRestart DEF EvaluationNext

LEMMA ScoreSound == ScoreIInv => ScoresSound
<1> SUFFICES ASSUME ScoreIInv PROVE ScoresSound OBVIOUS
<1>1. /\ scores \in Seq(Score) /\ DOMAIN scores = 1 .. Len(scores)
      /\ reply \in Seq(Reply) /\ DOMAIN reply = 1 .. Len(reply)
  BY DEF ScoreIInv, EvaluationTypes
<1>2. \A k \in 1 .. Len(scores) : SoundRow(scores[k]) BY <1>1 DEF ScoreIInv, RowsSound
<1>3. ScoresOnScale BY <1>2 DEF ScoresOnScale, SoundRow
<1>4. ScoresAttributed BY <1>1, <1>2 DEF ScoresAttributed, SoundRow
<1>5. ScoredOnce
  <2> SUFFICES ASSUME NEW k \in 1 .. Len(scores)
               PROVE  \E list \in JudgeLists \cup {BootAgents[scores[k].agent]} :
                        Count({l \in 1 .. Len(scores) : scores[l].id = scores[k].id
                                                        /\ scores[l].judge = scores[k].judge})
                          <= Times(list, scores[k].judge)
    BY DEF ScoredOnce
  <2>1. PICK s : s = scores[k] OBVIOUS
  <2>2. PICK m : m = s.id OBVIOUS
  <2>3. /\ m \in DOMAIN reply /\ reply[m].agent = s.agent /\ reply[m].state = "done"
        /\ s.judge \in Judges
    <3>1. s \in Score BY <1>1, <2>1
    <3>2. SoundRow(s) BY <1>2, <2>1
    <3> QED BY <2>2, <3>1, <3>2 DEF SoundRow, Score
  <2>4. SoundReply(m, reply[m]) BY <2>3 DEF ScoreIInv, RepliesSound
  <2>5. Drains(m, reply[m]) /\ s.agent \in Agents BY <2>3, <2>4 DEF SoundReply
  <2>6. PICK list \in ListsOf(s.agent) : \E n \in 0 .. Len(list) :
          \A j \in Judges : Cardinality(Judged(m, j)) <= Cardinality(Consumed(list, n, j))
    BY <2>3, <2>5 DEF Drains
  <2>7. list \in Seq(Judges) BY <2>5, EvaluationAssumption DEF ListsOf
  <2>8. PICK n \in 0 .. Len(list) :
          \A j \in Judges : Cardinality(Judged(m, j)) <= Cardinality(Consumed(list, n, j))
    BY <2>6
  <2>9. Cardinality(Judged(m, s.judge)) <= Cardinality(Consumed(list, n, s.judge)) BY <2>3, <2>8
  <2>10. n \in Nat /\ Len(list) \in Nat /\ n <= Len(list) BY <2>7
  <2>11. Times(list, s.judge) = Cardinality(Consumed(list, Len(list), s.judge))
    <3>1. DOMAIN list = 1 .. Len(list) BY <2>7
    <3> QED BY <3>1 DEF Times, Count, Consumed
  <2>12. /\ IsFiniteSet(Consumed(list, Len(list), s.judge))
         /\ Cardinality(Consumed(list, Len(list), s.judge)) \in Nat
         /\ Cardinality(Consumed(list, n, s.judge)) \in Nat
    BY <2>10, ConsumedCount
  <2>13. Consumed(list, n, s.judge) \in SUBSET Consumed(list, Len(list), s.judge)
    BY <2>10 DEF Consumed
  <2>14. Cardinality(Consumed(list, n, s.judge)) <= Cardinality(Consumed(list, Len(list), s.judge))
    BY <2>12, <2>13, FS_Subset
  <2>15. Cardinality(Judged(m, s.judge)) \in Nat
    <3>1. IsFiniteSet(DOMAIN scores) /\ Judged(m, s.judge) \in SUBSET DOMAIN scores
      BY <1>1, FS_Interval DEF Judged
    <3> QED BY <3>1, FS_Subset, FS_CardinalityType
  <2>16. Cardinality(Judged(m, s.judge)) <= Times(list, s.judge)
    BY <2>9, <2>11, <2>12, <2>14, <2>15
  <2>17. Count({l \in 1 .. Len(scores) : scores[l].id = s.id /\ scores[l].judge = s.judge})
           = Cardinality(Judged(m, s.judge))
    BY <1>1, <2>2 DEF Count, Judged
  <2> QED BY <2>1, <2>6, <2>16, <2>17 DEF ListsOf
<1>6. ScoredIsStored
  <2>1. ASSUME NEW k \in 1 .. Len(scores)
        PROVE  OnRecord(scores[k].id, reply[scores[k].id])
    <3>1. PICK m : m = scores[k].id OBVIOUS
    <3>2. m \in DOMAIN reply /\ ~Unscored(m) BY <1>1, <1>2, <3>1 DEF SoundRow, Unscored
    <3> QED BY <3>1, <3>2 DEF ScoreIInv, RepliesSound, SoundReply
  <2> QED BY <1>1, <2>1 DEF ScoredIsStored, OnRecord, ScoreIInv, HistorySound
<1> QED BY <1>3, <1>4, <1>5, <1>6 DEF ScoresSound

\* A score can be trusted (spawn_score, record_score): it names its reply's
\* agent and user, is on the scale, is counted once for each time the judge is
\* listed, and what it judges is on record, whatever is edited, restarted or
\* lost on the way.
THEOREM SoundScores == EvaluationSpec => []ScoresSound
BY ScoreStarts, ScoreStep, ScoreSound, PTL DEF EvaluationSpec

-----------------------------------------------------------------------------
(***************************************************************************)
(* Smoke runs.  A message's place in the conversation is told by its turn  *)
(* and role; the conversation of a run holds one message of each place, in *)
(* that order, and its rows are the same messages.                         *)
(***************************************************************************)
Place(x) == 2 * x.turn + IF x.role = "persona" THEN 1 ELSE 2

Stopped(conv) == \E i \in 1 .. Len(conv) : conv[i].stop

Spoken(conv) ==
  \A i \in 1 .. Len(conv) : Place(conv[i]) = i /\ (conv[i].stop => i = Len(conv))

\* What is true of a run's loop, row and messages.
Truthful(e, row, msgs) ==
  /\ Spoken(e.conv) /\ Len(e.conv) \in {2 * e.turn, 2 * e.turn + 1}
  /\ msgs = {e.conv[i] : i \in 1 .. Len(e.conv)}
  /\ row.turns = e.turn /\ e.turn <= e.test.maxTurns
  /\ e.pc = "persona" =>
       Len(e.conv) = 2 * e.turn /\ e.turn < e.test.maxTurns /\ ~Stopped(e.conv)
  /\ e.pc \in {"read", "route", "call"} =>
       Len(e.conv) = 2 * e.turn + 1 /\ e.turn < e.test.maxTurns /\ ~Stopped(e.conv)
  /\ e.pc = "finish" \/ row.status = "completed" =>
       e.turn = e.test.maxTurns \/ Stopped(e.conv)
  /\ row.status = "none" => e = Unspawned

RunIInv == \A r \in Runs : Truthful(task[r], run[r], messages[r])

LEMMA LoopTyped ==
  ASSUME NEW e \in Loop
  PROVE  /\ e.conv \in Seq(Message) /\ e.turn \in Nat /\ e.test.maxTurns \in Nat
         /\ Len(e.conv) \in Nat /\ DOMAIN e.conv = 1 .. Len(e.conv)
         /\ e.pc \in Active \cup {"none", "gone"}
<1>1. \A t \in TestConfigs : t.maxTurns \in Nat
  BY EvaluationAssumption DEF TestConfigs, NoTest
<1> QED BY <1>1 DEF Loop

\* The next message of the conversation: it has the next place.
LEMMA SpokenGrows ==
  ASSUME NEW conv \in Seq(Message), Spoken(conv), ~Stopped(conv),
         NEW x \in Message, Place(x) = Len(conv) + 1
  PROVE  LET new == Append(conv, x)
         IN  /\ Spoken(new) /\ new \in Seq(Message) /\ Len(new) = Len(conv) + 1
             /\ {new[i] : i \in 1 .. Len(new)} = {conv[i] : i \in 1 .. Len(conv)} \cup {x}
             /\ (Stopped(new) <=> x.stop)
<1>1. PICK new : new = Append(conv, x) OBVIOUS
<1>2. /\ new \in Seq(Message) /\ Len(new) = Len(conv) + 1 /\ new[Len(conv) + 1] = x
      /\ \A i \in 1 .. Len(conv) : new[i] = conv[i]
  BY <1>1
<1>3. Len(conv) \in Nat /\ 1 .. Len(new) = 1 .. Len(conv) \cup {Len(conv) + 1} BY <1>2
<1>4. \A i \in 1 .. Len(new) : Place(new[i]) = i /\ (new[i].stop => i = Len(new))
  <2> SUFFICES ASSUME NEW i \in 1 .. Len(new)
               PROVE  Place(new[i]) = i /\ (new[i].stop => i = Len(new))
    OBVIOUS
  <2>1. CASE i = Len(conv) + 1 BY <1>2, <2>1
  <2>2. CASE i # Len(conv) + 1
    <3>1. i \in 1 .. Len(conv) BY <1>3, <2>2
    <3>2. Place(conv[i]) = i BY <3>1 DEF Spoken
    <3>3. ~conv[i].stop BY <3>1 DEF Stopped
    <3> QED BY <1>2, <3>1, <3>2, <3>3
  <2> QED BY <2>1, <2>2
<1>5. Spoken(new) BY <1>2, <1>4 DEF Spoken
<1>6. {new[i] : i \in 1 .. Len(new)} = {conv[i] : i \in 1 .. Len(conv)} \cup {x}
  BY <1>2, <1>3
<1>7. Stopped(new) <=> x.stop BY <1>2, <1>3 DEF Stopped
<1> QED BY <1>1, <1>2, <1>5, <1>6, <1>7

LEMMA TruthPersona ==
  ASSUME EvaluationTypes, RunIInv, NEW r \in Runs, PersonaTurn(r)
  PROVE  Truthful(task'[r], run'[r], messages'[r])
<1>1. PICK stop \in BOOLEAN :
        /\ messages' = [messages EXCEPT ![r] = @ \cup {Say(r, "persona", 0, stop)}]
        /\ Smoke(r, [task[r] EXCEPT !.conv = Append(@, Say(r, "persona", 0, stop)),
                                    !.pc = IF stop THEN "finish" ELSE "read"])
  BY DEF PersonaTurn
<1>2. PICK e \in Loop : e = task[r] BY DEF EvaluationTypes
<1>3. e.conv \in Seq(Message) /\ e.turn \in Nat /\ e.test.maxTurns \in Nat /\ Len(e.conv) \in Nat
  BY <1>2, LoopTyped
<1>4. e.pc = "persona" /\ Truthful(e, run[r], messages[r]) /\ UNCHANGED run
  BY <1>2 DEF PersonaTurn, RunIInv
<1>5. /\ Spoken(e.conv) /\ ~Stopped(e.conv) /\ Len(e.conv) = 2 * e.turn
      /\ e.turn < e.test.maxTurns /\ run[r].turns = e.turn /\ run[r].status # "none"
      /\ messages[r] = {e.conv[i] : i \in 1 .. Len(e.conv)}
      /\ (run[r].status = "completed" => e.turn = e.test.maxTurns)
  BY <1>4 DEF Truthful, Unspawned
<1>6. PICK x : x = Say(r, "persona", 0, stop) OBVIOUS
<1>7. /\ x \in Message /\ x.turn = e.turn /\ x.role = "persona" /\ x.stop = stop
  BY <1>2, <1>6, SayTyped DEF Say
<1>8. Place(x) = Len(e.conv) + 1 BY <1>3, <1>5, <1>7 DEF Place
<1>9. PICK new : new = Append(e.conv, x) OBVIOUS
<1>10. /\ Spoken(new) /\ new \in Seq(Message) /\ Len(new) = Len(e.conv) + 1
       /\ {new[i] : i \in 1 .. Len(new)} = {e.conv[i] : i \in 1 .. Len(e.conv)} \cup {x}
       /\ (Stopped(new) <=> x.stop)
  <2>1. Spoken(e.conv) /\ ~Stopped(e.conv) /\ e.conv \in Seq(Message) BY <1>3, <1>5
  <2>2. x \in Message BY <1>7
  <2> QED BY <1>8, <1>9, <2>1, <2>2, SpokenGrows
<1>11. PICK p \in {"finish", "read"} : p = IF stop THEN "finish" ELSE "read" OBVIOUS
<1>12. PICK f : f = [e EXCEPT !.conv = new, !.pc = p] OBVIOUS
<1>13. f.conv = new /\ f.turn = e.turn /\ f.test = e.test /\ f.pc = p
  BY <1>12 DEF Loop
<1>14. task'[r] = f
  BY <1>1, <1>2, <1>6, <1>9, <1>11, <1>12 DEF Smoke, EvaluationTypes
<1>15. messages'[r] = messages[r] \cup {x} BY <1>1, <1>6 DEF EvaluationTypes
<1>16. Truthful(f, run[r], messages[r] \cup {x})
  <2>1. Len(new) = 2 * e.turn + 1 /\ e.turn <= e.test.maxTurns BY <1>3, <1>5, <1>10
  <2>2. run[r].status # "completed" BY <1>3, <1>5
  <2>3. messages[r] \cup {x} = {new[i] : i \in 1 .. Len(new)} BY <1>5, <1>10
  <2>4. p = IF Stopped(new) THEN "finish" ELSE "read" BY <1>7, <1>10, <1>11
  <2>5. run[r].turns = e.turn /\ run[r].status # "none" /\ e.turn < e.test.maxTurns BY <1>5
  <2> QED BY <1>10, <1>13, <2>1, <2>2, <2>3, <2>4, <2>5 DEF Truthful
<1> QED BY <1>4, <1>14, <1>15, <1>16

LEMMA TruthReply ==
  ASSUME EvaluationTypes, RunIInv, NEW r \in Runs, SmokeReplies(r), NEW m \in Nat, m = task[r].id
  PROVE  Truthful(task'[r], run'[r], messages'[r])
<1>2. PICK e \in Loop : e = task[r] BY DEF EvaluationTypes
<1>1. PICK stop \in BOOLEAN :
        /\ messages' = [messages EXCEPT ![r] = @ \cup {Say(r, "assistant", m, stop)}]
        /\ run' = [run EXCEPT ![r].turns = task[r].turn + 1]
        /\ Smoke(r, [task[r] EXCEPT !.conv = Append(@, Say(r, "assistant", m, stop)),
                                    !.turn = @ + 1,
                                    !.pc = IF stop \/ task[r].turn + 1 = task[r].test.maxTurns
                                           THEN "finish" ELSE "persona"])
  BY DEF SmokeReplies
<1>3. e.conv \in Seq(Message) /\ e.turn \in Nat /\ e.test.maxTurns \in Nat /\ Len(e.conv) \in Nat
  BY <1>2, LoopTyped
<1>4. e.pc = "call" /\ Truthful(e, run[r], messages[r]) BY <1>2 DEF SmokeReplies, RunIInv
<1>5. /\ Spoken(e.conv) /\ ~Stopped(e.conv) /\ Len(e.conv) = 2 * e.turn + 1
      /\ e.turn < e.test.maxTurns /\ run[r].turns = e.turn /\ run[r].status # "none"
      /\ messages[r] = {e.conv[i] : i \in 1 .. Len(e.conv)}
      /\ run[r].status # "completed"
  BY <1>3, <1>4 DEF Truthful, Unspawned
<1>6. PICK x : x = Say(r, "assistant", m, stop) OBVIOUS
<1>7. /\ x \in Message /\ x.turn = e.turn /\ x.role = "assistant" /\ x.stop = stop
  BY <1>2, <1>6, SayTyped DEF Say
<1>8. Place(x) = Len(e.conv) + 1 BY <1>3, <1>5, <1>7 DEF Place
<1>9. PICK new : new = Append(e.conv, x) OBVIOUS
<1>10. /\ Spoken(new) /\ new \in Seq(Message) /\ Len(new) = Len(e.conv) + 1
       /\ {new[i] : i \in 1 .. Len(new)} = {e.conv[i] : i \in 1 .. Len(e.conv)} \cup {x}
       /\ (Stopped(new) <=> x.stop)
  <2>1. Spoken(e.conv) /\ ~Stopped(e.conv) /\ e.conv \in Seq(Message) BY <1>3, <1>5
  <2>2. x \in Message BY <1>7
  <2> QED BY <1>8, <1>9, <2>1, <2>2, SpokenGrows
<1>11. PICK p \in {"finish", "persona"} :
         p = IF stop \/ e.turn + 1 = e.test.maxTurns THEN "finish" ELSE "persona"
  OBVIOUS
<1>12. PICK f : f = [e EXCEPT !.conv = new, !.turn = @ + 1, !.pc = p] OBVIOUS
<1>13. f.conv = new /\ f.turn = e.turn + 1 /\ f.test = e.test /\ f.pc = p
  BY <1>12 DEF Loop
<1>14. task'[r] = f
  BY <1>1, <1>2, <1>6, <1>9, <1>11, <1>12 DEF Smoke, EvaluationTypes
<1>15. messages'[r] = messages[r] \cup {x} BY <1>1, <1>6 DEF EvaluationTypes
<1>16. PICK row : row = run'[r] OBVIOUS
<1>17. row.turns = e.turn + 1 /\ row.status = run[r].status
  BY <1>1, <1>2, <1>16 DEF EvaluationTypes, Row
<1>18. Truthful(f, row, messages[r] \cup {x})
  <2>1. /\ Len(new) = 2 * (e.turn + 1) /\ e.turn + 1 <= e.test.maxTurns
        /\ (e.turn + 1 # e.test.maxTurns => e.turn + 1 < e.test.maxTurns)
    <3>1. /\ Len(e.conv) \in Nat /\ e.turn \in Nat /\ Len(e.conv) = 2 * e.turn + 1
          /\ Len(new) = Len(e.conv) + 1 /\ e.turn < e.test.maxTurns /\ e.test.maxTurns \in Nat
      BY <1>3, <1>5, <1>10
    <3> QED BY <3>1
  <2>2. row.status # "completed" /\ row.status # "none" /\ row.turns = e.turn + 1 BY <1>5, <1>17
  <2>3. messages[r] \cup {x} = {new[i] : i \in 1 .. Len(new)} BY <1>5, <1>10
  <2>4. p = IF Stopped(new) \/ e.turn + 1 = e.test.maxTurns THEN "finish" ELSE "persona"
    BY <1>7, <1>10, <1>11
  <2> QED BY <1>10, <1>13, <2>1, <2>2, <2>3, <2>4 DEF Truthful
<1> QED BY <1>14, <1>15, <1>16, <1>18

\* The loop moves on without a word.
LEMMA TruthMoves ==
  ASSUME NEW e \in Loop, NEW row, NEW msgs, Truthful(e, row, msgs), NEW f, NEW after,
         f.conv = e.conv, f.turn = e.turn, f.test = e.test, after.turns = row.turns,
         f.pc # "persona", f.pc \in {"read", "route", "call"} => e.pc \in {"read", "route", "call"},
         f.pc = "finish" \/ after.status = "completed" => e.pc = "finish" \/ row.status = "completed",
         after.status # "none"
  PROVE  Truthful(f, after, msgs)
BY DEF Truthful

LEMMA TruthMovesOn ==
  ASSUME EvaluationTypes, RunIInv, NEW r \in Runs,
         SmokeAskScores(r) \/ SmokeRoute(r) \/ SmokeFails(r) \/ FinishRun(r) \/ FailRun(r)
  PROVE  Truthful(task'[r], run'[r], messages'[r])
<1>1. PICK e \in Loop : e = task[r] BY DEF EvaluationTypes
<1>2. PICK row \in Row : row = run[r] BY DEF EvaluationTypes
<1>3. Truthful(e, row, messages[r]) /\ UNCHANGED messages
  BY <1>1, <1>2 DEF RunIInv, SmokeAskScores, SmokeRoute, SmokeFails, FinishRun, FailRun
<1>4. e.pc \in Active /\ row.status # "none"
  <2>1. e.pc \in Active
    BY <1>1 DEF SmokeAskScores, SmokeRoute, SmokeFails, FinishRun, FailRun, Active
  <2> QED BY <1>3, <2>1 DEF Truthful, Unspawned, Active
<1>5. PICK f : f = task'[r] OBVIOUS
<1>6. PICK after : after = run'[r] OBVIOUS
<1>7. /\ f.conv = e.conv /\ f.turn = e.turn /\ f.test = e.test /\ after.turns = row.turns
      /\ f.pc # "persona" /\ after.status # "none"
      /\ (f.pc \in {"read", "route", "call"} => e.pc \in {"read", "route", "call"})
      /\ (f.pc = "finish" \/ after.status = "completed" => e.pc = "finish" \/ row.status = "completed")
  <2>1. task \in [Runs -> Loop] /\ run \in [Runs -> Row] BY DEF EvaluationTypes
  <2>2. CASE SmokeAskScores(r)
    <3>1. PICK w \in Window \cup {<<0, 0>>} :
            task' = [task EXCEPT ![r] = [task[r] EXCEPT !.lo = w[1], !.hi = w[2], !.pc = "route"]]
      BY <2>2 DEF SmokeAskScores, Smoke
    <3>3. f = [e EXCEPT !.lo = w[1], !.hi = w[2], !.pc = "route"] BY <1>1, <1>5, <2>1, <3>1
    <3>2. e.pc = "read" /\ after = row BY <1>1, <1>2, <1>6, <2>2 DEF SmokeAskScores
    <3> QED BY <1>4, <3>2, <3>3 DEF Loop
  <2>3. CASE SmokeRoute(r)
    <3>1. PICK a \in Names, p \in {"call", "failing"} :
            /\ run' = [run EXCEPT ![r].resolved = IF task[r].recorded THEN @ ELSE a]
            /\ task' = [task EXCEPT ![r] = [task[r] EXCEPT !.recorded = TRUE, !.agent = a,
                                                           !.id = Len(reply) + 1, !.pc = p]]
      BY <2>3 DEF SmokeRoute, Smoke
    <3>2. f = [e EXCEPT !.recorded = TRUE, !.agent = a, !.id = Len(reply) + 1, !.pc = p]
      BY <1>1, <1>5, <2>1, <3>1
    <3>3. PICK v : after = [row EXCEPT !.resolved = v] BY <1>2, <1>6, <2>1, <3>1
    <3>4. e.pc = "route" BY <1>1, <2>3 DEF SmokeRoute
    <3> QED BY <1>4, <3>2, <3>3, <3>4 DEF Loop, Row
  <2>4. CASE SmokeFails(r)
    <3>1. f = [e EXCEPT !.pc = "failing"] /\ after = row
      BY <1>1, <1>2, <1>5, <1>6, <2>1, <2>4 DEF SmokeFails, Smoke
    <3> QED BY <1>4, <3>1 DEF Loop
  <2>5. CASE FinishRun(r)
    <3>1. f = [e EXCEPT !.pc = "gone"] /\ after = [row EXCEPT !.status = "completed"]
      BY <1>1, <1>2, <1>5, <1>6, <2>1, <2>5 DEF FinishRun, Smoke
    <3>2. e.pc = "finish" BY <1>1, <2>5 DEF FinishRun
    <3> QED BY <3>1, <3>2 DEF Loop, Row
  <2>6. CASE FailRun(r)
    <3>1. PICK s \in {"failed", row.status} :
            f = [e EXCEPT !.pc = "gone"] /\ after = [row EXCEPT !.status = s]
      BY <1>1, <1>2, <1>5, <1>6, <2>1, <2>6 DEF FailRun, Smoke
    <3> QED BY <1>4, <3>1 DEF Loop, Row
  <2> QED BY <2>2, <2>3, <2>4, <2>5, <2>6
<1> QED BY <1>3, <1>5, <1>6, <1>7, TruthMoves

LEMMA TruthStarts ==
  ASSUME EvaluationTypes, RunIInv, NEW r \in Runs, StartRun(r)
  PROVE  Truthful(task'[r], run'[r], messages'[r])
<1>1. PICK row \in Row : row = run[r] BY DEF EvaluationTypes
<1>2. /\ Truthful(task[r], row, messages[r]) /\ row.status = "none" /\ UNCHANGED messages
      /\ pending.test \in TestConfigs
  BY <1>1 DEF RunIInv, StartRun, EvaluationTypes
<1>3. PICK top : top = pending.test.maxTurns OBVIOUS
<1>4. top \in Nat BY <1>2, <1>3, EvaluationAssumption DEF TestConfigs, NoTest
<1>5. task[r] = Unspawned /\ row.turns = 0 /\ messages[r] = {}
  <2>1. task[r] = Unspawned BY <1>2 DEF Truthful
  <2>2. Len(<< >>) = 0 /\ 1 .. 0 = {} OBVIOUS
  <2> QED BY <1>2, <2>1, <2>2 DEF Truthful, Unspawned
<1>6. PICK f : f = task'[r] OBVIOUS
<1>7. PICK p \in {"finish", "persona"} : p = IF top = 0 THEN "finish" ELSE "persona" OBVIOUS
<1>8. f = [Unspawned EXCEPT !.test = pending.test, !.pc = p]
  BY <1>3, <1>6, <1>7 DEF StartRun, EvaluationTypes
<1>9. f.conv = << >> /\ f.turn = 0 /\ f.pc = p /\ f.test.maxTurns = top
  BY <1>3, <1>8 DEF Unspawned
<1>10. PICK after : after = run'[r] OBVIOUS
<1>11. after.turns = 0 /\ after.status = "running"
  BY <1>1, <1>5, <1>10 DEF StartRun, EvaluationTypes, Row
<1>12. Spoken(<< >>) /\ ~Stopped(<< >>) /\ Len(<< >>) = 0 /\ \A i \in 1 .. Len(<< >>) : FALSE
  BY DEF Spoken, Stopped
<1>13. Truthful(f, after, {})
  <2>1. Spoken(f.conv) /\ ~Stopped(f.conv) /\ Len(f.conv) = 0 BY <1>9, <1>12
  <2>2. {f.conv[i] : i \in 1 .. Len(f.conv)} = {} BY <2>1
  <2>3. f.pc = "persona" => 0 < top BY <1>4, <1>7, <1>9
  <2>4. f.pc = "finish" => top = 0 BY <1>7, <1>9
  <2> QED BY <1>4, <1>7, <1>9, <1>11, <2>1, <2>2, <2>3, <2>4 DEF Truthful
<1> QED BY <1>2, <1>5, <1>6, <1>10, <1>13

LEMMA TruthRestarts ==
  ASSUME EvaluationTypes, RunIInv, NEW r \in Runs, Restart
  PROVE  Truthful(task'[r], run'[r], messages'[r])
<1>1. PICK e \in Loop : e = task[r] BY DEF EvaluationTypes
<1>2. PICK row : row = run[r] OBVIOUS
<1>3. Truthful(e, row, messages[r]) /\ UNCHANGED <<run, messages>>
  BY <1>1, <1>2 DEF RunIInv, Restart
<1>4. PICK f : f = task'[r] OBVIOUS
<1>5. f = IF e.pc = "none" THEN e ELSE [e EXCEPT !.pc = "gone"] BY <1>1, <1>4 DEF Restart
<1>6. CASE e.pc = "none"
  <2>1. f = e BY <1>5, <1>6
  <2> QED BY <1>2, <1>3, <1>4, <2>1
<1>7. CASE e.pc # "none"
  <2>1. f.conv = e.conv /\ f.turn = e.turn /\ f.test = e.test /\ f.pc = "gone" BY <1>5, <1>7 DEF Loop
  <2>2. row.status # "none" BY <1>3, <1>7 DEF Truthful, Unspawned
  <2>3. Truthful(f, row, messages[r]) BY <1>3, <2>1, <2>2, TruthMoves
  <2> QED BY <1>2, <1>3, <1>4, <2>3
<1> QED BY <1>6, <1>7

\* The step of one run leaves the others alone.
LEMMA RunsApart ==
  ASSUME EvaluationTypes, NEW r \in Runs, StartRun(r) \/ SmokeStep(r), NEW q \in Runs, q # r
  PROVE  task'[q] = task[q] /\ run'[q] = run[q] /\ messages'[q] = messages[q]
BY DEF EvaluationTypes, StartRun, SmokeStep, PersonaTurn, SmokeAskScores, SmokeRoute,
       SmokeReplies, SmokeFails, FinishRun, FailRun, Smoke

LEMMA RunsStep ==
  EvaluationTypes /\ ScoreIInv /\ RunIInv /\ [EvaluationNext]_evaluationVars => RunIInv'
<1> SUFFICES ASSUME EvaluationTypes, ScoreIInv, RunIInv, [EvaluationNext]_evaluationVars
             PROVE  RunIInv'
  OBVIOUS
<1>1. ASSUME UNCHANGED <<task, run, messages>> PROVE RunIInv' BY <1>1 DEF RunIInv
<1>2. ASSUME NEW u \in Users, ChatStep(u) \/ \E stream \in BOOLEAN : AskScores(u, stream)
      PROVE  RunIInv'
  BY <1>1, <1>2 DEF ChatStep, Route, ChatReplies, ChatUnsaved, ChatFails, EndTurn, AskScores
<1>3. ASSUME NEW m \in 1 .. Len(reply), BackgroundStep(m) PROVE RunIInv'
  BY <1>1, <1>3 DEF BackgroundStep, ShadowReplies, ShadowFails, JudgeSkips, JudgeFails,
                    JudgeScores, Background
<1>4. ASSUME NEW r \in Runs, StartRun(r) \/ SmokeStep(r) PROVE RunIInv'
  <2>1. Truthful(task'[r], run'[r], messages'[r])
    <3>1. CASE StartRun(r) BY <3>1, TruthStarts
    <3>2. CASE PersonaTurn(r) BY <3>2, TruthPersona
    <3>3. CASE SmokeReplies(r)
      <4>1. task[r].id \in Nat BY DEF EvaluationTypes, Loop
      <4> QED BY <3>3, <4>1, TruthReply
    <3>4. CASE SmokeAskScores(r) \/ SmokeRoute(r) \/ SmokeFails(r) \/ FinishRun(r) \/ FailRun(r)
      BY <3>4, TruthMovesOn
    <3> QED BY <1>4, <3>1, <3>2, <3>3, <3>4 DEF SmokeStep
  <2>2. \A q \in Runs : q # r =>
          task'[q] = task[q] /\ run'[q] = run[q] /\ messages'[q] = messages[q]
    BY <1>4, RunsApart
  <2> QED BY <2>1, <2>2 DEF RunIInv
<1>5. CASE Restart BY <1>5, TruthRestarts DEF RunIInv
<1>6. CASE Age \/ StartFails \/ \E t \in Tests : RunNow(t) BY <1>1, <1>6 DEF Age, StartFails, RunNow
<1>7. ASSUME NEW a \in Agents, NEW list \in JudgeLists \cup {Gone}, EditAgent(a, list) PROVE RunIInv'
  BY <1>1, <1>7 DEF EditAgent
<1>8. CASE UNCHANGED evaluationVars BY <1>1, <1>8 DEF evaluationVars
<1> QED BY <1>2, <1>3, <1>4, <1>5, <1>6, <1>7, <1>8 DEF EvaluationNext

LEMMA RunsStart == EvaluationInit => RunIInv
<1> SUFFICES ASSUME EvaluationInit, NEW r \in Runs PROVE Truthful(Unspawned, NoRun, {})
  BY DEF EvaluationInit, RunIInv
<1>1. Spoken(<< >>) /\ Len(<< >>) = 0 /\ {<< >>[i] : i \in 1 .. Len(<< >>)} = {} BY DEF Spoken
<1> QED BY <1>1 DEF Truthful, Unspawned, NoRun, NoTest

\* The messages of the first places, and how many they are.
LEMMA Prefix ==
  ASSUME NEW conv \in Seq(Message), Spoken(conv), NEW k \in 0 .. Len(conv)
  PROVE  LET S == {conv[j] : j \in 1 .. k}
         IN  IsFiniteSet(S) /\ Cardinality(S) = k
<1> DEFINE S == {conv[j] : j \in 1 .. k}
           f == [j \in 1 .. k |-> conv[j]]
<1>1. k \in Nat /\ k <= Len(conv) OBVIOUS
<1>2. \A j \in 1 .. k : Place(conv[j]) = j BY <1>1 DEF Spoken
<1>3. f \in [1 .. k -> S] OBVIOUS
<1>4. \A i, j \in 1 .. k : f[i] = f[j] => i = j BY <1>2
<1>5. \A x \in S : \E j \in 1 .. k : f[j] = x OBVIOUS
<1>6. f \in Bijection(1 .. k, S)
  <2> HIDE DEF S, f
  <2> QED BY <1>3, <1>4, <1>5 DEF Bijection, Injection, Surjection, IsInjective
<1>7. ExistsBijection(1 .. k, S) BY <1>6 DEF ExistsBijection
<1>8. IsFiniteSet(1 .. k) /\ Cardinality(1 .. k) = k BY <1>1, FS_Interval
<1> HIDE DEF S, f
<1>9. IsFiniteSet(S) /\ Cardinality(S) = k BY <1>7, <1>8, FS_Bijection
<1> QED BY <1>9 DEF S

\* Of two messages of a conversation the one of the earlier place comes first.
Earlier(x, y) ==
  x.turn < y.turn \/ (x.turn = y.turn /\ x.role = "persona" /\ y.role # "persona")

LEMMA EarlierPlace ==
  ASSUME NEW x \in Message, NEW y \in Message
  PROVE  Earlier(x, y) <=> Place(x) < Place(y)
<1>1. /\ x.turn \in Nat /\ y.turn \in Nat
      /\ x.role \in {"persona", "assistant"} /\ y.role \in {"persona", "assistant"}
  BY DEF Message
<1> QED BY <1>1 DEF Earlier, Place

Rows(msgs) ==
  [i \in 1 .. Cardinality(msgs) |->
     CHOOSE x \in msgs : Cardinality({y \in msgs : Earlier(y, x)}) = i - 1]

Said(conv) == {conv[i] : i \in 1 .. Len(conv)}

\* The viewer's sort restores the conversation.
LEMMA Sorted ==
  ASSUME NEW conv \in Seq(Message), Spoken(conv) PROVE conv = Rows(Said(conv))
<1>1. PICK n \in Nat : n = Len(conv) OBVIOUS
<1>2. PICK msgs : msgs = Said(conv) OBVIOUS
<1>3. Cardinality(msgs) = n
  <2>1. n \in 0 .. n OBVIOUS
  <2> QED BY <1>1, <1>2, <2>1, Prefix DEF Said
<1>4. \A i \in 1 .. n : conv[i] \in Message /\ Place(conv[i]) = i BY <1>1 DEF Spoken
<1>5. \A x \in msgs : \E i \in 1 .. n : x = conv[i] BY <1>1, <1>2 DEF Said
<1>6. \A i \in 1 .. n : conv[i] \in msgs BY <1>1, <1>2 DEF Said
<1>7. ASSUME NEW k \in 1 .. n
      PROVE  Cardinality({y \in msgs : Earlier(y, conv[k])}) = k - 1
  <2>1. \A j \in 1 .. n : Earlier(conv[j], conv[k]) <=> j < k BY <1>4, EarlierPlace
  <2>2. k - 1 \in 0 .. n /\ \A j : j \in 1 .. k - 1 <=> j \in 1 .. n /\ j < k OBVIOUS
  <2>3. {y \in msgs : Earlier(y, conv[k])} \subseteq {conv[j] : j \in 1 .. k - 1}
    BY <1>5, <2>1, <2>2
  <2>4. {conv[j] : j \in 1 .. k - 1} \subseteq {y \in msgs : Earlier(y, conv[k])}
    BY <1>6, <2>1, <2>2
  <2> QED BY <1>1, <2>2, <2>3, <2>4, Prefix
<1>8. ASSUME NEW i \in 1 .. n
      PROVE  conv[i] = CHOOSE x \in msgs : Cardinality({y \in msgs : Earlier(y, x)}) = i - 1
  <2>1. conv[i] \in msgs /\ Cardinality({y \in msgs : Earlier(y, conv[i])}) = i - 1
    BY <1>6, <1>7
  <2>2. ASSUME NEW x \in msgs, Cardinality({y \in msgs : Earlier(y, x)}) = i - 1
        PROVE  x = conv[i]
    <3>1. PICK k \in 1 .. n : x = conv[k] BY <1>5
    <3>2. k - 1 = i - 1 BY <1>7, <2>2, <3>1
    <3>3. k = i BY <3>2
    <3> QED BY <3>1, <3>3
  <2> QED BY <2>1, <2>2
<1>9. conv = [i \in 1 .. n |-> conv[i]] BY <1>1
<1> QED BY <1>2, <1>3, <1>8, <1>9 DEF Rows

LEMMA EvenOdd ==
  ASSUME NEW a \in Nat, NEW k \in Nat
  PROVE  2 * a + 1 # 2 * k + 2 /\ (2 * a + 2 = 2 * k + 2 => a = k)
OBVIOUS

\* What the row and the messages tell together.
LEMMA Told ==
  ASSUME NEW e \in Loop, NEW row \in Row, NEW msgs \in SUBSET Message, Truthful(e, row, msgs)
  PROVE  /\ {x.turn : x \in {y \in msgs : y.role = "assistant"}} = 0 .. row.turns - 1
         /\ {x.turn : x \in {y \in msgs : y.role = "persona"}}
              \in {0 .. row.turns - 1, 0 .. row.turns}
         /\ row.turns <= e.test.maxTurns
         /\ \A x \in {z \in msgs : z.stop}, y \in msgs :
              y.turn < x.turn
                \/ (y.turn = x.turn /\ (y.role = "persona" \/ x.role = "assistant"))
         /\ (row.status = "completed" => {z \in msgs : z.stop} # {} \/ row.turns = e.test.maxTurns)
         /\ (row.status = "none" => msgs = {})
<1>1. PICK conv : conv = e.conv OBVIOUS
<1>2. PICK t \in Nat : t = e.turn /\ row.turns = t BY LoopTyped DEF Truthful
<1>3. PICK n \in Nat : n = Len(conv) /\ n \in {2 * t, 2 * t + 1}
  BY <1>1, <1>2, LoopTyped DEF Truthful
<1>4. /\ conv \in Seq(Message) /\ msgs = {conv[i] : i \in 1 .. n}
      /\ \A i \in 1 .. n : Place(conv[i]) = i /\ (conv[i].stop => i = n)
  BY <1>1, <1>3, LoopTyped DEF Truthful, Spoken
<1>5. \A x \in msgs : /\ x.turn \in Nat /\ x.role \in {"persona", "assistant"}
                      /\ Place(x) \in 1 .. n /\ (x.stop => Place(x) = n)
  <2>1. \A x \in msgs : x.turn \in Nat /\ x.role \in {"persona", "assistant"} BY DEF Message
  <2> QED BY <1>4, <2>1
<1>6. \A i \in 1 .. n : conv[i] \in msgs /\ Place(conv[i]) = i BY <1>4
<1>7. \A x \in msgs : Place(x) = 2 * x.turn + IF x.role = "persona" THEN 1 ELSE 2 BY DEF Place
<1>8. {x.turn : x \in {y \in msgs : y.role = "assistant"}} = 0 .. t - 1
  <2>1. ASSUME NEW x \in msgs, x.role = "assistant" PROVE x.turn \in 0 .. t - 1
    <3>1. x.turn \in Nat /\ 2 * x.turn + 2 \in 1 .. n BY <1>5, <1>7, <2>1
    <3> QED BY <1>3, <3>1
  <2>2. ASSUME NEW k \in 0 .. t - 1
        PROVE  \E x \in msgs : x.role = "assistant" /\ x.turn = k
    <3>1. k \in Nat /\ 2 * k + 2 \in 1 .. n BY <1>3
    <3>2. PICK x \in msgs : Place(x) = 2 * k + 2 BY <1>6, <3>1
    <3>3. x.turn \in Nat /\ x.role \in {"persona", "assistant"} BY <1>5
    <3>4. PICK a \in Nat : a = x.turn BY <3>3
    <3>5. x.role # "persona" => 2 * a + 2 = 2 * k + 2 BY <1>7, <3>2, <3>4
    <3>6. x.role = "persona" => 2 * a + 1 = 2 * k + 2 BY <1>7, <3>2, <3>4
    <3>7. 2 * a + 1 # 2 * k + 2 /\ (2 * a + 2 = 2 * k + 2 => a = k) BY <3>1, EvenOdd
    <3> QED BY <3>3, <3>4, <3>5, <3>6, <3>7
  <2> QED BY <2>1, <2>2
<1>9. {x.turn : x \in {y \in msgs : y.role = "persona"}} = 0 .. (n - t - 1)
  <2>1. ASSUME NEW x \in msgs, x.role = "persona" PROVE x.turn \in 0 .. (n - t - 1)
    <3>1. x.turn \in Nat /\ 2 * x.turn + 1 \in 1 .. n BY <1>5, <1>7, <2>1
    <3> QED BY <1>3, <3>1
  <2>2. ASSUME NEW k \in 0 .. (n - t - 1)
        PROVE  \E x \in msgs : x.role = "persona" /\ x.turn = k
    <3>1. k \in Nat /\ 2 * k + 1 \in 1 .. n BY <1>3
    <3>2. PICK x \in msgs : Place(x) = 2 * k + 1 BY <1>6, <3>1
    <3>3. x.turn \in Nat /\ x.role \in {"persona", "assistant"} BY <1>5
    <3>4. 2 * x.turn + (IF x.role = "persona" THEN 1 ELSE 2) = 2 * k + 1 BY <1>7, <3>2
    <3> QED BY <3>1, <3>3, <3>4
  <2> QED BY <2>1, <2>2
<1>10. n - t - 1 = t - 1 \/ n - t - 1 = t BY <1>3
<1>11. ASSUME NEW x \in msgs, x.stop, NEW y \in msgs
       PROVE  y.turn < x.turn \/ (y.turn = x.turn /\ (y.role = "persona" \/ x.role = "assistant"))
  <2>1. /\ x.turn \in Nat /\ y.turn \in Nat /\ x.role \in {"persona", "assistant"}
        /\ y.role \in {"persona", "assistant"} /\ Place(x) = n /\ Place(y) \in 1 .. n
    BY <1>5, <1>11
  <2>2. /\ 2 * x.turn + (IF x.role = "persona" THEN 1 ELSE 2) = n
        /\ 2 * y.turn + (IF y.role = "persona" THEN 1 ELSE 2) <= n
    BY <1>7, <2>1
  <2> QED BY <2>1, <2>2
<1>12. row.status = "completed" => {z \in msgs : z.stop} # {} \/ row.turns = e.test.maxTurns
  BY <1>1, <1>2, <1>3, <1>4 DEF Truthful, Stopped
<1>13. row.status = "none" => msgs = {}
  <2>1. SUFFICES ASSUME row.status = "none" PROVE msgs = {} OBVIOUS
  <2>2. e = Unspawned BY <2>1 DEF Truthful
  <2>3. n = 0 BY <1>1, <1>3, <2>2 DEF Unspawned
  <2> QED BY <1>4, <2>3
<1>14. row.turns <= e.test.maxTurns BY DEF Truthful
<1> QED BY <1>2, <1>8, <1>9, <1>10, <1>11, <1>12, <1>13, <1>14

LEMMA RunsSound == EvaluationTypes /\ RunIInv => RunsTruthful
<1> SUFFICES ASSUME EvaluationTypes, RunIInv PROVE RunsTruthful OBVIOUS
<1>1. ASSUME NEW r \in Runs
      PROVE  /\ task[r] \in Loop /\ run[r] \in Row /\ messages[r] \in SUBSET Message
             /\ Truthful(task[r], run[r], messages[r])
  BY DEF EvaluationTypes, RunIInv
<1>2. RunTruthful BY <1>1, Told DEF RunTruthful
<1>3. TranscriptInOrder
  <2> SUFFICES ASSUME NEW r \in Runs PROVE task[r].conv = Transcript(r) BY DEF TranscriptInOrder
  <2>1. PICK conv : conv = task[r].conv OBVIOUS
  <2>2. PICK msgs : msgs = messages[r] OBVIOUS
  <2>3. conv \in Seq(Message) /\ Spoken(conv) /\ msgs = {conv[i] : i \in 1 .. Len(conv)}
    BY <1>1, <2>1, <2>2, LoopTyped DEF Truthful
  <2>4. conv = Rows(msgs)
    <3>1. msgs = Said(conv) BY <2>3 DEF Said
    <3> QED BY <2>3, <3>1, Sorted
  <2>5. Transcript(r) = Rows(msgs) BY <2>2 DEF Transcript, Rows, Earlier, Count
  <2> QED BY <2>1, <2>4, <2>5
<1> QED BY <1>2, <1>3 DEF RunsTruthful

\* The run page tells what happened (record_assistant_turn, messages_for_run):
\* turns and messages agree, nothing follows a stop marker, a completed run
\* reached its end and the rows sort into the conversation that was had.
THEOREM TruthfulRuns == EvaluationSpec => []RunsTruthful
<1>1. ScoreIInv => EvaluationTypes BY DEF ScoreIInv
<1> QED
  BY <1>1, ScoreStarts, ScoreStep, RunsStart, RunsStep, RunsSound, PTL DEF EvaluationSpec

-----------------------------------------------------------------------------
(***************************************************************************)
(* Routing, for any experiment, any number of arms and any resolution of   *)
(* the hash.  The argument: a reply keeps the agent it was routed to, and  *)
(* the routes under a shadow or a sticky split depend on the experiment    *)
(* and the user alone; an arm is picked by exactly the seeds between the   *)
(* cumulative weights, or by its rank, or because no mean before or after  *)
(* it is higher.                                                           *)
(***************************************************************************)

\* A set of naturals has a least one.
LEMMA Least ==
  ASSUME NEW N \in SUBSET Nat, N # {}
  PROVE  \E n \in N : \A m \in N : n <= m
<1> DEFINE R == OpToRel(<, Nat)
<1>1. IsWellFoundedOn(R, Nat) BY NatLessThanWellFounded
<1>2. R = {p \in Nat \X Nat : p[1] < p[2]} BY DEF OpToRel
<1> HIDE DEF R
<1>3. PICK n \in N : \A m \in N : <<m, n>> \notin R BY <1>1, WFMin
<1>4. ASSUME NEW m \in N PROVE n <= m
  <2>1. <<m, n>> \in Nat \X Nat OBVIOUS
  <2> QED BY <1>2, <1>3, <2>1
<1> QED BY <1>3, <1>4

\* The next value of a recursion over 0 .. n.
NextOf(base, step, g, k) == IF k = 0 THEN base ELSE step[<<k, g[k - 1]>>]

Solvable(V, n, base, step) ==
  \E g \in [0 .. n -> V] : \A k \in 0 .. n : g[k] = NextOf(base, step, g, k)

\* A recursion over naturals has a solution, and its values are of its type.
LEMMA Recursion ==
  ASSUME NEW V, NEW n \in Nat, NEW base \in V, NEW step \in [(1 .. n) \X V -> V]
  PROVE  Solvable(V, n, base, step)
<1> DEFINE Fine(m, g) == /\ g \in [0 .. n -> V]
                         /\ \A k \in 0 .. n : k <= m => g[k] = NextOf(base, step, g, k)
           Bad == {m \in Nat : \A g : ~Fine(m, g)}
<1>1. Bad = {}
  <2> SUFFICES ASSUME Bad # {} PROVE FALSE OBVIOUS
  <2>1. PICK m \in Bad : \A l \in Bad : m <= l
    <3>1. Bad \in SUBSET Nat OBVIOUS
    <3> HIDE DEF Bad
    <3> QED BY <3>1, Least
  <2>2. m \in Nat /\ (m = 0 \/ (m - 1 \in Nat /\ \E g : Fine(m - 1, g)))
    <3> HIDE DEF Fine
    <3>1. m \in Nat OBVIOUS
    <3>2. m = 0 \/ (m - 1 \in Nat /\ ~(m <= m - 1)) BY <3>1
    <3>3. m - 1 \notin Bad \/ m <= m - 1 BY <2>1
    <3> QED BY <3>1, <3>2, <3>3
  <2>3. CASE m = 0
    <3> DEFINE g == [k \in 0 .. n |-> base]
    <3>1. Fine(0, g) BY DEF NextOf
    <3> QED BY <2>3, <3>1
  <2>4. CASE m # 0
    <3>1. PICK g : Fine(m - 1, g) BY <2>2, <2>4
    <3> DEFINE h == [k \in 0 .. n |-> NextOf(base, step, g, k)]
    <3>2. ASSUME NEW k \in 0 .. n PROVE NextOf(base, step, g, k) \in V
      <4>1. CASE k = 0 BY <4>1 DEF NextOf
      <4>2. CASE k # 0
        <5>1. k - 1 \in 0 .. n /\ k \in 1 .. n BY <3>2, <4>2
        <5>2. <<k, g[k - 1]>> \in (1 .. n) \X V BY <3>1, <5>1
        <5>3. step[<<k, g[k - 1]>>] \in V BY <5>2
        <5> QED BY <4>2, <5>3 DEF NextOf
      <4> QED BY <4>1, <4>2
    <3>3. h \in [0 .. n -> V] BY <3>2
    <3>4. ASSUME NEW k \in 0 .. n, k <= m PROVE h[k] = NextOf(base, step, h, k)
      <4>1. CASE k = 0 BY <4>1 DEF NextOf
      <4>2. CASE k # 0
        <5>1. k - 1 \in 0 .. n /\ k - 1 <= m - 1 BY <2>2, <3>4, <4>2
        <5>2. g[k - 1] = h[k - 1] BY <3>1, <5>1
        <5> QED BY <3>4, <4>2, <5>2 DEF NextOf
      <4> QED BY <4>1, <4>2
    <3>5. Fine(m, h) BY <3>3, <3>4
    <3> QED BY <3>5
  <2> QED BY <2>3, <2>4
<1>2. PICK g : Fine(n, g) BY <1>1
<1> QED BY <1>2 DEF Solvable

Alike(n, f, g) ==
  f[0] = g[0] /\ \A k \in 1 .. n : f[k - 1] = g[k - 1] => f[k] = g[k]

\* Two functions that recur alike are alike.
LEMMA Recurs ==
  ASSUME NEW n \in Nat, NEW f, NEW g, Alike(n, f, g)
  PROVE  \A k \in 0 .. n : f[k] = g[k]
<1> USE DEF Alike
<1> DEFINE Bad == {k \in 0 .. n : f[k] # g[k]}
<1>1. Bad = {}
  <2> SUFFICES ASSUME Bad # {} PROVE FALSE OBVIOUS
  <2>1. PICK k \in Bad : \A m \in Bad : k <= m
    <3>1. Bad \in SUBSET Nat OBVIOUS
    <3> HIDE DEF Bad
    <3> QED BY <3>1, Least
  <2>2. k # 0 BY <2>1
  <2>3. k \in 1 .. n /\ k - 1 \in 0 .. n /\ k - 1 \notin Bad BY <2>1, <2>2
  <2> QED BY <2>1, <2>3
<1> QED BY <1>1

Onward(n, Good) == 0 \in Good /\ \A k \in 1 .. n : k - 1 \in Good => k \in Good

\* What holds at 0 and passes from each place to the next holds everywhere.
LEMMA Everywhere ==
  ASSUME NEW n \in Nat, NEW Good, Onward(n, Good)
  PROVE  \A k \in 0 .. n : k \in Good
<1> USE DEF Onward
<1> DEFINE Bad == {k \in 0 .. n : k \notin Good}
<1>1. Bad = {}
  <2> SUFFICES ASSUME Bad # {} PROVE FALSE OBVIOUS
  <2>1. PICK k \in Bad : \A m \in Bad : k <= m
    <3>1. Bad \in SUBSET Nat OBVIOUS
    <3> HIDE DEF Bad
    <3> QED BY <3>1, Least
  <2>2. k # 0 BY <2>1
  <2>3. k \in 1 .. n /\ k - 1 \in 0 .. n /\ k - 1 \notin Bad BY <2>1, <2>2
  <2> QED BY <2>1, <2>3
<1> QED BY <1>1

\* The rank of a number in a finite set: how many are smaller.
Rank(S, i) == Cardinality({j \in S : j < i})

LEMMA RankLess ==
  ASSUME NEW S \in SUBSET Nat, IsFiniteSet(S), NEW i \in S, NEW j \in S, i < j
  PROVE  Rank(S, i) < Rank(S, j)
<1> DEFINE A == {l \in S : l < i}
           B == {l \in S : l < j}
<1>1. IsFiniteSet(B)
  <2>1. B \in SUBSET S OBVIOUS
  <2> HIDE DEF B
  <2> QED BY <2>1, FS_Subset
<1>2. A \in SUBSET B /\ A # B
  <2>1. \A l \in S : l < i => l < j OBVIOUS
  <2>2. i \in B /\ i \notin A OBVIOUS
  <2> QED BY <2>1, <2>2
<1> HIDE DEF A, B
<1>3. /\ IsFiniteSet(A) /\ Cardinality(A) <= Cardinality(B)
      /\ Cardinality(B) = Cardinality(A) => B = A
  BY <1>1, <1>2, FS_Subset
<1>4. Cardinality(A) \in Nat /\ Cardinality(B) \in Nat BY <1>1, <1>3, FS_CardinalityType
<1>5. Cardinality(A) < Cardinality(B) BY <1>2, <1>3, <1>4
<1> QED BY <1>5 DEF A, B, Rank

\* Every rank below the size is one number's.
LEMMA RankTaken ==
  ASSUME NEW S \in SUBSET Nat, IsFiniteSet(S)
  PROVE  /\ \A i \in S : Rank(S, i) \in 0 .. Cardinality(S) - 1
         /\ \A k \in 0 .. Cardinality(S) - 1 : \E i \in S : Rank(S, i) = k
         /\ \A i, j \in S : Rank(S, i) = Rank(S, j) => i = j
<1> DEFINE P == 0 .. Cardinality(S) - 1
           f == [i \in S |-> Rank(S, i)]
<1>1. Cardinality(S) \in Nat BY FS_CardinalityType
<1>2. IsFiniteSet(P) /\ Cardinality(P) = Cardinality(S)
  <2>1. Cardinality(S) - 1 \in Int /\ 0 \in Int BY <1>1
  <2>2. IsFiniteSet(P)
        /\ Cardinality(P) = IF 0 > Cardinality(S) - 1 THEN 0 ELSE (Cardinality(S) - 1) - 0 + 1
    BY <2>1, FS_Interval
  <2> QED BY <1>1, <2>2
<1>3. ASSUME NEW i \in S PROVE Rank(S, i) \in P
  <2> DEFINE A == {j \in S : j < i}
  <2>1. A \in SUBSET S /\ A # S OBVIOUS
  <2>2. Rank(S, i) = Cardinality(A) BY DEF Rank
  <2> HIDE DEF A
  <2>3. /\ IsFiniteSet(A) /\ Cardinality(A) <= Cardinality(S)
        /\ Cardinality(S) = Cardinality(A) => S = A
    BY <2>1, FS_Subset
  <2>4. Cardinality(A) \in Nat BY <2>3, FS_CardinalityType
  <2> QED BY <1>1, <2>1, <2>2, <2>3, <2>4
<1>4. ASSUME NEW i \in S, NEW j \in S, Rank(S, i) = Rank(S, j) PROVE i = j
  <2> SUFFICES ASSUME i # j PROVE FALSE OBVIOUS
  <2>1. i < j \/ j < i OBVIOUS
  <2>2. Rank(S, i) < Rank(S, j) \/ Rank(S, j) < Rank(S, i) BY <2>1, RankLess
  <2>3. Rank(S, i) \in Nat /\ Rank(S, j) \in Nat BY <1>1, <1>3
  <2> QED BY <1>4, <2>2, <2>3
<1>5. f \in [S -> P] BY <1>3
<1>6. f \in Injection(S, P) BY <1>4, <1>5 DEF Injection, IsInjective
<1> HIDE DEF f, P
<1>7. f \in Surjection(S, P) BY <1>1, <1>2, <1>6, FS_Injection
<1>8. \A x \in P : \E i \in S : f[i] = x BY <1>7 DEF Surjection
<1>9. \A x \in P : \E i \in S : Rank(S, i) = x BY <1>8 DEF f
<1> QED BY <1>3, <1>4, <1>9 DEF P

\* A uniform pick is an arm, and each arm is that of some seed below the number
\* of arms.
LEMMA UniformPicks ==
  ASSUME NEW S \in SUBSET Nat, IsFiniteSet(S), S # {}
  PROVE  /\ \A seed \in Nat : UniformPick(S, seed) \in S
         /\ \A i \in S : \E seed \in 0 .. Cardinality(S) - 1 : UniformPick(S, seed) = i
<1>1. Cardinality(S) \in Nat /\ Cardinality(S) # 0 BY FS_CardinalityType, FS_EmptySet
<1>2. \A seed : UniformPick(S, seed) = CHOOSE i \in S : Rank(S, i) = seed % Cardinality(S)
  BY DEF UniformPick, Rank
<1>3. ASSUME NEW seed \in Nat
      PROVE  UniformPick(S, seed) \in S /\ Rank(S, UniformPick(S, seed)) = seed % Cardinality(S)
  <2>1. seed % Cardinality(S) \in 0 .. Cardinality(S) - 1 BY <1>1
  <2>2. \E i \in S : Rank(S, i) = seed % Cardinality(S) BY <2>1, RankTaken
  <2> QED BY <1>2, <2>2
<1>4. ASSUME NEW i \in S
      PROVE  \E seed \in 0 .. Cardinality(S) - 1 : UniformPick(S, seed) = i
  <2>1. PICK seed \in 0 .. Cardinality(S) - 1 : seed = Rank(S, i) BY RankTaken
  <2>2. seed \in Nat /\ seed % Cardinality(S) = seed BY <1>1
  <2>3. UniformPick(S, seed) \in S /\ Rank(S, UniformPick(S, seed)) = Rank(S, i)
    BY <1>3, <2>1, <2>2
  <2>4. \A x, y \in S : Rank(S, x) = Rank(S, y) => x = y BY RankTaken
  <2>5. UniformPick(S, seed) = i BY <2>3, <2>4
  <2> QED BY <2>5
<1> QED BY <1>3, <1>4

\* What config load accepts has arms of positive weight, each an agent.
LEMMA ArmsTyped ==
  ASSUME EvaluationTypes
  PROVE  /\ exp \in ExperimentConfig /\ Len(exp.variants) \in Nat
         /\ DOMAIN exp.variants = 1 .. Len(exp.variants) /\ Len(exp.variants) <= Scale
         /\ \A i \in DOMAIN exp.variants :
              exp.variants[i].agent \in Agents /\ exp.variants[i].weight \in Int
         /\ exp.variants # << >> => Len(exp.variants) # 0
<1>1. exp \in Configs /\ exp \in ExperimentConfig /\ Len(exp.variants) <= Scale
  BY EvaluationAssumption DEF EvaluationTypes
<1>2. exp.variants \in Seq([agent : Agents, weight : Int]) BY <1>1 DEF ExperimentConfig
<1>3. PICK list : list = exp.variants OBVIOUS
<1>4. \A i \in 1 .. Len(list) : list[i] \in [agent : Agents, weight : Int]
  <2>1. \A S : list \in Seq(S) => \A i \in 1 .. Len(list) : list[i] \in S OBVIOUS
  <2> QED BY <1>2, <1>3, <2>1
<1>5. Len(list) \in Nat /\ DOMAIN list = 1 .. Len(list) /\ (list # << >> => Len(list) # 0)
  BY <1>2, <1>3
<1> QED BY <1>1, <1>3, <1>4, <1>5

\* The walk of weighted_pick adds up the weights.
LEMMA CumulativeFacts ==
  ASSUME EvaluationTypes
  PROVE  /\ Cumulative(exp)[0] = 0
         /\ \A i \in 0 .. Len(exp.variants) : Cumulative(exp)[i] \in Int
         /\ \A i \in 1 .. Len(exp.variants) :
              Cumulative(exp)[i] = Cumulative(exp)[i - 1] + exp.variants[i].weight
<1>1. PICK n, w : n = Len(exp.variants) /\ w = [i \in 1 .. n |-> exp.variants[i].weight] OBVIOUS
<1>2. n \in Nat /\ \A i \in 1 .. n : w[i] \in Int /\ w[i] = exp.variants[i].weight
  BY <1>1, ArmsTyped
<1> DEFINE step == [p \in (1 .. n) \X Int |-> p[2] + w[p[1]]]
<1>3. step \in [(1 .. n) \X Int -> Int]
  <2>1. \A p \in (1 .. n) \X Int : p[1] \in 1 .. n /\ p[2] \in Int OBVIOUS
  <2> QED BY <1>2, <2>1
<1>4. \A k \in 1 .. n, x \in Int : step[<<k, x>>] = x + w[k] OBVIOUS
<1> HIDE DEF step
<1>5. PICK g \in [0 .. n -> Int] : \A k \in 0 .. n : g[k] = NextOf(0, step, g, k)
  <2>1. n \in Nat /\ 0 \in Int BY <1>2
  <2>2. \A h \in [(1 .. n) \X Int -> Int] : Solvable(Int, n, 0, h) BY <2>1, Recursion
  <2>3. Solvable(Int, n, 0, step) BY <1>3, <2>2
  <2> QED BY <2>3 DEF Solvable
<1>6. \A k \in 0 .. n : g[k] = IF k = 0 THEN 0 ELSE g[k - 1] + w[k]
  <2> SUFFICES ASSUME NEW k \in 0 .. n PROVE g[k] = IF k = 0 THEN 0 ELSE g[k - 1] + w[k] OBVIOUS
  <2>1. CASE k = 0 BY <1>5, <2>1 DEF NextOf
  <2>2. CASE k # 0
    <3>1. k \in 1 .. n /\ k - 1 \in 0 .. n BY <1>2, <2>2
    <3>2. g[k - 1] \in Int BY <1>5, <3>1
    <3>3. step[<<k, g[k - 1]>>] = g[k - 1] + w[k] BY <1>4, <3>1, <3>2
    <3> QED BY <1>5, <2>2, <3>3 DEF NextOf
  <2> QED BY <2>1, <2>2
<1> DEFINE Value(h, k) == IF k = 0 THEN 0 ELSE h[k - 1] + exp.variants[k].weight
           acc == CHOOSE h : h = [k \in 0 .. n |-> Value(h, k)]
<1>7. g = [k \in 0 .. n |-> Value(g, k)]
  <2>1. \A k \in 0 .. n : g[k] = Value(g, k)
    <3>1. \A k \in 0 .. n : k # 0 => k \in 1 .. n BY <1>2
    <3> QED BY <1>2, <1>6, <3>1
  <2> HIDE DEF Value
  <2>2. g = [k \in 0 .. n |-> g[k]] BY <1>5
  <2>3. [k \in 0 .. n |-> g[k]] = [k \in 0 .. n |-> Value(g, k)] BY <2>1
  <2> QED BY <2>2, <2>3
<1>8. Cumulative(exp) = acc BY <1>1 DEF Cumulative
<1>9. acc = [k \in 0 .. n |-> Value(acc, k)]
  <2> HIDE DEF Value
  <2> QED BY <1>7
<1> HIDE DEF acc
<1>10. acc[0] = 0 BY <1>2, <1>9
<1>11. \A k \in 1 .. n : acc[k] = acc[k - 1] + w[k]
  <2> SUFFICES ASSUME NEW k \in 1 .. n PROVE acc[k] = acc[k - 1] + w[k] OBVIOUS
  <2>1. k \in 0 .. n /\ k # 0 BY <1>2
  <2>2. acc[k] = Value(acc, k) BY <1>9, <2>1
  <2> QED BY <1>2, <2>1, <2>2
<1> HIDE DEF Value
<1>12. \A k \in 0 .. n : acc[k] = g[k]
  <2>1. g[0] = 0 /\ \A k \in 1 .. n : g[k] = g[k - 1] + w[k]
    <3>1. \A k \in 1 .. n : k \in 0 .. n /\ k # 0 BY <1>2
    <3>2. 0 \in 0 .. n BY <1>2
    <3> QED BY <1>6, <3>1, <3>2
  <2>2. acc[0] = g[0] BY <1>10, <2>1
  <2>3. \A k \in 1 .. n : acc[k - 1] = g[k - 1] => acc[k] = g[k] BY <1>11, <2>1
  <2>4. Alike(n, acc, g) BY <2>2, <2>3 DEF Alike
  <2> QED BY <1>2, <2>4, Recurs
<1>13. \A k \in 0 .. n : acc[k] \in Int BY <1>5, <1>12
<1> QED BY <1>1, <1>2, <1>8, <1>10, <1>11, <1>13

\* A sum of positive weights climbs.
LEMMA Climbs ==
  ASSUME NEW n \in Nat, NEW acc, \A i \in 0 .. n : acc[i] \in Int,
         \A k \in 1 .. n : acc[k - 1] < acc[k]
  PROVE  \A i, j \in 0 .. n : i < j => acc[i] < acc[j]
<1> SUFFICES ASSUME NEW i \in 0 .. n PROVE \A j \in 0 .. n : i < j => acc[i] < acc[j] OBVIOUS
<1> DEFINE Good == {j \in 0 .. n : i < j => acc[i] < acc[j]}
<1>1. 0 \in Good OBVIOUS
<1>2. ASSUME NEW k \in 1 .. n, k - 1 \in Good PROVE k \in Good
  <2>1. k \in 0 .. n /\ k - 1 \in 0 .. n /\ acc[k - 1] < acc[k] OBVIOUS
  <2>2. i < k => i = k - 1 \/ i < k - 1 OBVIOUS
  <2>3. acc[i] \in Int /\ acc[k] \in Int /\ acc[k - 1] \in Int BY <2>1
  <2>4. i < k => acc[i] < acc[k] BY <1>2, <2>1, <2>2, <2>3
  <2> QED BY <2>1, <2>4
<1> HIDE DEF Good
<1>3. Onward(n, Good) BY <1>1, <1>2 DEF Onward
<1>4. \A k \in 0 .. n : k \in Good BY <1>3, Everywhere
<1> QED BY <1>4 DEF Good

\* The first of the multiples of total that reaches a height.
Notch(m, total, height) ==
  /\ height <= m * total /\ m * total < height + total
  /\ \A s \in Nat : s * total < height <=> s < m

LEMMA NotchExists ==
  ASSUME NEW total \in Nat, total > 0, NEW height \in Nat, height <= total * Scale
  PROVE  \E m \in 0 .. Scale : Notch(m, total, height)
<1> DEFINE N == {m \in Nat : height <= m * total}
<1>1. Scale \in Nat BY ExperimentsAssumption
<1>2. Scale \in N BY <1>1
<1>3. PICK m \in N : \A l \in N : m <= l
  <2>1. N \in SUBSET Nat /\ N # {} BY <1>2
  <2> HIDE DEF N
  <2> QED BY <2>1, Least
<1>4. m \in 0 .. Scale BY <1>1, <1>2, <1>3
<1>5. m * total < height + total
  <2>1. CASE m = 0 BY <2>1
  <2>2. CASE m # 0
    <3>1. m - 1 \in Nat /\ ~(m <= m - 1) BY <1>4, <2>2
    <3>2. m - 1 \notin N BY <1>3, <3>1
    <3>3. (m - 1) * total < height BY <3>1, <3>2
    <3>4. (m - 1) * total = m * total - total BY <1>4
    <3>5. m * total \in Int BY <1>4
    <3> QED BY <3>3, <3>4, <3>5
  <2> QED BY <2>1, <2>2
<1>6. ASSUME NEW s \in Nat PROVE s * total < height <=> s < m
  <2>1. CASE s < m
    <3>1. s \notin N BY <1>3, <2>1
    <3>2. s * total \in Int OBVIOUS
    <3> QED BY <2>1, <3>1, <3>2
  <2>2. CASE ~(s < m)
    <3>1. m * total <= s * total
      <4>1. s - m \in Nat BY <1>4, <2>2
      <4>2. (s - m) * total \in Nat BY <4>1
      <4>3. (s - m) * total = s * total - m * total BY <1>4
      <4> QED BY <1>4, <4>2, <4>3
    <3>2. height <= m * total BY <1>3
    <3>3. m * total \in Int /\ s * total \in Int BY <1>4
    <3> QED BY <2>2, <3>1, <3>2, <3>3
  <2> QED BY <2>1, <2>2
<1>7. height <= m * total BY <1>3
<1> QED BY <1>4, <1>5, <1>6, <1>7 DEF Notch

\* The seeds between two notches, times the total, are the height between
\* them up to less than a total.
LEMMA Between ==
  ASSUME NEW total \in Nat, total > 0, NEW low \in Nat, NEW high \in Nat,
         low <= high, NEW m \in Nat, NEW l \in Nat,
         Notch(l, total, low), Notch(m, total, high)
  PROVE  LET given == Cardinality(l .. m - 1) * total
         IN  high - low - total < given /\ given < high - low + total
<1>1. l <= m
  <2> SUFFICES ASSUME m < l PROVE FALSE OBVIOUS
  <2>1. m * total < low BY DEF Notch
  <2>2. high <= m * total BY DEF Notch
  <2>3. m * total \in Int OBVIOUS
  <2> QED BY <2>1, <2>2, <2>3
<1>2. Cardinality(l .. m - 1) = m - l
  <2>1. l \in Int /\ m - 1 \in Int OBVIOUS
  <2>2. Cardinality(l .. m - 1) = IF l > m - 1 THEN 0 ELSE (m - 1) - l + 1 BY <2>1, FS_Interval
  <2> QED BY <1>1, <2>2
<1>3. (m - l) * total = m * total - l * total OBVIOUS
<1>4. m * total \in Int /\ l * total \in Int OBVIOUS
<1>5. /\ low <= l * total /\ l * total < low + total
      /\ high <= m * total /\ m * total < high + total
  BY DEF Notch
<1>6. /\ high - low - total < m * total - l * total
      /\ m * total - l * total < high - low + total
  BY <1>4, <1>5
<1> QED BY <1>2, <1>3, <1>6

\* Which seeds weighted_pick gives an arm: those whose height is above the
\* weights before it and below its own.
LEMMA PickedBetween ==
  ASSUME NEW n \in Nat, n # 0, NEW acc, \A k \in 0 .. n : acc[k] \in Int,
         \A k, l \in 0 .. n : k < l => acc[k] < acc[l],
         NEW i \in 1 .. n, NEW s \in 0 .. Scale - 1, acc[0] = 0
  PROVE  LET hit == {k \in 1 .. n : s * acc[n] < acc[k] * Scale}
             pick == IF hit = {} THEN n ELSE CHOOSE k \in hit : \A l \in hit : k <= l
         IN  pick = i <=> (~(s * acc[n] < acc[i - 1] * Scale) /\ s * acc[n] < acc[i] * Scale)
<1> DEFINE hit == {k \in 1 .. n : s * acc[n] < acc[k] * Scale}
           pick == CHOOSE k \in hit : \A l \in hit : k <= l
<1>1. Scale \in Nat /\ s \in Nat /\ s < Scale BY ExperimentsAssumption
<1>2. n \in hit
  <2>1. n \in 1 .. n /\ acc[n] \in Int /\ acc[0] < acc[n] OBVIOUS
  <2>2. Scale - s \in Nat /\ Scale - s > 0 BY <1>1
  <2>3. (Scale - s) * acc[n] > 0 BY <2>1, <2>2
  <2>4. (Scale - s) * acc[n] = acc[n] * Scale - s * acc[n] BY <1>1, <2>1
  <2>5. acc[n] * Scale \in Int /\ s * acc[n] \in Int BY <1>1, <2>1
  <2>6. s * acc[n] < acc[n] * Scale BY <2>3, <2>4, <2>5
  <2> QED BY <2>1, <2>6
<1>3. pick \in hit /\ \A l \in hit : pick <= l
  <2>1. \E k \in hit : \A l \in hit : k <= l
    <3>1. hit \in SUBSET Nat /\ hit # {} BY <1>2
    <3> HIDE DEF hit
    <3> QED BY <3>1, Least
  <2> QED BY <2>1
<1>4. ASSUME NEW k \in 0 .. n, NEW l \in 0 .. n, k <= l, s * acc[n] < acc[k] * Scale
      PROVE  s * acc[n] < acc[l] * Scale
  <2>1. acc[k] \in Int /\ acc[l] \in Int /\ acc[n] \in Int /\ acc[k] <= acc[l] BY <1>4
  <2>2. (acc[l] - acc[k]) * Scale >= 0 BY <1>1, <2>1
  <2>3. (acc[l] - acc[k]) * Scale = acc[l] * Scale - acc[k] * Scale BY <1>1, <2>1
  <2>4. acc[l] * Scale \in Int /\ acc[k] * Scale \in Int /\ s * acc[n] \in Int BY <1>1, <2>1
  <2> QED BY <1>4, <2>2, <2>3, <2>4
<1>5. 0 \notin hit /\ ~(s * acc[n] < acc[0] * Scale)
  <2>1. acc[n] \in Int /\ acc[0] < acc[n] OBVIOUS
  <2>2. s * acc[n] >= 0 BY <1>1, <2>1
  <2>3. acc[0] * Scale = 0 BY <1>1
  <2>4. s * acc[n] \in Int BY <1>1, <2>1
  <2> QED BY <2>2, <2>3, <2>4
<1>6. ASSUME pick = i
      PROVE  ~(s * acc[n] < acc[i - 1] * Scale) /\ s * acc[n] < acc[i] * Scale
  <2>1. i \in hit /\ i - 1 \notin hit
    <3>1. i \in hit /\ \A l \in hit : i <= l BY <1>3, <1>6
    <3>2. ~(i <= i - 1) OBVIOUS
    <3> QED BY <3>1, <3>2
  <2>2. i - 1 = 0 \/ i - 1 \in 1 .. n OBVIOUS
  <2> QED BY <1>5, <2>1, <2>2
<1>7. ASSUME ~(s * acc[n] < acc[i - 1] * Scale), s * acc[n] < acc[i] * Scale PROVE pick = i
  <2>1. i \in hit BY <1>7
  <2>2. pick <= i /\ pick \in 1 .. n /\ s * acc[n] < acc[pick] * Scale BY <1>3, <2>1
  <2>3. ~(pick < i)
    <3> HIDE DEF pick, hit
    <3> SUFFICES ASSUME pick < i PROVE FALSE OBVIOUS
    <3>1. pick \in 0 .. n /\ i - 1 \in 0 .. n /\ pick <= i - 1 BY <2>2
    <3> QED BY <1>4, <1>7, <2>2, <3>1
  <2> HIDE DEF pick, hit
  <2> QED BY <2>2, <2>3
<1>8. hit # {} BY <1>2
<1> QED BY <1>6, <1>7, <1>8

\* weighted_pick gives each arm its share of the seeds.
LEMMA Shares ==
  ASSUME EvaluationTypes, ValidVariants(exp, BootAgents)
  PROVE  \A i \in DOMAIN exp.variants :
            LET total == Cumulative(exp)[Len(exp.variants)]
                fair  == Scale * exp.variants[i].weight
                given == Count({s \in 0 .. Scale - 1 : WeightedPick(exp, s) = i}) * total
            IN  fair - total < given /\ given < fair + total
<1>1. PICK n, acc, w : /\ n = Len(exp.variants) /\ acc = Cumulative(exp)
                       /\ w = [k \in 1 .. n |-> exp.variants[k].weight]
  OBVIOUS
<1>2. /\ n \in Nat /\ n # 0 /\ DOMAIN exp.variants = 1 .. n
      /\ \A k \in 1 .. n : w[k] = exp.variants[k].weight /\ w[k] \in Int /\ w[k] > 0
  BY <1>1, ArmsTyped DEF ValidVariants
<1>3. /\ acc[0] = 0 /\ \A k \in 0 .. n : acc[k] \in Int
      /\ \A k \in 1 .. n : acc[k] = acc[k - 1] + w[k]
  BY <1>1, <1>2, CumulativeFacts
<1>4. \A k \in 1 .. n : acc[k - 1] < acc[k]
  <2> SUFFICES ASSUME NEW k \in 1 .. n PROVE acc[k - 1] < acc[k] OBVIOUS
  <2>1. k - 1 \in 0 .. n BY <1>2
  <2> QED BY <1>2, <1>3, <2>1
<1>5. \A k, l \in 0 .. n : k < l => acc[k] < acc[l]
  <2>1. \A k \in 0 .. n : acc[k] \in Int BY <1>3
  <2> QED BY <1>2, <1>4, <2>1, Climbs
<1>6. \A k \in 0 .. n : acc[k] \in Nat /\ acc[k] <= acc[n]
  <2> SUFFICES ASSUME NEW k \in 0 .. n PROVE acc[k] \in Nat /\ acc[k] <= acc[n] OBVIOUS
  <2>1. 0 \in 0 .. n /\ n \in 0 .. n BY <1>2
  <2>2. k = 0 \/ 0 < k BY <1>2
  <2>3. k = n \/ k < n BY <1>2
  <2>4. acc[k] \in Int /\ acc[n] \in Int BY <1>3, <2>1
  <2>5. acc[k] >= 0 BY <1>3, <1>5, <2>1, <2>2, <2>4
  <2>6. acc[k] <= acc[n] BY <1>5, <2>1, <2>3, <2>4
  <2> QED BY <2>4, <2>5, <2>6
<1>7. acc[n] \in Nat /\ acc[n] > 0
  <2>1. 0 \in 0 .. n /\ n \in 0 .. n /\ 0 < n BY <1>2
  <2> QED BY <1>3, <1>5, <1>6, <2>1
<1>8. Scale \in Nat BY ExperimentsAssumption
<1>9. ASSUME NEW k \in 0 .. n
      PROVE  acc[k] * Scale \in Nat /\ acc[k] * Scale <= acc[n] * Scale
  <2>1. acc[k] \in Nat /\ acc[k] <= acc[n] BY <1>6
  <2>2. (acc[n] - acc[k]) * Scale >= 0 BY <1>7, <1>8, <2>1
  <2>3. (acc[n] - acc[k]) * Scale = acc[n] * Scale - acc[k] * Scale BY <1>7, <1>8, <2>1
  <2>4. acc[k] * Scale \in Nat /\ acc[n] * Scale \in Nat BY <1>7, <1>8, <2>1
  <2> QED BY <2>2, <2>3, <2>4
<1>10. ASSUME NEW i \in 1 .. n
       PROVE  LET fair  == Scale * w[i]
                  given == Cardinality({s \in 0 .. Scale - 1 : WeightedPick(exp, s) = i}) * acc[n]
              IN  fair - acc[n] < given /\ given < fair + acc[n]
  <2>1. i \in 0 .. n /\ i - 1 \in 0 .. n BY <1>2
  <2>2. PICK l \in 0 .. Scale : Notch(l, acc[n], acc[i - 1] * Scale)
    BY <1>7, <1>9, <2>1, NotchExists
  <2>3. PICK m \in 0 .. Scale : Notch(m, acc[n], acc[i] * Scale)
    BY <1>7, <1>9, <2>1, NotchExists
  <2>4. ASSUME NEW s \in 0 .. Scale - 1 PROVE WeightedPick(exp, s) = i <=> s \in l .. m - 1
    <3>1. WeightedPick(exp, s) = i
            <=> (~(s * acc[n] < acc[i - 1] * Scale) /\ s * acc[n] < acc[i] * Scale)
      <4>1. \A k \in 0 .. n : acc[k] \in Int BY <1>3
      <4>2. LET hit == {k \in 1 .. n : s * acc[n] < acc[k] * Scale}
                pick == IF hit = {} THEN n ELSE CHOOSE k \in hit : \A j \in hit : k <= j
            IN  pick = i <=> (~(s * acc[n] < acc[i - 1] * Scale) /\ s * acc[n] < acc[i] * Scale)
        BY <1>2, <1>3, <1>5, <4>1, PickedBetween
      <4> QED BY <1>1, <1>2, <4>2 DEF WeightedPick
    <3>2. s \in Nat BY <1>8
    <3>3. (s * acc[n] < acc[i - 1] * Scale) <=> s < l BY <2>2, <3>2 DEF Notch
    <3>4. (s * acc[n] < acc[i] * Scale) <=> s < m BY <2>3, <3>2 DEF Notch
    <3> QED BY <1>8, <3>1, <3>2, <3>3, <3>4
  <2>5. {s \in 0 .. Scale - 1 : WeightedPick(exp, s) = i} = l .. m - 1
    <3>1. \A s \in l .. m - 1 : s \in 0 .. Scale - 1 BY <1>8
    <3> QED BY <2>4, <3>1
  <2>6. PICK low, high : low = acc[i - 1] * Scale /\ high = acc[i] * Scale OBVIOUS
  <2>7. low \in Nat /\ high \in Nat BY <1>9, <2>1, <2>6
  <2>8. high = low + Scale * w[i]
    <3>1. acc[i] = acc[i - 1] + w[i] /\ acc[i - 1] \in Int /\ w[i] \in Int BY <1>2, <1>3, <2>1
    <3> QED BY <1>8, <2>6, <3>1
  <2>9. Scale * w[i] \in Nat BY <1>2, <1>8
  <2>10. low <= high BY <2>7, <2>8, <2>9
  <2>11. LET given == Cardinality(l .. m - 1) * acc[n]
         IN  high - low - acc[n] < given /\ given < high - low + acc[n]
    <3>1. l \in Nat /\ m \in Nat BY <1>8
    <3>2. Notch(l, acc[n], low) /\ Notch(m, acc[n], high) BY <2>2, <2>3, <2>6
    <3> QED BY <1>7, <2>7, <2>10, <3>1, <3>2, Between
  <2>12. high - low = Scale * w[i] BY <2>7, <2>8, <2>9
  <2> QED BY <2>5, <2>11, <2>12
<1> QED BY <1>1, <1>2, <1>10 DEF Count

\* The arm that leads among the first k keeps the lead unless the next one's
\* mean is not lower.
Lower(e, summary, i, b) ==
  summary[e.variants[i].agent].sum * summary[e.variants[b].agent].samples
    < summary[e.variants[b].agent].sum * summary[e.variants[i].agent].samples

Leads(e, summary, n, best) ==
  /\ best[0] = 0
  /\ \A k \in 1 .. n : best[k] \in 1 .. k
  /\ \A k \in 1 .. n : best[k] = IF k = 1 THEN 1
                                 ELSE IF Lower(e, summary, k, best[k - 1]) THEN best[k - 1]
                                 ELSE k
  /\ Leader(e, summary) = best[n]

\* The fold of bandit_pick over the arms has an outcome, one of them.
LEMMA LeaderFacts ==
  ASSUME EvaluationTypes, NEW summary
  PROVE  \E best : Leads(exp, summary, Len(exp.variants), best)
<1>1. PICK n : n = Len(exp.variants) OBVIOUS
<1>2. n \in Nat BY <1>1, ArmsTyped
<1> DEFINE After(k, b) == IF k <= 1 THEN k ELSE IF Lower(exp, summary, k, b) THEN b ELSE k
           step == [p \in (1 .. n) \X (0 .. n) |-> After(p[1], p[2])]
<1>3. step \in [(1 .. n) \X (0 .. n) -> 0 .. n]
  <2>1. \A p \in (1 .. n) \X (0 .. n) : p[1] \in 1 .. n /\ p[2] \in 0 .. n OBVIOUS
  <2>2. \A k \in 1 .. n, b \in 0 .. n : After(k, b) \in 0 .. n BY <1>2
  <2> HIDE DEF After
  <2> QED BY <2>1, <2>2
<1>4. \A k \in 1 .. n, b \in 0 .. n : step[<<k, b>>] = After(k, b)
  <2> HIDE DEF After
  <2> QED OBVIOUS
<1> HIDE DEF step
<1>5. PICK g \in [0 .. n -> 0 .. n] : \A k \in 0 .. n : g[k] = NextOf(0, step, g, k)
  <2>1. n \in Nat /\ 0 \in 0 .. n BY <1>2
  <2>2. \A h \in [(1 .. n) \X (0 .. n) -> 0 .. n] : Solvable(0 .. n, n, 0, h) BY <2>1, Recursion
  <2>3. Solvable(0 .. n, n, 0, step) BY <1>3, <2>2
  <2> QED BY <2>3 DEF Solvable
<1> DEFINE Value(h, k) == IF k <= 1 THEN k
                          ELSE IF Lower(exp, summary, k, h[k - 1]) THEN h[k - 1] ELSE k
           best == CHOOSE h : h = [k \in 0 .. n |-> Value(h, k)]
<1>6. g = [k \in 0 .. n |-> Value(g, k)]
  <2>1. ASSUME NEW k \in 0 .. n PROVE g[k] = Value(g, k)
    <3>1. CASE k = 0
      <4>1. g[k] = k BY <1>5, <3>1 DEF NextOf
      <4>2. k <= 1 BY <3>1
      <4> QED BY <4>1, <4>2
    <3>2. CASE k # 0
      <4>1. k \in 1 .. n /\ k - 1 \in 0 .. n BY <1>2, <3>2
      <4>2. g[k - 1] \in 0 .. n BY <1>5, <4>1
      <4>3. g[k] = step[<<k, g[k - 1]>>] BY <1>5, <3>2 DEF NextOf
      <4>4. g[k] = After(k, g[k - 1])
        <5> HIDE DEF After
        <5> QED BY <1>4, <4>1, <4>2, <4>3
      <4> QED BY <4>4
    <3> QED BY <3>1, <3>2
  <2> HIDE DEF Value
  <2>2. g = [k \in 0 .. n |-> g[k]] BY <1>5
  <2>3. [k \in 0 .. n |-> g[k]] = [k \in 0 .. n |-> Value(g, k)] BY <2>1
  <2> QED BY <2>2, <2>3
<1>7. Leader(exp, summary) = best[n]
  <2>1. Leader(exp, summary) =
          (CHOOSE h : h = [i \in 0 .. Len(exp.variants) |->
              IF i <= 1 THEN i
              ELSE LET b == h[i - 1] IN IF Lower(exp, summary, i, b) THEN b ELSE i])
            [Len(exp.variants)]
    BY DEF Leader, Lower
  <2> QED BY <1>1, <2>1
<1>8. best = [k \in 0 .. n |-> Value(best, k)]
  <2> HIDE DEF Value
  <2> QED BY <1>6
<1> HIDE DEF best
<1>9. \A k \in 0 .. n : best[k] = Value(best, k)
  <2> HIDE DEF Value
  <2> QED BY <1>8
<1>10. best[0] = 0
  <2>1. 0 \in 0 .. n BY <1>2
  <2> QED BY <1>9, <2>1
<1>11. \A k \in 1 .. n : best[k] = IF k = 1 THEN 1
                                   ELSE IF Lower(exp, summary, k, best[k - 1]) THEN best[k - 1]
                                   ELSE k
  <2> SUFFICES ASSUME NEW k \in 1 .. n
               PROVE  best[k] = IF k = 1 THEN 1
                                ELSE IF Lower(exp, summary, k, best[k - 1]) THEN best[k - 1]
                                ELSE k
    OBVIOUS
  <2>1. k \in 0 .. n /\ (k <= 1 <=> k = 1) BY <1>2
  <2> QED BY <1>9, <2>1
<1> DEFINE Good == {k \in 0 .. n : k # 0 => best[k] \in 1 .. k}
<1>12. Onward(n, Good)
  <2>1. 0 \in Good BY <1>2
  <2>2. ASSUME NEW k \in 1 .. n, k - 1 \in Good PROVE k \in Good
    <3>1. k \in 0 .. n /\ k \in 1 .. k BY <1>2
    <3>2. k # 1 => best[k - 1] \in 1 .. k - 1 BY <2>2
    <3>3. k # 1 => best[k - 1] \in 1 .. k BY <3>2
    <3> QED BY <1>11, <3>1, <3>3
  <2> HIDE DEF Good
  <2> QED BY <2>1, <2>2 DEF Onward
<1>13. \A k \in 0 .. n : k \in Good
  <2> HIDE DEF Good
  <2> QED BY <1>2, <1>12, Everywhere
<1>14. \A k \in 1 .. n : best[k] \in 1 .. k
  <2> SUFFICES ASSUME NEW k \in 1 .. n PROVE best[k] \in 1 .. k OBVIOUS
  <2>1. k \in 0 .. n /\ k # 0 BY <1>2
  <2> QED BY <1>13, <2>1
<1>15. Leads(exp, summary, n, best) BY <1>7, <1>10, <1>11, <1>14 DEF Leads
<1> QED BY <1>1, <1>15

\* Means compared by their products compare transitively.
LEMMA MeansCompare ==
  ASSUME NEW a \in Int, NEW b \in Int, NEW c \in Int, NEW d \in Int, NEW e \in Int, NEW f \in Int,
         b > 0, d > 0, f > 0, a * d <= c * b, c * f <= e * d
  PROVE  a * f <= e * b
<1>1. PICK x \in Int, y \in Int, z \in Int :
        x = c * b - a * d /\ y = e * d - c * f /\ z = e * b - a * f
  <2>1. c * b - a * d \in Int /\ e * d - c * f \in Int /\ e * b - a * f \in Int OBVIOUS
  <2> QED BY <2>1
<1>2. x >= 0 /\ y >= 0
  <2>1. a * d \in Int /\ c * b \in Int /\ c * f \in Int /\ e * d \in Int OBVIOUS
  <2> QED BY <1>1, <2>1
<1>3. x * f >= 0 /\ y * b >= 0 BY <1>2
<1>4. x * f + y * b = d * z
  <2>1. x * f = c * b * f - a * d * f BY <1>1
  <2>2. y * b = e * d * b - c * f * b BY <1>1
  <2>3. d * z = d * e * b - d * a * f BY <1>1
  <2> QED BY <2>1, <2>2, <2>3
<1>5. d * z >= 0
  <2>1. x * f \in Int /\ y * b \in Int OBVIOUS
  <2> QED BY <1>3, <1>4, <2>1
<1>6. z >= 0
  <2> SUFFICES ASSUME z < 0 PROVE FALSE OBVIOUS
  <2>1. d * (0 - z) > 0 BY <1>1
  <2>2. d * (0 - z) = 0 - d * z OBVIOUS
  <2>3. d * z \in Int OBVIOUS
  <2> QED BY <1>5, <2>1, <2>2, <2>3
<1>7. e * b \in Int /\ a * f \in Int OBVIOUS
<1> QED BY <1>1, <1>6, <1>7

\* A table of scores in which every agent has some.
AllScored(summary) ==
  \A a \in Agents : /\ summary[a].samples \in Int /\ summary[a].samples > 0
                    /\ summary[a].sum \in Int

\* No arm's mean is higher than the leader's.
LEMMA LeaderLeads ==
  ASSUME EvaluationTypes, exp.variants # << >>, NEW summary, AllScored(summary)
  PROVE  /\ Leader(exp, summary) \in DOMAIN exp.variants
         /\ \A i \in DOMAIN exp.variants : ~Lower(exp, summary, Leader(exp, summary), i)
<1>1. PICK n, S, N : /\ n = Len(exp.variants)
                     /\ S = [i \in 1 .. n |-> summary[exp.variants[i].agent].sum]
                     /\ N = [i \in 1 .. n |-> summary[exp.variants[i].agent].samples]
  OBVIOUS
<1>2. /\ n \in Nat /\ n # 0 /\ DOMAIN exp.variants = 1 .. n
      /\ \A i \in 1 .. n : S[i] \in Int /\ N[i] \in Int /\ N[i] > 0
      /\ \A i, j \in 1 .. n : Lower(exp, summary, i, j) <=> S[i] * N[j] < S[j] * N[i]
  BY <1>1, ArmsTyped DEF AllScored, Lower
<1>3. PICK best : Leads(exp, summary, n, best) BY <1>1, LeaderFacts
<1> DEFINE Good == {k \in 0 .. n : k # 0 => \A j \in 1 .. k : S[j] * N[best[k]] <= S[best[k]] * N[j]}
<1>4. 0 \in Good BY <1>2
<1>5. ASSUME NEW k \in 1 .. n, k - 1 \in Good PROVE k \in Good
  <2>1. best[k] \in 1 .. k /\ k \in 0 .. n BY <1>3 DEF Leads
  <2>2. CASE k = 1
    <3>1. \A j \in 1 .. k : j = best[k] BY <2>1, <2>2
    <3>2. \A j \in 1 .. k : S[j] * N[best[k]] <= S[best[k]] * N[j]
      <4> SUFFICES ASSUME NEW j \in 1 .. k
                   PROVE  S[j] * N[best[k]] <= S[best[k]] * N[j]
        OBVIOUS
      <4>1. j \in 1 .. n /\ j = best[k] BY <3>1
      <4>2. S[j] * N[j] \in Int BY <1>2, <4>1
      <4>3. S[j] * N[j] <= S[j] * N[j] BY <4>2
      <4> QED BY <4>1, <4>3
    <3> QED BY <2>1, <3>2
  <2>3. CASE k # 1
    <3>1. PICK b : b = best[k - 1] OBVIOUS
    <3>2. k - 1 \in 1 .. n /\ k - 1 # 0 BY <1>2, <2>3
    <3>3. b \in 1 .. k - 1 BY <1>3, <3>1, <3>2 DEF Leads
    <3>4. b \in 1 .. n /\ \A j \in 1 .. k - 1 : j \in 1 .. n BY <1>2, <3>3
    <3>5. \A j \in 1 .. k - 1 : S[j] * N[b] <= S[b] * N[j]
      <4>1. k - 1 # 0 => \A j \in 1 .. k - 1 : S[j] * N[best[k - 1]] <= S[best[k - 1]] * N[j]
        BY <1>5
      <4> QED BY <3>1, <3>2, <4>1
    <3>6. best[k] = IF Lower(exp, summary, k, b) THEN b ELSE k BY <1>3, <2>3, <3>1 DEF Leads
    <3>7. ASSUME NEW j \in 1 .. k PROVE S[j] * N[best[k]] <= S[best[k]] * N[j]
      <4>1. j = k \/ j \in 1 .. k - 1 OBVIOUS
      <4>2. j \in 1 .. n /\ S[j] \in Int /\ N[j] \in Int /\ N[j] > 0 BY <1>2
      <4>3. /\ S[b] \in Int /\ N[b] \in Int /\ N[b] > 0
            /\ S[k] \in Int /\ N[k] \in Int /\ N[k] > 0
        BY <1>2, <3>4
      <4>4. S[k] * N[b] \in Int /\ S[b] * N[k] \in Int /\ S[k] * N[k] \in Int BY <4>3
      <4>5. CASE Lower(exp, summary, k, b)
        <5>1. best[k] = b /\ S[k] * N[b] < S[b] * N[k] BY <1>2, <3>4, <3>6, <4>5
        <5>2. S[k] * N[b] <= S[b] * N[k] BY <4>4, <5>1
        <5> QED BY <3>5, <4>1, <5>1, <5>2
      <4>6. CASE ~Lower(exp, summary, k, b)
        <5>1. best[k] = k /\ ~(S[k] * N[b] < S[b] * N[k]) BY <1>2, <3>4, <3>6, <4>6
        <5>2. S[b] * N[k] <= S[k] * N[b] BY <4>4, <5>1
        <5>3. S[k] * N[k] <= S[k] * N[k] BY <4>4
        <5>4. j \in 1 .. k - 1 => S[j] * N[k] <= S[k] * N[j]
          <6> SUFFICES ASSUME S[j] * N[b] <= S[b] * N[j] PROVE S[j] * N[k] <= S[k] * N[j]
            BY <3>5
          <6> QED BY <4>2, <4>3, <5>2, MeansCompare
        <5> QED BY <4>1, <5>1, <5>3, <5>4
      <4> QED BY <4>5, <4>6
    <3> QED BY <2>1, <3>7
  <2> QED BY <2>2, <2>3
<1>6. n \in Good
  <2> HIDE DEF Good
  <2>1. Onward(n, Good) BY <1>4, <1>5 DEF Onward
  <2>2. n \in 0 .. n BY <1>2
  <2> QED BY <1>2, <2>1, <2>2, Everywhere
<1>7. PICK l \in 1 .. n : l = best[n]
  <2>1. n \in 1 .. n BY <1>2
  <2> QED BY <1>3, <2>1 DEF Leads
<1>8. Leader(exp, summary) = l BY <1>3, <1>7 DEF Leads
<1>9. ASSUME NEW i \in 1 .. n PROVE ~Lower(exp, summary, l, i)
  <2>1. S[i] * N[l] <= S[l] * N[i] BY <1>2, <1>6, <1>7
  <2>2. S[i] * N[l] \in Int /\ S[l] * N[i] \in Int BY <1>2
  <2> QED BY <1>2, <2>1, <2>2
<1> QED BY <1>2, <1>8, <1>9

\* The agent of an arm.
ArmServed(e, i) == IF i = 0 THEN ExperimentName ELSE e.variants[i].agent

\* What a bandit resolves to.
LEMMA BanditResolves ==
  ASSUME exp.strategy = "bandit", NEW summary, NEW s, NEW f
  PROVE  Resolve(exp, ExperimentName, summary, s, f)
           = ArmServed(exp, BanditPick(exp, summary, RoutingSeed(exp, s, f), s))
BY DEF Resolve, PickVariant, ArmServed

\* The arm a bandit serves when every arm has samples enough is the best,
\* unless it explores.
LEMMA BestServed ==
  ASSUME EvaluationTypes, exp.strategy = "bandit", exp.variants # << >>,
         NEW summary, AllScored(summary),
         \A a \in Agents : summary[a].samples >= Needed(exp),
         NEW s, NEW f, ~(RoutingSeed(exp, s, f) < OrElse(exp.epsilon, DefaultEpsilon))
  PROVE  LET a == Resolve(exp, ExperimentName, summary, s, f)
         IN  \A b \in Arms(exp) : summary[a].sum * summary[b].samples >= summary[b].sum * summary[a].samples
<1>1. OrElse(exp.minSamples, DefaultMinSamples) \in Nat
  <2>1. exp.minSamples \in Nat \cup {Unset} BY ArmsTyped DEF ExperimentConfig
  <2> QED BY <2>1, ExperimentsAssumption DEF OrElse
<1>2. Needed(exp) >= OrElse(exp.minSamples, DefaultMinSamples) BY <1>1 DEF Needed
<1>3. Needed(exp) \in Nat BY <1>1 DEF Needed
<1>4. \A i \in DOMAIN exp.variants : ~IsForced(exp, summary, i)
  <2> SUFFICES ASSUME NEW i \in DOMAIN exp.variants PROVE ~IsForced(exp, summary, i) OBVIOUS
  <2>1. PICK a \in Agents : a = exp.variants[i].agent BY ArmsTyped
  <2>2. summary[a].samples \in Int /\ summary[a].samples > 0 /\ summary[a].samples >= Needed(exp)
    BY DEF AllScored
  <2>3. ~(summary[a].samples = 0 \/ summary[a].samples < OrElse(exp.minSamples, DefaultMinSamples))
    BY <1>1, <1>2, <1>3, <2>2
  <2> QED BY <2>1, <2>3 DEF IsForced
<1>5. {i \in DOMAIN exp.variants : IsForced(exp, summary, i)} = {} BY <1>4
<1>6. BanditPick(exp, summary, RoutingSeed(exp, s, f), s) = Leader(exp, summary)
  BY <1>5 DEF BanditPick
<1>7. PICK l \in DOMAIN exp.variants :
        l = Leader(exp, summary) /\ \A i \in DOMAIN exp.variants : ~Lower(exp, summary, l, i)
  BY LeaderLeads
<1>8. l # 0 BY ArmsTyped
<1>9. Resolve(exp, ExperimentName, summary, s, f) = exp.variants[l].agent
  BY <1>6, <1>7, <1>8, BanditResolves DEF ArmServed
<1>10. PICK a \in Agents : a = exp.variants[l].agent BY ArmsTyped
<1>11. ASSUME NEW b \in Arms(exp)
       PROVE  summary[a].sum * summary[b].samples >= summary[b].sum * summary[a].samples
  <2>1. PICK i \in DOMAIN exp.variants : b = exp.variants[i].agent BY DEF Arms
  <2>2. b \in Agents BY <2>1, ArmsTyped
  <2>3. ~(summary[a].sum * summary[b].samples < summary[b].sum * summary[a].samples)
    BY <1>7, <1>10, <2>1 DEF Lower
  <2>4. /\ summary[a].sum \in Int /\ summary[a].samples \in Int
        /\ summary[b].sum \in Int /\ summary[b].samples \in Int
    BY <1>10, <2>2 DEF AllScored
  <2>5. summary[a].sum * summary[b].samples \in Int /\ summary[b].sum * summary[a].samples \in Int
    BY <2>4
  <2> QED BY <2>3, <2>5
<1> QED BY <1>9, <1>10, <1>11

\* LeaderIsBest, on every table of scores and not only on the bounded ones.
LEMMA LeaderBest == ASSUME EvaluationTypes PROVE LeaderIsBest
<1> SUFFICES ASSUME exp.strategy = "bandit", exp.variants # << >>,
                    NEW summary \in [Agents -> [samples : Needed(exp) .. Needed(exp) + 2, sum : 0 .. 3]],
                    NEW s \in Seeds, NEW f \in Seeds,
                    RoutingSeed(exp, s, f) >= OrElse(exp.epsilon, DefaultEpsilon)
             PROVE  LET a == Resolve(exp, ExperimentName, summary, s, f)
                    IN  \A b \in Arms(exp) :
                          summary[a].sum * summary[b].samples >= summary[b].sum * summary[a].samples
  BY DEF LeaderIsBest, Valid, ValidVariants
<1>1. OrElse(exp.minSamples, DefaultMinSamples) \in Nat
  <2>1. exp.minSamples \in Nat \cup {Unset} BY ArmsTyped DEF ExperimentConfig
  <2> QED BY <2>1, ExperimentsAssumption DEF OrElse
<1>2. Needed(exp) \in Nat /\ Needed(exp) > 0 BY <1>1 DEF Needed
<1>3. \A a \in Agents : /\ summary[a].samples \in Needed(exp) .. Needed(exp) + 2
                        /\ summary[a].sum \in 0 .. 3
  OBVIOUS
<1>4. AllScored(summary) /\ \A a \in Agents : summary[a].samples >= Needed(exp)
  BY <1>2, <1>3 DEF AllScored
<1>5. ~(RoutingSeed(exp, s, f) < OrElse(exp.epsilon, DefaultEpsilon))
  <2>1. RoutingSeed(exp, s, f) \in Nat BY ExperimentsAssumption DEF RoutingSeed, Seeds
  <2>2. OrElse(exp.epsilon, DefaultEpsilon) \in Int
    <3>1. exp.epsilon \in Int \cup {Unset} BY ArmsTyped DEF ExperimentConfig
    <3> QED BY <3>1, ExperimentsAssumption DEF OrElse
  <2> QED BY <2>1, <2>2
<1> QED BY <1>4, <1>5, BestServed

\* The rows the bandit's query counts for an agent at this moment.
Samples(a) ==
  {k \in since + 1 .. Len(scores) :
     scores[k].agent = a /\ scores[k].judge = exp.metric[1] /\ exp.metric[2] \in DOMAIN scores[k].marks}

LEMMA SamplesCounted ==
  ASSUME EvaluationTypes, exp.metric # Unset, NEW a \in Agents
  PROVE  /\ Summary(since, Len(scores))[a].samples = Count(Samples(a))
         /\ Count(Samples(a)) \in Nat
         /\ Count(Samples(a)) = 0 <=> Samples(a) = {}
<1> DEFINE Counted == {k \in (since + 1) .. Len(scores) :
                         /\ exp.metric # Unset
                         /\ scores[k].agent = a
                         /\ scores[k].judge = exp.metric[1]
                         /\ exp.metric[2] \in DOMAIN scores[k].marks}
<1>1. Counted = Samples(a) BY DEF Samples
<1>2. Summary(since, Len(scores))[a].samples = Count(Counted) BY DEF Summary
<1>3. IsFiniteSet(Samples(a))
  <2>1. since + 1 \in Int /\ Len(scores) \in Int BY DEF EvaluationTypes
  <2>2. IsFiniteSet(since + 1 .. Len(scores)) BY <2>1, FS_Interval
  <2>3. Samples(a) \in SUBSET (since + 1 .. Len(scores)) BY DEF Samples
  <2> QED BY <2>2, <2>3, FS_Subset
<1>4. Cardinality(Samples(a)) \in Nat /\ (Cardinality(Samples(a)) = 0 <=> Samples(a) = {})
  BY <1>3, FS_CardinalityType, FS_EmptySet
<1> HIDE DEF Counted
<1> QED BY <1>1, <1>2, <1>4 DEF Count

\* Arms, and any part of them, are picked uniformly: each by some user's seed.
LEMMA ArmsPicked ==
  ASSUME EvaluationTypes, NEW S \in SUBSET DOMAIN exp.variants, S # {}
  PROVE  /\ \A seed \in Seeds : UniformPick(S, seed) \in S
         /\ \A i \in S : \E seed \in Seeds : UniformPick(S, seed) = i
<1>1. PICK n \in Nat : DOMAIN exp.variants = 1 .. n /\ n <= Scale BY ArmsTyped
<1>2. S \in SUBSET Nat BY <1>1
<1>3. IsFiniteSet(1 .. n) /\ Cardinality(1 .. n) = n
  <2>1. 1 \in Int /\ n \in Int OBVIOUS
  <2>2. IsFiniteSet(1 .. n) /\ Cardinality(1 .. n) = IF 1 > n THEN 0 ELSE n - 1 + 1
    BY <2>1, FS_Interval
  <2> QED BY <2>2
<1>4. IsFiniteSet(S) /\ Cardinality(S) <= n BY <1>1, <1>3, FS_Subset
<1>5. Cardinality(S) \in Nat BY <1>4, FS_CardinalityType
<1>6. Scale \in Nat /\ Seeds = 0 .. Scale BY ExperimentsAssumption DEF Seeds
<1>7. \A seed \in 0 .. Cardinality(S) - 1 : seed \in Seeds BY <1>1, <1>4, <1>5, <1>6
<1>8. \A seed \in Seeds : seed \in Nat BY <1>6
<1> QED BY <1>2, <1>4, <1>7, <1>8, UniformPicks

\* BanditFillsArms: the arms that lack samples are those bandit_pick forces,
\* and each of them is some seed's.
LEMMA ArmsFilled == ASSUME EvaluationTypes PROVE BanditFillsArms
<1>1. PICK summary : summary = Summary(since, Len(scores)) OBVIOUS
<1> DEFINE Lacking == {a \in Arms(exp) :
                         \/ Samples(a) = {}
                         \/ Count(Samples(a)) < OrElse(exp.minSamples, DefaultMinSamples)}
           Picks == {Resolve(exp, ExperimentName, summary, s, f) : s \in Seeds, f \in Seeds}
           Forced == {i \in DOMAIN exp.variants : IsForced(exp, summary, i)}
<1> SUFFICES ASSUME exp.strategy = "bandit", exp.variants # << >>, exp.metric # Unset
             PROVE  Picks = IF Lacking # {} THEN Lacking ELSE Picks \cap Arms(exp)
  <2>1. exp.strategy = "bandit" /\ Valid(exp, BootAgents, Rubrics)
          => exp.variants # << >> /\ exp.metric # Unset
    BY DEF Valid, ValidVariants, ValidBandit
  <2>2. BanditFillsArms <=>
          (exp.strategy = "bandit" /\ Valid(exp, BootAgents, Rubrics) =>
             Picks = IF Lacking # {} THEN Lacking ELSE Picks \cap Arms(exp))
    <3> DEFINE Found == {Resolve(exp, ExperimentName, Summary(since, Len(scores)), s, f) :
                           s \in Seeds, f \in Seeds}
    <3>1. BanditFillsArms <=>
            (exp.strategy = "bandit" /\ Valid(exp, BootAgents, Rubrics) =>
               Found = IF Lacking # {} THEN Lacking ELSE Found \cap Arms(exp))
      BY DEF BanditFillsArms, Samples
    <3>2. Found = Picks BY <1>1
    <3> HIDE DEF Found, Picks, Lacking
    <3> QED BY <3>1, <3>2
  <2> HIDE DEF Picks, Lacking
  <2> QED BY <2>1, <2>2
<1>2. \A i \in DOMAIN exp.variants : i # 0 /\ exp.variants[i].agent \in Agents BY ArmsTyped
<1>3. \A i \in DOMAIN exp.variants : i \in Forced <=> exp.variants[i].agent \in Lacking
  <2> SUFFICES ASSUME NEW i \in DOMAIN exp.variants
               PROVE  i \in Forced <=> exp.variants[i].agent \in Lacking
    OBVIOUS
  <2>1. PICK a \in Agents : a = exp.variants[i].agent BY <1>2
  <2>2. a \in Arms(exp) BY <2>1 DEF Arms
  <2>3. /\ summary[a].samples = Count(Samples(a))
        /\ Count(Samples(a)) = 0 <=> Samples(a) = {}
    BY <1>1, SamplesCounted
  <2> QED BY <2>1, <2>2, <2>3 DEF IsForced
<1>4. \A s \in Seeds, f \in Seeds :
        Resolve(exp, ExperimentName, summary, s, f)
          = ArmServed(exp, BanditPick(exp, summary, RoutingSeed(exp, s, f), s))
  BY BanditResolves
<1>5. 0 \in Seeds BY ExperimentsAssumption DEF Seeds
<1>6. CASE Forced # {}
  <2>1. \A s \in Seeds, f \in Seeds :
          BanditPick(exp, summary, RoutingSeed(exp, s, f), s) = UniformPick(Forced, s)
    BY <1>6 DEF BanditPick
  <2>2. /\ \A s \in Seeds : UniformPick(Forced, s) \in Forced
        /\ \A i \in Forced : \E s \in Seeds : UniformPick(Forced, s) = i
    <3>1. Forced \in SUBSET DOMAIN exp.variants OBVIOUS
    <3> HIDE DEF Forced
    <3> QED BY <1>6, <3>1, ArmsPicked
  <2>3. \A p \in Picks : p \in Lacking
    <3> SUFFICES ASSUME NEW s \in Seeds, NEW f \in Seeds
                 PROVE  Resolve(exp, ExperimentName, summary, s, f) \in Lacking
      OBVIOUS
    <3>1. PICK i \in Forced : i = UniformPick(Forced, s) BY <2>2
    <3>2. i \in DOMAIN exp.variants /\ i # 0 BY <1>2
    <3>3. Resolve(exp, ExperimentName, summary, s, f) = exp.variants[i].agent
      BY <1>4, <2>1, <3>1, <3>2 DEF ArmServed
    <3> HIDE DEF Forced, Lacking
    <3> QED BY <1>3, <3>1, <3>2, <3>3
  <2>4. \A p \in Lacking : p \in Picks
    <3> SUFFICES ASSUME NEW p \in Lacking PROVE p \in Picks OBVIOUS
    <3>1. PICK i \in DOMAIN exp.variants : p = exp.variants[i].agent BY DEF Arms
    <3>2. i \in Forced BY <1>3, <3>1
    <3>3. PICK s \in Seeds : UniformPick(Forced, s) = i BY <2>2, <3>2
    <3>4. i # 0 BY <1>2
    <3>5. Resolve(exp, ExperimentName, summary, s, s) = p
      BY <1>4, <2>1, <3>1, <3>3, <3>4 DEF ArmServed
    <3> QED BY <3>5
  <2>5. Lacking # {}
    <3>1. PICK i \in Forced : TRUE BY <1>6
    <3> QED BY <1>3, <3>1
  <2> HIDE DEF Lacking, Picks, Forced
  <2>6. Picks = Lacking BY <2>3, <2>4
  <2> QED BY <2>5, <2>6
<1>7. CASE Forced = {}
  <2>1. Lacking = {}
    <3> SUFFICES ASSUME NEW p \in Lacking PROVE FALSE OBVIOUS
    <3>1. PICK i \in DOMAIN exp.variants : p = exp.variants[i].agent BY DEF Arms
    <3>2. i \in Forced BY <1>3, <3>1
    <3> QED BY <1>7, <3>2
  <2>2. \A s \in Seeds, f \in Seeds :
          BanditPick(exp, summary, RoutingSeed(exp, s, f), s) \in DOMAIN exp.variants
    <3> SUFFICES ASSUME NEW s \in Seeds, NEW f \in Seeds
                 PROVE  BanditPick(exp, summary, RoutingSeed(exp, s, f), s) \in DOMAIN exp.variants
      OBVIOUS
    <3>1. DOMAIN exp.variants # {}
      <4>1. PICK n \in Nat : n # 0 /\ DOMAIN exp.variants = 1 .. n BY ArmsTyped
      <4>2. 1 \in 1 .. n BY <4>1
      <4> QED BY <4>1, <4>2
    <3>2. UniformPick(DOMAIN exp.variants, s) \in DOMAIN exp.variants BY <3>1, ArmsPicked
    <3>3. Leader(exp, summary) \in DOMAIN exp.variants
      <4>1. PICK n \in Nat : n = Len(exp.variants) /\ n # 0 /\ DOMAIN exp.variants = 1 .. n
        BY ArmsTyped
      <4>2. PICK best : Leads(exp, summary, n, best) BY <4>1, LeaderFacts
      <4>3. n \in 1 .. n BY <4>1
      <4> QED BY <4>1, <4>2, <4>3 DEF Leads
    <3> QED BY <1>7, <3>2, <3>3 DEF BanditPick
  <2>3. \A p \in Picks : p \in Arms(exp)
    <3> SUFFICES ASSUME NEW s \in Seeds, NEW f \in Seeds
                 PROVE  Resolve(exp, ExperimentName, summary, s, f) \in Arms(exp)
      OBVIOUS
    <3>1. PICK i \in DOMAIN exp.variants : i = BanditPick(exp, summary, RoutingSeed(exp, s, f), s)
      BY <2>2
    <3>2. i # 0 BY <1>2
    <3> QED BY <1>4, <3>1, <3>2 DEF ArmServed, Arms
  <2> HIDE DEF Lacking, Picks, Forced
  <2> QED BY <2>1, <2>3
<1> QED BY <1>6, <1>7

\* The replays of a shadow experiment never repeat its primary.
LEMMA ShadowsOther ==
  ASSUME EvaluationTypes, exp.strategy = "shadow", NEW names \in Shadows
  PROVE  \A i \in 1 .. Len(names) : names[i] # exp.primary
<1>1. PICK n, own, P : /\ n = Len(exp.variants) /\ own = exp.primary
                       /\ P = Agents \ {exp.primary}
  OBVIOUS
<1>2. n \in Nat /\ \A k \in 1 .. n : exp.variants[k].agent \in Agents BY <1>1, ArmsTyped
<1> DEFINE After(k, list) == IF exp.variants[k].agent = own THEN list
                             ELSE Append(list, exp.variants[k].agent)
           step == [p \in (1 .. n) \X Seq(P) |-> After(p[1], p[2])]
<1>3. step \in [(1 .. n) \X Seq(P) -> Seq(P)]
  <2>1. \A p \in (1 .. n) \X Seq(P) : p[1] \in 1 .. n /\ p[2] \in Seq(P) OBVIOUS
  <2>2. ASSUME NEW k \in 1 .. n, NEW list \in Seq(P) PROVE After(k, list) \in Seq(P)
    <3>1. exp.variants[k].agent # own => exp.variants[k].agent \in P BY <1>1, <1>2
    <3> QED BY <3>1
  <2> HIDE DEF After
  <2> QED BY <2>1, <2>2
<1>4. \A k \in 1 .. n, list \in Seq(P) : step[<<k, list>>] = After(k, list)
  <2> HIDE DEF After
  <2> QED OBVIOUS
<1> HIDE DEF step
<1>5. PICK g \in [0 .. n -> Seq(P)] : \A k \in 0 .. n : g[k] = NextOf(<< >>, step, g, k)
  <2>1. << >> \in Seq(P) OBVIOUS
  <2>2. \A h \in [(1 .. n) \X Seq(P) -> Seq(P)] : Solvable(Seq(P), n, << >>, h)
    BY <1>2, <2>1, Recursion
  <2>3. Solvable(Seq(P), n, << >>, step) BY <1>3, <2>2
  <2> QED BY <2>3 DEF Solvable
<1> DEFINE Value(h, k) == IF k = 0 THEN << >> ELSE After(k, h[k - 1])
           others == CHOOSE h : h = [k \in 0 .. n |-> Value(h, k)]
<1>6. g = [k \in 0 .. n |-> Value(g, k)]
  <2>1. ASSUME NEW k \in 0 .. n PROVE g[k] = Value(g, k)
    <3> HIDE DEF After
    <3>1. CASE k = 0
      <4>1. g[k] = << >> BY <1>5, <3>1 DEF NextOf
      <4> QED BY <3>1, <4>1
    <3>2. CASE k # 0
      <4>1. k \in 1 .. n /\ k - 1 \in 0 .. n BY <1>2, <3>2
      <4>2. g[k - 1] \in Seq(P) BY <1>5, <4>1
      <4>3. g[k] = step[<<k, g[k - 1]>>] BY <1>5, <3>2 DEF NextOf
      <4>4. g[k] = After(k, g[k - 1]) BY <1>4, <4>1, <4>2, <4>3
      <4> QED BY <3>2, <4>4
    <3> QED BY <3>1, <3>2
  <2> HIDE DEF Value
  <2>2. g = [k \in 0 .. n |-> g[k]] BY <1>5
  <2>3. [k \in 0 .. n |-> g[k]] = [k \in 0 .. n |-> Value(g, k)] BY <2>1
  <2> QED BY <2>2, <2>3
<1>7. ShadowVariants(exp) = others[n] BY <1>1 DEF ShadowVariants
<1>8. others = [k \in 0 .. n |-> Value(others, k)]
  <2> HIDE DEF Value
  <2> QED BY <1>6
<1> HIDE DEF others
<1>9. \A k \in 0 .. n : others[k] = Value(others, k)
  <2> HIDE DEF Value
  <2> QED BY <1>8
<1> HIDE DEF After
<1>10. \A k \in 0 .. n : others[k] = g[k]
  <2>1. \A k \in 0 .. n : g[k] = Value(g, k)
    <3> HIDE DEF Value
    <3> QED BY <1>6
  <2>2. others[0] = g[0]
    <3>1. 0 \in 0 .. n BY <1>2
    <3> QED BY <1>9, <2>1, <3>1
  <2>3. ASSUME NEW k \in 1 .. n, others[k - 1] = g[k - 1] PROVE others[k] = g[k]
    <3>1. k \in 0 .. n /\ k # 0 BY <1>2
    <3> QED BY <1>9, <2>1, <2>3, <3>1
  <2>4. Alike(n, others, g) BY <2>2, <2>3 DEF Alike
  <2> QED BY <1>2, <2>4, Recurs
<1>11. n \in 0 .. n BY <1>2
<1>12. ShadowVariants(exp) \in Seq(P) BY <1>5, <1>7, <1>10, <1>11
<1>13. names \in Seq(P)
  <2>1. << >> \in Seq(P) OBVIOUS
  <2>2. names = ShadowVariants(exp) \/ names = << >> BY DEF Shadows
  <2> QED BY <1>12, <2>1, <2>2
<1>14. \A i \in 1 .. Len(names) : names[i] \in P BY <1>13
<1> QED BY <1>1, <1>14

\* A valid shadow experiment serves its primary.
LEMMA PrimaryPicked ==
  ASSUME EvaluationTypes, exp.strategy = "shadow", Valid(exp, BootAgents, Rubrics),
         NEW summary, NEW s, NEW f
  PROVE  Resolve(exp, ExperimentName, summary, s, f) = exp.primary
<1> DEFINE named == {i \in DOMAIN exp.variants : exp.variants[i].agent = exp.primary}
<1>1. named # {} BY DEF Valid, ValidShadow, Arms
<1>2. named \in SUBSET Nat
  <2>1. \A i \in DOMAIN exp.variants : i \in Nat BY ArmsTyped
  <2> QED BY <2>1
<1>3. \E i \in named : \A j \in named : i <= j
  <2> HIDE DEF named
  <2> QED BY <1>1, <1>2, Least
<1>4. ShadowPick(exp) \in named BY <1>1, <1>3 DEF ShadowPick
<1>5. ShadowPick(exp) # 0
  <2>1. \A i \in DOMAIN exp.variants : i # 0 BY ArmsTyped
  <2> QED BY <1>4, <2>1
<1>6. PickVariant(exp, summary, s, f) = ShadowPick(exp) BY DEF PickVariant
<1> QED BY <1>4, <1>5, <1>6 DEF Resolve

\* The agent a sticky split gives a user, whatever the scores and the draw.
StickyAgent(e, user) == ArmServed(e, WeightedPick(e, Hash[user]))

LEMMA StickyPicked ==
  ASSUME exp.strategy = "split", exp.sticky, NEW user, NEW summary, NEW f
  PROVE  Resolve(exp, ExperimentName, summary, Hash[user], f) = StickyAgent(exp, user)
<1>1. PickVariant(exp, summary, Hash[user], f) = WeightedPick(exp, Hash[user])
  BY DEF PickVariant, RoutingSeed
<1> QED BY <1>1 DEF Resolve, StickyAgent, ArmServed

-----------------------------------------------------------------------------
\* The agent of a chat reply, or of a shadow replay, is the one experiment x
\* promises its user.
WellRouted(x, e) ==
  /\ x.strategy = "shadow" /\ Valid(x, BootAgents, Rubrics) /\ e.kind = "chat"
       => e.agent = x.primary
  /\ x.strategy = "shadow" /\ e.kind = "shadow" => e.agent # x.primary
  /\ x.strategy = "split" /\ x.sticky /\ e.kind = "chat" => e.agent = StickyAgent(x, e.user)

RouteIInv == \A m \in DOMAIN reply : WellRouted(exp, reply[m])

SameRoute(e, d) == e.kind = d.kind /\ e.user = d.user /\ e.agent = d.agent

LEMMA RouteKept ==
  ASSUME RouteIInv, UNCHANGED exp,
         \A m \in DOMAIN reply' : \/ m \in DOMAIN reply /\ SameRoute(reply[m], reply'[m])
                                  \/ WellRouted(exp, reply'[m])
  PROVE  RouteIInv'
<1> SUFFICES ASSUME NEW m \in DOMAIN reply', NEW x, x = exp, NEW e, e = reply'[m]
             PROVE  WellRouted(x, e)
  BY DEF RouteIInv
<1>1. CASE m \in DOMAIN reply /\ SameRoute(reply[m], e)
  <2>1. WellRouted(x, reply[m]) BY <1>1 DEF RouteIInv
  <2> QED BY <1>1, <2>1 DEF WellRouted, SameRoute
<1> QED BY <1>1

\* The replays of a turn are routed well.
LEMMA ReplaysRouted ==
  ASSUME EvaluationTypes, NEW u, NEW names, names \in Shadows \/ names = << >>
  PROVE  \A i \in 1 .. Len(ShadowCalls(u, names)) : WellRouted(exp, ShadowCalls(u, names)[i])
<1>1. names \in Seq(Agents)
  <2>1. << >> \in Seq(Agents) OBVIOUS
  <2> QED BY <2>1, ShadowsTyped
<1>2. PICK n \in Nat : n = Len(names) BY <1>1
<1>3. ShadowCalls(u, names) = [i \in 1 .. n |-> Call("shadow", u, names[i])]
  BY <1>2 DEF ShadowCalls
<1>4. Len(ShadowCalls(u, names)) = n BY <1>2, <1>3
<1>5. ASSUME NEW i \in 1 .. n PROVE WellRouted(exp, Call("shadow", u, names[i]))
  <2>1. exp.strategy = "shadow" => names[i] # exp.primary
    <3>1. CASE names \in Shadows BY <1>2, <3>1, ShadowsOther
    <3>2. CASE names = << >> BY <1>2, <3>2
    <3> QED BY <3>1, <3>2
  <2> QED BY <2>1 DEF WellRouted, Call
<1> QED BY <1>3, <1>4, <1>5

LEMMA RouteRoute ==
  ASSUME ScoreIInv, RouteIInv, NEW u \in Users, Route(u) PROVE RouteIInv'
<1>1. PICK f \in Seeds, a \in Names, names \in Shadows :
        /\ a = Resolve(exp, ExperimentName, Summary(turn[u].lo, turn[u].hi), Hash[u], f)
        /\ reply' = Append(reply, Call("chat", u, a))
                      \o (IF turn[u].stream THEN ShadowCalls(u, names) ELSE << >>)
  BY DEF Route
<1>2. PICK c : c = Call("chat", u, a) OBVIOUS
<1>3. c \in Reply
  <2>1. ~("chat" = "smoke" \/ u \in Runs) BY EvaluationAssumption
  <2> QED BY <1>2, <2>1, CallFresh DEF ScoreIInv
<1>4. PICK t : t = IF turn[u].stream THEN ShadowCalls(u, names) ELSE << >> OBVIOUS
<1>5. t \in Seq(Reply) /\ \A i \in 1 .. Len(t) : WellRouted(exp, t[i])
  <2>1. names \in Seq(Agents) BY ShadowsTyped DEF ScoreIInv
  <2>2. CASE turn[u].stream
    BY <1>4, <2>1, <2>2, ShadowsFresh, ReplaysRouted DEF ScoreIInv
  <2>3. CASE ~turn[u].stream
    <3>1. t = << >> BY <1>4, <2>3
    <3> QED BY <3>1
  <2> QED BY <2>2, <2>3
<1>6. reply \in Seq(Reply) /\ DOMAIN reply = 1 .. Len(reply) /\ Len(reply) \in Nat
  BY DEF ScoreIInv, EvaluationTypes
<1>7. PICK s : s = Append(reply, c) OBVIOUS
<1>8. /\ s \in Seq(Reply) /\ Len(s) = Len(reply) + 1 /\ s[Len(reply) + 1] = c
      /\ \A i \in 1 .. Len(reply) : s[i] = reply[i]
  BY <1>3, <1>6, <1>7
<1>9. /\ reply' \in Seq(Reply) /\ DOMAIN reply' = 1 .. (Len(s) + Len(t))
      /\ \A i \in 1 .. Len(s) : reply'[i] = s[i]
      /\ \A i \in 1 .. Len(t) : reply'[Len(s) + i] = t[i]
  <2>1. reply' = s \o t /\ s \in Seq(Reply) /\ t \in Seq(Reply)
    BY <1>1, <1>2, <1>4, <1>5, <1>7, <1>8
  <2> QED BY <2>1, Added
<1>10. WellRouted(exp, c)
  <2>1. EvaluationTypes BY DEF ScoreIInv
  <2>2. PICK summary : summary = Summary(turn[u].lo, turn[u].hi) OBVIOUS
  <2>3. a = Resolve(exp, ExperimentName, summary, Hash[u], f) BY <1>1, <2>2
  <2>4. exp.strategy = "shadow" /\ Valid(exp, BootAgents, Rubrics) => a = exp.primary
    BY <2>1, <2>3, PrimaryPicked
  <2>5. exp.strategy = "split" /\ exp.sticky => a = StickyAgent(exp, u) BY <2>3, StickyPicked
  <2>6. c.kind = "chat" /\ c.user = u /\ c.agent = a BY <1>2 DEF Call
  <2> QED BY <2>4, <2>5, <2>6 DEF WellRouted
<1>11. ASSUME NEW m \in DOMAIN reply'
       PROVE  \/ m \in DOMAIN reply /\ SameRoute(reply[m], reply'[m])
              \/ WellRouted(exp, reply'[m])
  <2>1. Len(t) \in Nat /\ Len(s) \in Nat BY <1>5, <1>8
  <2>2. CASE m \in 1 .. Len(reply)
    <3>1. m \in 1 .. Len(s) BY <1>6, <1>8, <2>2
    <3> QED BY <1>6, <1>8, <1>9, <2>2, <3>1 DEF SameRoute
  <2>3. CASE m = Len(reply) + 1
    <3>1. m \in 1 .. Len(s) BY <1>6, <1>8, <2>3
    <3> QED BY <1>8, <1>9, <1>10, <2>3, <3>1
  <2>4. CASE m \notin 1 .. Len(reply) /\ m # Len(reply) + 1
    <3>1. m \in 1 .. (Len(s) + Len(t)) BY <1>9
    <3>2. m - Len(s) \in 1 .. Len(t) /\ m = Len(s) + (m - Len(s))
      BY <1>6, <1>8, <2>1, <2>4, <3>1
    <3>3. PICK j \in 1 .. Len(t) : m = Len(s) + j BY <3>2
    <3> QED BY <1>5, <1>9, <3>3
  <2> QED BY <2>2, <2>3, <2>4
<1>12. UNCHANGED exp BY DEF Route
<1> QED BY <1>11, <1>12, RouteKept

\* A call that ends, with or without replays, keeps its route.
LEMMA RouteChange ==
  ASSUME ScoreIInv, RouteIInv, UNCHANGED exp, NEW m \in DOMAIN reply, NEW e \in Reply,
         SameRoute(reply[m], e), NEW t \in Seq(Reply),
         \A i \in 1 .. Len(t) : WellRouted(exp, t[i]), reply' = [reply EXCEPT ![m] = e] \o t
  PROVE  RouteIInv'
<1>1. reply \in Seq(Reply) /\ DOMAIN reply = 1 .. Len(reply) /\ Len(reply) \in Nat
  BY DEF ScoreIInv, EvaluationTypes
<1>2. /\ DOMAIN reply' = 1 .. (Len(reply) + Len(t))
      /\ \A i \in 1 .. Len(reply) : reply'[i] = IF i = m THEN e ELSE reply[i]
      /\ \A i \in 1 .. Len(t) : reply'[Len(reply) + i] = t[i]
  BY <1>1, ChangeAndAdd
<1>3. ASSUME NEW i \in DOMAIN reply'
      PROVE  \/ i \in DOMAIN reply /\ SameRoute(reply[i], reply'[i])
             \/ WellRouted(exp, reply'[i])
  <2>1. CASE i \in 1 .. Len(reply) BY <1>1, <1>2, <2>1 DEF SameRoute
  <2>2. CASE i \notin 1 .. Len(reply)
    <3>1. Len(t) \in Nat OBVIOUS
    <3>2. i - Len(reply) \in 1 .. Len(t) /\ i = Len(reply) + (i - Len(reply))
      BY <1>1, <1>2, <2>2, <3>1
    <3>3. PICK j \in 1 .. Len(t) : i = Len(reply) + j BY <3>2
    <3> QED BY <1>2, <3>3
  <2> QED BY <2>1, <2>2
<1> QED BY <1>3, RouteKept

\* A reply that ends or waits for its next judge is still the same call.
LEMMA SameCall ==
  ASSUME EvaluationTypes, NEW m \in DOMAIN reply
  PROVE  /\ Scored(m) \in Reply /\ SameRoute(reply[m], Scored(m))
         /\ \A how : SameRoute(reply[m], [reply[m] EXCEPT !.state = how])
         /\ \A how : SameRoute(reply[m], [reply[m] EXCEPT !.queue = how])
         /\ \A how, list : SameRoute(reply[m], [reply[m] EXCEPT !.queue = list, !.state = how])
<1>1. reply[m] \in Reply BY DEF EvaluationTypes
<1>2. PICK list : list = JudgesFor(reply[m].agent) OBVIOUS
<1>3. list \in Seq(Judges)
  <2>1. << >> \in Seq(Judges) OBVIOUS
  <2> QED BY <1>2, <2>1 DEF JudgesFor, EvaluationTypes
<1>4. Scored(m) = [reply[m] EXCEPT !.state = "done", !.queue = list] BY <1>2 DEF Scored
<1>5. Scored(m) \in Reply BY <1>1, <1>3, <1>4 DEF Reply
<1> QED BY <1>1, <1>4, <1>5 DEF SameRoute, Reply

\* One reply goes on as the same call, the others stay.
LEMMA RouteAlters ==
  ASSUME EvaluationTypes, RouteIInv, UNCHANGED exp, NEW m \in DOMAIN reply, NEW e,
         SameRoute(reply[m], e), reply' = [reply EXCEPT ![m] = e]
  PROVE  RouteIInv'
<1>1. DOMAIN reply' = DOMAIN reply /\ \A i \in DOMAIN reply : reply'[i] = IF i = m THEN e ELSE reply[i]
  BY DEF EvaluationTypes
<1>2. \A i \in DOMAIN reply' : i \in DOMAIN reply /\ SameRoute(reply[i], reply'[i])
  BY <1>1 DEF SameRoute
<1> QED BY <1>2, RouteKept

LEMMA RouteTurnEnds ==
  ASSUME ScoreIInv, RouteIInv, NEW u \in Users, ChatReplies(u) \/ ChatUnsaved(u) \/ ChatFails(u)
  PROVE  RouteIInv'
<1>1. PICK m : m = turn[u].id OBVIOUS
<1>2. m \in DOMAIN reply /\ reply[m] \in Reply /\ EvaluationTypes
  BY <1>1 DEF ChatReplies, ChatUnsaved, ChatFails, ScoreIInv, TurnsCall, TurnCall, Calls, EvaluationTypes
<1>3. PICK e, names : /\ e = Scored(m) \/ \E how \in {"done", "failed"} : e = [reply[m] EXCEPT !.state = how]
                      /\ names \in Shadows \/ names = << >>
                      /\ EndTurn(u, m, e, names)
  <2>1. CASE ChatReplies(u) BY <1>1, <2>1 DEF ChatReplies
  <2>2. CASE ChatUnsaved(u) BY <1>1, <2>2 DEF ChatUnsaved
  <2>3. CASE ChatFails(u) BY <1>1, <2>3 DEF ChatFails
  <2> QED BY <2>1, <2>2, <2>3
<1>4. e \in Reply /\ SameRoute(reply[m], e)
  <2>1. CASE e = Scored(m) BY <1>2, <2>1, SameCall
  <2>2. ASSUME NEW how \in {"done", "failed"}, e = [reply[m] EXCEPT !.state = how]
        PROVE  e \in Reply /\ SameRoute(reply[m], e)
    BY <1>2, <2>2 DEF Reply, SameRoute
  <2> QED BY <1>3, <2>1, <2>2
<1>5. PICK t : t = ShadowCalls(u, names) OBVIOUS
<1>6. t \in Seq(Reply)
  <2>1. << >> \in Seq(Agents) OBVIOUS
  <2>2. names \in Seq(Agents) BY <1>2, <1>3, <2>1, ShadowsTyped
  <2> QED BY <1>2, <1>5, <2>2, ShadowsFresh
<1>7. \A i \in 1 .. Len(t) : WellRouted(exp, t[i]) BY <1>2, <1>3, <1>5, ReplaysRouted
<1>8. reply' = [reply EXCEPT ![m] = e] \o t /\ UNCHANGED exp BY <1>3, <1>5 DEF EndTurn
<1> QED BY <1>2, <1>4, <1>6, <1>7, <1>8, RouteChange

LEMMA RouteBackground ==
  ASSUME EvaluationTypes, RouteIInv, NEW m \in DOMAIN reply, BackgroundStep(m)
  PROVE  RouteIInv'
<1>1. PICK e : Background(m, e) /\ SameRoute(reply[m], e)
  <2>1. SameRoute(reply[m], Scored(m)) BY SameCall
  <2>2. SameRoute(reply[m], [reply[m] EXCEPT !.state = "failed"]) BY SameCall
  <2>3. SameRoute(reply[m], NextJudge(m))
    <3>1. NextJudge(m) = [reply[m] EXCEPT !.queue = Tail(reply[m].queue)] BY DEF NextJudge
    <3> QED BY <3>1, SameCall
  <2>4. CASE ShadowReplies(m) BY <2>1, <2>4 DEF ShadowReplies
  <2>5. CASE ShadowFails(m) BY <2>2, <2>5 DEF ShadowFails
  <2>6. CASE JudgeSkips(m) \/ JudgeFails(m) \/ JudgeScores(m)
    BY <2>3, <2>6 DEF JudgeSkips, JudgeFails, JudgeScores
  <2> QED BY <2>4, <2>5, <2>6 DEF BackgroundStep
<1>2. UNCHANGED exp /\ reply' = [reply EXCEPT ![m] = e] BY <1>1 DEF Background
<1> QED BY <1>1, <1>2, RouteAlters

\* A smoke turn is routed to whatever the experiment says: no promise is made.
LEMMA RouteSmoke ==
  ASSUME ScoreIInv, RouteIInv, NEW r \in Runs, SmokeStep(r)
  PROVE  RouteIInv'
<1>1. UNCHANGED exp
  BY DEF SmokeStep, Smoke, PersonaTurn, SmokeAskScores, SmokeRoute, SmokeReplies, SmokeFails,
         FinishRun, FailRun
<1>2. EvaluationTypes BY DEF ScoreIInv
<1>3. CASE UNCHANGED reply
  <2>1. \A m \in DOMAIN reply' : m \in DOMAIN reply /\ SameRoute(reply[m], reply'[m])
    BY <1>3 DEF SameRoute
  <2> QED BY <1>1, <2>1, RouteKept
<1>4. CASE SmokeRoute(r)
  <2>1. PICK a \in Names : reply' = Append(reply, Call("smoke", r, a)) BY <1>4 DEF SmokeRoute
  <2>2. PICK c : c = Call("smoke", r, a) OBVIOUS
  <2>3. c.kind = "smoke" BY <2>2 DEF Call
  <2>4. WellRouted(exp, c) BY <2>3 DEF WellRouted
  <2>5. reply \in Seq(Reply) /\ reply' = Append(reply, c) BY <1>2, <2>1, <2>2 DEF EvaluationTypes
  <2>6. /\ DOMAIN reply' = 1 .. Len(reply) + 1 /\ DOMAIN reply = 1 .. Len(reply)
        /\ reply'[Len(reply) + 1] = c /\ \A m \in 1 .. Len(reply) : reply'[m] = reply[m]
    BY <2>5
  <2>7. \A m \in DOMAIN reply' : m \in DOMAIN reply \/ m = Len(reply) + 1
    <3>1. Len(reply) \in Nat BY <2>5
    <3> QED BY <2>6, <3>1
  <2>8. \A m \in DOMAIN reply' : \/ m \in DOMAIN reply /\ SameRoute(reply[m], reply'[m])
                                 \/ WellRouted(exp, reply'[m])
    BY <2>4, <2>6, <2>7 DEF SameRoute
  <2> QED BY <1>1, <2>8, RouteKept
<1>5. CASE (SmokeReplies(r) \/ SmokeFails(r)) /\ ~UNCHANGED reply
  <2>1. PICK m : m = task[r].id OBVIOUS
  <2>2. task[r].pc = "call" BY <1>5 DEF SmokeReplies, SmokeFails
  <2>3. m \in DOMAIN reply BY <2>1, <2>2 DEF ScoreIInv, RunsCall, RunCall, Calls
  <2>4. PICK e : reply' = [reply EXCEPT ![m] = e] /\ SameRoute(reply[m], e)
    <3>1. SameRoute(reply[m], Scored(m)) BY <1>2, <2>3, SameCall
    <3>2. PICK e : e = [reply[m] EXCEPT !.state = "failed"] OBVIOUS
    <3>3. SameRoute(reply[m], e) BY <1>2, <2>3, <3>2, SameCall
    <3>4. CASE SmokeReplies(r) BY <2>1, <3>1, <3>4 DEF SmokeReplies
    <3>5. CASE SmokeFails(r)
      <4>1. reply' = [reply EXCEPT ![m] = e] BY <2>1, <2>2, <3>2, <3>5 DEF SmokeFails
      <4> QED BY <3>3, <4>1
    <3> QED BY <1>5, <3>4, <3>5
  <2> QED BY <1>1, <1>2, <2>3, <2>4, RouteAlters
<1>6. PersonaTurn(r) \/ SmokeAskScores(r) \/ FinishRun(r) \/ FailRun(r) => UNCHANGED reply
  BY DEF PersonaTurn, SmokeAskScores, FinishRun, FailRun
<1> QED BY <1>3, <1>4, <1>5, <1>6 DEF SmokeStep

LEMMA RouteRestart ==
  ASSUME EvaluationTypes, RouteIInv, Restart PROVE RouteIInv'
<1>1. UNCHANGED exp BY DEF Restart
<1>2. PICK old : old = reply OBVIOUS
<1>3. old \in Seq(Reply) BY <1>2 DEF EvaluationTypes
<1>4. reply' = [m \in 1 .. Len(old) |->
                  [old[m] EXCEPT !.queue = << >>,
                                 !.state = IF @ = "calling" THEN "failed" ELSE @]]
  BY <1>2 DEF Restart
<1>5. DOMAIN reply' = 1 .. Len(old) /\ DOMAIN old = 1 .. Len(old)
  <2>1. DOMAIN reply' = 1 .. Len(old) BY <1>4, Zenon
  <2>2. DOMAIN old = 1 .. Len(old) BY <1>3
  <2> QED BY <2>1, <2>2
<1>6. ASSUME NEW m \in DOMAIN reply PROVE SameRoute(reply[m], reply'[m])
  <2>1. PICK how : how = IF old[m].state = "calling" THEN "failed" ELSE old[m].state OBVIOUS
  <2>2. reply'[m] = [old[m] EXCEPT !.queue = << >>, !.state = how]
    <3>1. m \in 1 .. Len(old) BY <1>2, <1>5
    <3> QED BY <1>4, <2>1, <3>1
  <2>3. \A h, list : SameRoute(reply[m], [reply[m] EXCEPT !.queue = list, !.state = h])
    BY SameCall
  <2>4. PICK e : e = [old[m] EXCEPT !.queue = << >>, !.state = how] OBVIOUS
  <2>5. SameRoute(reply[m], e) BY <1>2, <2>3, <2>4
  <2>6. reply'[m] = e BY <2>2, <2>4
  <2> QED BY <2>5, <2>6
<1>7. \A m \in DOMAIN reply' : m \in DOMAIN reply /\ SameRoute(reply[m], reply'[m])
  BY <1>2, <1>5, <1>6
<1> QED BY <1>1, <1>7, RouteKept

LEMMA RouteStarts == EvaluationInit => RouteIInv
BY DEF EvaluationInit, RouteIInv

LEMMA RouteStep == ScoreIInv /\ RouteIInv /\ [EvaluationNext]_evaluationVars => RouteIInv'
<1> SUFFICES ASSUME ScoreIInv, RouteIInv, [EvaluationNext]_evaluationVars PROVE RouteIInv' OBVIOUS
<1>1. EvaluationTypes /\ DOMAIN reply = 1 .. Len(reply) BY DEF ScoreIInv, EvaluationTypes
<1>2. ASSUME NEW u \in Users, ChatStep(u) PROVE RouteIInv'
  BY <1>2, RouteRoute, RouteTurnEnds DEF ChatStep
<1>3. ASSUME NEW m \in 1 .. Len(reply), BackgroundStep(m) PROVE RouteIInv'
  BY <1>1, <1>3, RouteBackground
<1>4. ASSUME NEW r \in Runs, SmokeStep(r) PROVE RouteIInv'
  BY <1>4, RouteSmoke
<1>5. CASE Restart BY <1>1, <1>5, RouteRestart
<1>6. CASE UNCHANGED <<exp, reply>>
  <2>1. \A m \in DOMAIN reply' : m \in DOMAIN reply /\ SameRoute(reply[m], reply'[m])
    BY <1>6 DEF SameRoute
  <2> QED BY <1>6, <2>1, RouteKept
<1>7. ASSUME NEW u \in Users, NEW stream \in BOOLEAN, AskScores(u, stream)
      PROVE  UNCHANGED <<exp, reply>>
  BY <1>7 DEF AskScores
<1>8. ASSUME NEW t \in Tests, RunNow(t) PROVE UNCHANGED <<exp, reply>> BY <1>8 DEF RunNow
<1>9. ASSUME NEW r \in Runs, StartRun(r) PROVE UNCHANGED <<exp, reply>> BY <1>9 DEF StartRun
<1>10. ASSUME NEW a \in Agents, NEW list \in JudgeLists \cup {Gone}, EditAgent(a, list)
       PROVE  UNCHANGED <<exp, reply>>
  BY <1>10 DEF EditAgent
<1>11. Age \/ StartFails \/ UNCHANGED evaluationVars => UNCHANGED <<exp, reply>>
  BY DEF Age, StartFails, evaluationVars
<1> QED BY <1>2, <1>3, <1>4, <1>5, <1>6, <1>7, <1>8, <1>9, <1>10, <1>11 DEF EvaluationNext

\* The strategies keep their promise, by the routes of all replies.
LEMMA RouteSound == EvaluationTypes /\ RouteIInv => RoutingHonoured
<1> SUFFICES ASSUME EvaluationTypes, RouteIInv PROVE RoutingHonoured OBVIOUS
<1>1. \A m \in 1 .. Len(reply) : WellRouted(exp, reply[m]) BY DEF EvaluationTypes, RouteIInv
<1>2. PrimaryServes BY <1>1 DEF PrimaryServes, WellRouted
<1>3. StickyUser BY <1>1 DEF StickyUser, WellRouted
<1> QED BY <1>2, <1>3 DEF RoutingHonoured

\* The picks are those the strategies define, on whatever scores there are.
LEMMA PicksDefined == EvaluationTypes => PicksAsDefined
<1> SUFFICES ASSUME EvaluationTypes PROVE PicksAsDefined OBVIOUS
<1>1. WeightsRespected BY Shares DEF WeightsRespected, Valid
<1> QED BY <1>1, ArmsFilled, LeaderBest DEF PicksAsDefined

\* Who serves a turn, for any experiment, scores, users and edits of agents: a
\* valid shadow serves its primary, a sticky split one arm per user; the arms
\* of a split have their share of the seeds, a bandit fills the arms that lack
\* samples and then serves the best (crates/experiments/src/router.rs).
THEOREM SoundRouting == EvaluationSpec => []RoutingSound
<1>1. EvaluationInit => ScoreIInv /\ RouteIInv BY ScoreStarts, RouteStarts
<1>2. ScoreIInv /\ RouteIInv /\ [EvaluationNext]_evaluationVars => (ScoreIInv /\ RouteIInv)'
  BY ScoreStep, RouteStep
<1>3. ScoreIInv /\ RouteIInv => RoutingSound
  BY RouteSound, PicksDefined DEF ScoreIInv, RoutingSound
<1> QED BY <1>1, <1>2, <1>3, PTL DEF EvaluationSpec

=============================================================================
