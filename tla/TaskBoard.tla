------------------------------ MODULE TaskBoard ------------------------------
(***************************************************************************)
(* What the task queue promises to the people who submit work: a task is   *)
(* picked up at most once, by one worker, is finished only by that worker, *)
(* and is declared failed by somebody else only when no worker holds it.   *)
(* Nothing here knows about rows, transactions, snapshots or clocks.       *)
(***************************************************************************)
EXTENDS Naturals

CONSTANTS
  Tasks,      \* task identities
  Workers,    \* worker identities
  NoWorker    \* holder of a task nobody executes

VARIABLES
  status,     \* status[t]: where the task stands
  holder      \* holder[t]: the worker executing t, or NoWorker

boardVars == <<status, holder>>

Terminal == {"done", "errored"}

BoardInit ==
  /\ status = [t \in Tasks |-> "absent"]
  /\ holder = [t \in Tasks |-> NoWorker]

\* A submitter puts a new task on the board.
Enqueue(t) ==
  /\ status[t] = "absent"
  /\ status' = [status EXCEPT ![t] = "queued"]
  /\ UNCHANGED holder

\* A worker that executes nothing takes a waiting task.
Start(w, t) ==
  /\ status[t] = "queued"
  /\ \A u \in Tasks : holder[u] # w
  /\ status' = [status EXCEPT ![t] = "running"]
  /\ holder' = [holder EXCEPT ![t] = w]

\* Only the worker that executes a task finishes it.
Finish(t) ==
  /\ holder[t] # NoWorker
  /\ status[t] = "running"
  /\ \E s \in Terminal : status' = [status EXCEPT ![t] = s]
  /\ holder' = [holder EXCEPT ![t] = NoWorker]

\* Work is lost: the outcome of some executions is never recorded.
Abandon(S) ==
  /\ holder' = [t \in Tasks |-> IF t \in S THEN NoWorker ELSE holder[t]]
  /\ UNCHANGED status

\* Running tasks that nobody executes are declared failed.
Reap(S) ==
  /\ \A t \in S : status[t] = "running" /\ holder[t] = NoWorker
  /\ status' = [t \in Tasks |-> IF t \in S THEN "errored" ELSE status[t]]
  /\ UNCHANGED holder

BoardNext ==
  \/ \E t \in Tasks : Enqueue(t) \/ Finish(t)
  \/ \E w \in Workers, t \in Tasks : Start(w, t)
  \/ \E S \in SUBSET Tasks : Abandon(S) \/ Reap(S)

BoardSpec == BoardInit /\ [][BoardNext]_boardVars
==============================================================================
