----------------------------- MODULE MCTaskQueue -----------------------------
(* TaskQueue for TLC, and Boot: servers of two releases that share a state  *)
(* directory.  A behaviour is about the queue or about the boots.           *)
EXTENDS TaskQueue, Boot, TLC

Old == <<1, 1>>
New == <<2, 3>>
MCSettings ==
  {[release |-> Old, oauth |-> TRUE, env |-> "none", restart |-> "always"],
   [release |-> New, oauth |-> TRUE, env |-> "one", restart |-> "on-failure"],
   [release |-> New, oauth |-> FALSE, env |-> "none", restart |-> "never"],
   [release |-> New, oauth |-> TRUE, env |-> "both", restart |-> "on-failure"]}

VARIABLE part
MCInit == Init /\ BootInit /\ part \in {"queue", "boots"}

\* Boots are bounded, so that part may stop; the queue never does.
MCNext ==
  \/ part = "queue" /\ Next /\ UNCHANGED <<bootVars, part>>
  \/ part = "boots" /\ BootNext /\ UNCHANGED <<vars, part>>
  \/ part = "boots" /\ UNCHANGED <<vars, bootVars, part>>

\* Fairness of TaskQueue, in the part that is about it.
MCFairness ==
  /\ \A w \in Workers : WF_vars(part = "queue" /\ WorkerStep(w))
  /\ WF_vars(part = "queue" /\ Boot)

MCSpec == MCInit /\ [][MCNext]_<<vars, bootVars, part>> /\ MCFairness
==============================================================================
