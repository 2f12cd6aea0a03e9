---------------------------- MODULE ConfigStore ----------------------------
(***************************************************************************)
(* The configuration of a running server: coulisse.yaml, the ConfigStore   *)
(* that edits and watches it (cli/src/config_store.rs), the section        *)
(* editors (cli/src/admin_extras.rs), and one list that the database       *)
(* overlays (crates/agents; judges, experiments and smoke share the code). *)
(*                                                                         *)
(* A document has the sections "agents", "providers" and "misc".  A        *)
(* provider's key is written out ("key") or a placeholder of something set *)
(* ("ref") or not ("unset"): reading the file expands placeholders and     *)
(* fails on the latter, writing does not look at them.                     *)
(***************************************************************************)
EXTENDS Overlay, Naturals, FiniteSets

CONSTANTS
  Reqs,        \* studio requests, one operation each
  Watcher,     \* the file watcher's task
  Broken,      \* a file that is not YAML
  Values,      \* contents of a singleton section
  HandEdits,   \* what an operator may save, Broken included
  Bodies,      \* bodies of PUT /admin/config
  Keys,        \* keys that requests give a provider
  Edited,      \* bound: the names requests create, update or reset
  Boot,        \* the file at the first boot
  MaxEdits,    \* bound: hand edits
  MaxFaults    \* bound: failed reads and writes, disconnects, restarts

Key == {"none", "ref", "unset", "key"}
Doc == [agents : List, providers : [Kinds -> Key], misc : Values]

\* from_path expands placeholders before it parses; each must be closed and set.
Expands(d) == \A k \in Kinds : d.providers[k] # "unset"

Expand(d) ==
  [d EXCEPT !.providers = [k \in Kinds |-> IF @[k] = "ref" THEN "key" ELSE @[k]]]

\* Config::validate: some agent, and every agent's provider is configured.
Valid(d) ==
  /\ \E n \in Names : d.agents[n] # None
  /\ \A n \in Names : d.agents[n] # None => d.providers[d.agents[n]] # "none"

\* What a save accepts, and what a load does.
Savable(f) == f # Broken /\ Valid(f)
Loads(f)   == Savable(f) /\ Expands(f)

ASSUME ConfigStoreAssumption ==
  /\ Watcher \notin Reqs /\ None \notin Reqs \cup {Watcher}
  /\ Broken \notin Doc /\ HandEdits \subseteq Doc \cup {Broken} /\ Bodies \subseteq Doc
  /\ Keys \subseteq Key \ {"none"} /\ Edited \subseteq Names /\ Boot \in Doc /\ Valid(Boot) /\ Expands(Boot)
  /\ MaxEdits \in Nat /\ MaxFaults \in Nat

VARIABLES
  file,       \* coulisse.yaml on disk
  pending,    \* the watcher's channel holds an event
  snapshot,   \* ConfigStore::snapshot
  yaml,       \* yaml_agents: the list as the file last loaded declares it
  rows,       \* dynamic_agents
  live,       \* agents_list: what requests are served with
  lock,       \* holder of ConfigStore::write_lock
  pc,         \* where each request and the watcher are
  want,       \* the section a request writes and its new contents
  root,       \* the document a request read, or the watcher loaded
  arg,        \* the YAML list a rebuild was given
  db,         \* the rows a rebuild read
  target,     \* the name a remove is about and whether YAML declares it
  edits, faults,
  overtaken,  \* history: writers whose document a hand edit replaced
  unseen,     \* history: the last hand edit fell between boot's read and the watcher
  alone,      \* history: the rebuild under way, if it met no other
  exact       \* history: the last rebuild ran alone and to its end

Actors   == Reqs \cup {Watcher}
fileVars == <<file, pending>>
memVars  == <<snapshot, yaml, live>>
procVars == <<pc, want, root, arg, db, target>>
history  == <<overtaken, unseen, alone, exact>>
vars == <<fileVars, memVars, rows, lock, procVars, edits, faults, history>>

\* Between its write to `yaml` or `rows` and its publication.
Rebuilding(x) == pc[x] \in {"load", "list", "publish"}
Goto(x, where) == pc' = [pc EXCEPT ![x] = where]
Over(x) == IF x = Watcher THEN "idle" ELSE "done"
Fault == faults < MaxFaults /\ faults' = faults + 1

Begun(x) == alone' = IF \E y \in Actors : Rebuilding(y) THEN {} ELSE {x}
Cut(x)   == /\ exact' = (exact /\ ~Rebuilding(x))
            /\ alone' = IF Rebuilding(x) THEN {} ELSE alone
Release(x) == lock' = IF lock = x THEN None ELSE lock

\* A new request: the server has started its watcher, then serves.
Idle(x) == pc[x] = "idle" /\ pc[Watcher] # "boot"

NoWant   == [sec |-> "misc", val |-> Boot.misc]
NoTarget == [name |-> CHOOSE n \in Names : TRUE, backed |-> FALSE]
NoRows   == [n \in Names |-> None]
locals   == <<want, root, arg, db, target>>

\* The handler returns: its locals are gone.
Leave(x) ==
  /\ Goto(x, Over(x)) /\ Release(x)
  /\ want' = IF x = Watcher THEN want ELSE [want EXCEPT ![x] = NoWant]
  /\ target' = IF x = Watcher THEN target ELSE [target EXCEPT ![x] = NoTarget]
  /\ root' = [root EXCEPT ![x] = Boot]
  /\ arg' = [arg EXCEPT ![x] = Boot.agents]
  /\ db' = [db EXCEPT ![x] = NoRows]

Init ==
  /\ file = Boot /\ pending = FALSE /\ snapshot = Expand(Boot)
  /\ yaml = Boot.agents /\ rows = NoRows /\ live = Boot.agents
  /\ lock = None /\ pc = [x \in Actors |-> "idle"]
  /\ want = [x \in Reqs |-> NoWant] /\ root = [x \in Actors |-> Boot]
  /\ arg = [x \in Actors |-> Boot.agents] /\ db = [x \in Actors |-> NoRows]
  /\ target = [x \in Reqs |-> NoTarget]
  /\ edits = 0 /\ faults = 0 /\ overtaken = {} /\ unseen = FALSE
  /\ alone = {} /\ exact = TRUE
-----------------------------------------------------------------------------
(* The database overlay: AgentsAdmin *)

\* create and update: both upsert, whether or not the name exists.
PutAgent(x, n, c) ==
  /\ Idle(x)
  /\ rows' = PutActive(rows, n, c)
  /\ Goto(x, "load") /\ Begun(x)
  /\ UNCHANGED <<fileVars, memVars, lock, locals, edits, faults, overtaken, unseen, exact>>

\* reset: 404 without a row.
ResetAgent(x, n) ==
  /\ Idle(x) /\ rows[n] # None
  /\ rows' = Delete(rows, n)
  /\ Goto(x, "load") /\ Begun(x)
  /\ UNCHANGED <<fileVars, memVars, lock, locals, edits, faults, overtaken, unseen, exact>>

\* remove_agent looks at the YAML list, then at the rows, then writes.
RemoveAgent(x, n) ==
  /\ Idle(x)
  /\ target' = [target EXCEPT ![x] = [name |-> n, backed |-> yaml[n] # None]]
  /\ Goto(x, "exists")
  /\ UNCHANGED <<fileVars, memVars, rows, lock, want, root, arg, db, edits, faults, history>>

RemoveLookup(x) ==
  /\ pc[x] = "exists" /\ (target[x].backed \/ rows[target[x].name] # None)
  /\ Goto(x, "drop")
  /\ UNCHANGED <<fileVars, memVars, rows, lock, locals, edits, faults, history>>

\* 404: neither the file nor the database knows the name.
RemoveUnknown(x) ==
  /\ pc[x] = "exists" /\ ~target[x].backed /\ rows[target[x].name] = None
  /\ Leave(x)
  /\ UNCHANGED <<fileVars, memVars, rows, edits, faults, history>>

RemoveWrite(x) ==
  /\ pc[x] = "drop"
  /\ rows' = IF target[x].backed THEN PutTombstone(rows, target[x].name)
             ELSE Delete(rows, target[x].name)
  /\ Goto(x, "load") /\ Begun(x)
  /\ UNCHANGED <<fileVars, memVars, lock, locals, edits, faults, overtaken, unseen, exact>>

\* rebuild: load the YAML list, read the rows, publish the merge.
LoadYaml(x) ==
  /\ pc[x] = "load"
  /\ arg' = [arg EXCEPT ![x] = yaml]
  /\ Goto(x, "list")
  /\ UNCHANGED <<fileVars, memVars, rows, lock, want, root, db, target, edits, faults, history>>

ListRows(x) ==
  /\ pc[x] = "list"
  /\ db' = [db EXCEPT ![x] = rows]
  /\ Goto(x, "publish")
  /\ UNCHANGED <<fileVars, memVars, rows, lock, want, root, arg, target, edits, faults, history>>

\* The rows cannot be read: a request fails, a reload keeps the old list.
ListFails(x) ==
  /\ pc[x] = "list" /\ Fault
  /\ Cut(x) /\ Leave(x)
  /\ UNCHANGED <<fileVars, memVars, rows, edits, overtaken, unseen>>

Publish(x) ==
  /\ pc[x] = "publish"
  /\ live' = Merge(arg[x], db[x])
  /\ exact' = (x \in alone) /\ alone' = alone \ {x}
  /\ Leave(x)
  /\ UNCHANGED <<fileVars, snapshot, yaml, rows, edits, faults, overtaken, unseen>>
-----------------------------------------------------------------------------
(* The section editors: they take the snapshot, change it and queue for    *)
(* write_lock with the result.                                             *)

Ask(x, sec, val) ==
  /\ want' = [want EXCEPT ![x] = [sec |-> sec, val |-> val]]
  /\ Goto(x, "lock")
  /\ UNCHANGED <<fileVars, memVars, rows, lock, root, arg, db, target, edits, faults, history>>

\* providers_create answers 409 for a kind it finds, providers_update and
\* providers_remove 404 for one they do not.
CreateEntry(x, k, v) ==
  /\ Idle(x) /\ snapshot.providers[k] = "none"
  /\ Ask(x, "providers", [snapshot.providers EXCEPT ![k] = v])

UpdateEntry(x, k, v) ==
  /\ Idle(x) /\ snapshot.providers[k] # "none"
  /\ Ask(x, "providers", [snapshot.providers EXCEPT ![k] = v])

RemoveEntry(x, k) ==
  /\ Idle(x) /\ snapshot.providers[k] # "none"
  /\ Ask(x, "providers", [snapshot.providers EXCEPT ![k] = "none"])

\* auth_put, memory_put, storage_put, telemetry_put: the body is the section.
PutSection(x, v) == Idle(x) /\ Ask(x, "misc", v)

\* PUT /admin/config: the body is the file.
PutConfig(x, d) == Idle(x) /\ Ask(x, "all", d)
-----------------------------------------------------------------------------
(* ConfigStore: write_section and write_all *)

\* A bug for the checks: writers do not exclude one another.
AcquireShared(x) ==
  /\ pc[x] = "lock"
  /\ lock' = x
  /\ root' = [root EXCEPT ![x] = file]
  /\ Goto(x, "write")
  /\ UNCHANGED <<fileVars, memVars, rows, want, arg, db, target, edits, faults, history>>

\* Takes write_lock and reads the file.
Acquire(x) ==
  /\ pc[x] = "lock" /\ lock = None
  /\ lock' = x
  /\ root' = [root EXCEPT ![x] = file]
  /\ Goto(x, "write")
  /\ UNCHANGED <<fileVars, memVars, rows, want, arg, db, target, edits, faults, history>>

\* The document a writer would store.
Result(x) ==
  IF want[x].sec = "all" THEN want[x].val
  ELSE IF root[x] = Broken THEN Broken
  ELSE IF want[x].sec = "misc" THEN [root[x] EXCEPT !.misc = want[x].val]
  ELSE [root[x] EXCEPT !.providers = want[x].val]

\* validate_and_write, then the part of apply before its first wait.  The
\* configuration kept in memory was parsed without expanding placeholders.
Commit(x) ==
  /\ pc[x] = "write" /\ Savable(Result(x))
  /\ file' = Result(x) /\ pending' = TRUE
  /\ snapshot' = Result(x)
  /\ yaml' = Result(x).agents
  /\ arg' = [arg EXCEPT ![x] = Result(x).agents]
  /\ unseen' = FALSE
  /\ Goto(x, "list") /\ Begun(x)
  /\ UNCHANGED <<live, rows, lock, want, root, db, target, edits, faults, overtaken, exact>>

\* The file cannot be parsed, or the result is not a valid configuration.
Rejected(x) ==
  /\ pc[x] = "write" /\ ~Savable(Result(x))
  /\ Leave(x)
  /\ UNCHANGED <<fileVars, memVars, rows, edits, faults, history>>

\* The file cannot be read or replaced.
WriteFails(x) ==
  /\ pc[x] = "write" /\ Fault
  /\ Leave(x)
  /\ UNCHANGED <<fileVars, memVars, rows, edits, history>>

\* The client goes away: the handler is dropped where it waits.
Abandon(x) ==
  /\ pc[x] \in {"exists", "drop", "load", "list", "publish", "lock"} /\ Fault
  /\ Cut(x) /\ Leave(x)
  /\ UNCHANGED <<fileVars, memVars, rows, edits, overtaken, unseen>>
-----------------------------------------------------------------------------
(* The watcher *)

\* Waits for an event, lets the burst settle and drains the channel.
WatchTake ==
  /\ pc[Watcher] = "idle" /\ pending
  /\ pending' = FALSE
  /\ Goto(Watcher, "read")
  /\ UNCHANGED <<file, memVars, rows, lock, locals, edits, faults, history>>

\* reload_from_disk: a file that does not expand, parse or pass validation
\* changes nothing.
WatchRead ==
  /\ pc[Watcher] = "read"
  /\ root' = IF Loads(file) THEN [root EXCEPT ![Watcher] = Expand(file)] ELSE root
  /\ Goto(Watcher, IF Loads(file) THEN "store" ELSE "idle")
  /\ UNCHANGED <<fileVars, memVars, rows, lock, want, arg, db, target, edits, faults, history>>

\* A bug for the checks: events that came in meanwhile are drained too.
WatchStoreDrains ==
  /\ pc[Watcher] = "store"
  /\ snapshot' = root[Watcher] /\ pending' = FALSE
  /\ yaml' = root[Watcher].agents
  /\ arg' = [arg EXCEPT ![Watcher] = root[Watcher].agents]
  /\ Goto(Watcher, "list") /\ Begun(Watcher)
  /\ UNCHANGED <<file, live, rows, lock, want, root, db, target, edits, faults, overtaken, unseen, exact>>

WatchStore ==
  /\ pc[Watcher] = "store"
  /\ snapshot' = root[Watcher]
  /\ yaml' = root[Watcher].agents
  /\ arg' = [arg EXCEPT ![Watcher] = root[Watcher].agents]
  /\ Goto(Watcher, "list") /\ Begun(Watcher)
  /\ UNCHANGED <<fileVars, live, rows, lock, want, root, db, target, edits, faults, overtaken, unseen, exact>>
-----------------------------------------------------------------------------
(* The environment *)

\* An editor saves the file; nobody is told before the watcher runs.
HandEdit(d) ==
  /\ edits < MaxEdits /\ d # file
  /\ file' = d
  /\ pending' = (pc[Watcher] # "boot") /\ unseen' = (pc[Watcher] = "boot")
  /\ edits' = edits + 1
  /\ overtaken' = overtaken \cup {x \in Reqs : pc[x] = "write"}
  /\ UNCHANGED <<memVars, rows, lock, procVars, faults, alone, exact>>

\* The process ends and a new one loads the file and the rows.
Restart ==
  /\ Loads(file) /\ Fault
  /\ snapshot' = Expand(file) /\ yaml' = file.agents /\ live' = Merge(file.agents, rows)
  /\ lock' = None /\ pending' = FALSE /\ unseen' = FALSE
  /\ pc' = [x \in Actors |-> IF x = Watcher THEN "boot"
                             ELSE IF pc[x] = "idle" THEN "idle" ELSE "done"]
  /\ alone' = {} /\ exact' = TRUE
  /\ want' = [x \in Reqs |-> NoWant] /\ root' = [x \in Actors |-> Boot]
  /\ arg' = [x \in Actors |-> Boot.agents] /\ db' = [x \in Actors |-> NoRows]
  /\ target' = [x \in Reqs |-> NoTarget]
  /\ UNCHANGED <<file, rows, edits, overtaken>>

\* Boot::run starts the watcher last, just before it serves.
StartWatcher ==
  /\ pc[Watcher] = "boot"
  /\ Goto(Watcher, "idle")
  /\ UNCHANGED <<fileVars, memVars, rows, lock, locals, edits, faults, history>>
-----------------------------------------------------------------------------
Start(x) ==
  \/ \E n \in Edited : (\E c \in Kinds : PutAgent(x, n, c)) \/ ResetAgent(x, n)
  \/ \E n \in Names : RemoveAgent(x, n)
  \/ \E k \in Kinds : \/ \E v \in Keys : CreateEntry(x, k, v)
                      \/ \E v \in Keys : UpdateEntry(x, k, v)
                      \/ RemoveEntry(x, k)
  \/ \E v \in Values : PutSection(x, v)
  \/ \E d \in Bodies : PutConfig(x, d)

\* One step of a request that has begun.
Work(x) ==
  \/ RemoveLookup(x) \/ RemoveUnknown(x) \/ RemoveWrite(x) \/ LoadYaml(x) \/ ListRows(x) \/ Publish(x)
  \/ Acquire(x) \/ Commit(x) \/ Rejected(x)

Watch ==
  \/ WatchTake \/ WatchRead \/ WatchStore \/ StartWatcher
  \/ ListRows(Watcher) \/ Publish(Watcher)

Trouble ==
  \/ \E x \in Reqs : WriteFails(x) \/ Abandon(x)
  \/ \E x \in Actors : ListFails(x)
  \/ Restart

\* Every request has been answered and the watcher has nothing to do.
Finished ==
  /\ \A x \in Reqs : pc[x] = "done"
  /\ pc[Watcher] = "idle" /\ ~pending
  /\ UNCHANGED vars

Next ==
  \/ \E x \in Reqs : Start(x) \/ Work(x)
  \/ Watch
  \/ Trouble
  \/ \E d \in HandEdits : HandEdit(d)
  \/ Finished

Spec == Init /\ [][Next]_vars

\* The runtime polls every task that can go on.
FairSpec == Spec /\ WF_vars(Watch) /\ \A x \in Reqs : WF_vars(Work(x))
-----------------------------------------------------------------------------
(* Properties *)

Wants == [sec : {"providers"}, val : [Kinds -> Key]] \cup [sec : {"misc"}, val : Values]
         \cup [sec : {"all"}, val : Bodies]

\* The variables hold what the code's types allow.
TypeOK ==
  /\ file \in Doc \cup {Broken} /\ pending \in BOOLEAN
  /\ snapshot \in Doc /\ yaml \in List /\ rows \in Rows /\ live \in List
  /\ lock \in Reqs \cup {None}
  /\ pc \in [Actors -> {"idle", "boot", "read", "store", "exists", "drop", "load", "list",
                        "publish", "lock", "write", "done"}]
  /\ want \in [Reqs -> Wants] /\ root \in [Actors -> Doc \cup {Broken}]
  /\ arg \in [Actors -> List] /\ db \in [Actors -> Rows]
  /\ target \in [Reqs -> [name : Names, backed : BOOLEAN]]
  /\ edits \in 0..MaxEdits /\ faults \in 0..MaxFaults
  /\ overtaken \subseteq Reqs /\ unseen \in BOOLEAN
  /\ alone \subseteq Actors /\ exact \in BOOLEAN

\* What the server keeps in memory always passes Config::validate, whatever
\* is saved by hand and whatever two editors write one after the other.
SnapshotValid == Valid(snapshot)

\* DynamicAgents::rebuild: once the last write has been rebuilt by a task that
\* met no other rebuild, requests are served with exactly the YAML list
\* overlaid by the rows, whoever wrote either of them.
LiveIsMerge ==
  exact /\ (\A x \in Actors : ~Rebuilding(x)) => live = Merge(yaml, rows)

\* The studio's page and the running server agree on the list: the page shows
\* every entry that runs, with the configuration it runs with, and no other
\* that is not marked as disabled.
StudioShowsLive ==
  exact /\ (\A x \in Actors : ~Rebuilding(x)) =>
    {<<r.name, r.config>> : r \in {q \in AdminView(yaml, rows) : q.config # None}}
      = {<<n, live[n]>> : n \in {m \in Names : live[m] # None}}

\* What is served is what is configured, and the studio says so.
ServedAsConfigured == SnapshotValid /\ LiveIsMerge /\ StudioShowsLive

\* admin.rs says that the list is updated "after every write so the runtime
\* hot path picks up admin edits immediately": short of failures, nothing
\* is left to do once no rebuild is under way.
EditsAreLive ==
  faults = 0 /\ (\A x \in Actors : ~Rebuilding(x)) => live = Merge(yaml, rows)

\* write_section changes its own section only: no edit of another section,
\* by another request or by hand, is undone, short of an editor that saves
\* in the instant between the read and the rename.
SectionsKept ==
  [][\A x \in Reqs :
       pc[x] = "write" /\ pc'[x] = "list" /\ want[x].sec # "all" /\ x \notin overtaken
       => /\ file # Broken
          /\ file'.agents = file.agents
          /\ want[x].sec = "misc" => file'.providers = file.providers
          /\ want[x].sec = "providers" => file'.misc = file.misc]_vars

\* The watcher catches up: once everybody has stopped editing, memory holds
\* the file as boot would load it, however saves, reloads and requests met.
\* An edit made while the server boots is the one it may miss.
Converges ==
  <>[](Loads(file) /\ ~unseen => snapshot = Expand(file) /\ yaml = file.agents)

\* write_lock is always handed back: every request that began is answered.
RequestsEnd == \A x \in Reqs : pc[x] # "idle" ~> pc[x] \in {"idle", "done"}

\* The configuration settles: the watcher catches up and requests end.
Settles == Converges /\ RequestsEnd
=============================================================================
