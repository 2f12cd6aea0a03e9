-------------------------------- MODULE Boot --------------------------------
(***************************************************************************)
(* One boot of a server (Boot::run, cli/src/commands/serve.rs) seen from   *)
(* the state directory it shares with every other server started on the   *)
(* same coulisse.yaml: the secrets file, the schema of each feature in the *)
(* database, the port, and the sidecars it spawns.  Boots overlap, since   *)
(* nothing excludes them before the bind; any step may fail; a server may  *)
(* be killed at any point, which is also what `coulisse stop` does to it.  *)
(***************************************************************************)
EXTENDS Integers, FiniteSets

CONSTANTS
  Servers,     \* server processes
  Features,    \* number of migrators, run in the order 1..Features; 1 is the vault
  Settings,    \* what one boot finds: release, oauth, env, restart
  Sidecars,    \* entries of `sidecars:`
  Absent, Torn,  \* the secrets file is missing, or created and not yet written
  EnvKey,      \* the key pair of the environment
  NoServer,    \* "port free"
  MaxBoots, MaxMishaps  \* bounds: boots in all; kills and steps that fail

\* A release is the version each of its migrators targets: VERSIONS, of which
\* a later release has more, is 1..release[f].
ASSUME BootAssumption ==
  /\ Features \in Nat \ {0} /\ Settings # {}
  /\ Settings \subseteq [release : [1..Features -> Nat \ {0}], oauth : BOOLEAN,
                         env : {"both", "one", "none"}, restart : {"always", "never", "on-failure"}]
  /\ Absent \notin Nat /\ Torn \notin Nat /\ EnvKey \notin Nat /\ Absent # Torn
  /\ NoServer \notin Servers /\ MaxBoots \in Nat /\ MaxMishaps \in Nat

VARIABLES
  file, minted,        \* secrets.env; how many key pairs were generated
  stored, tables,      \* coulisse_schema_versions, 0 for no row; whose tables exist
  holder,              \* the server that listens on the port
  at, setting, key,    \* progress, settings and keys of each server
  feature, from,       \* the migrator it runs and the version that one is at
  sidecar, last,       \* state of each supervisor; how its last child ended
  orphans,             \* children whose server is gone
  boots, mishaps, kills

stateDir  == <<file, minted, stored, tables, holder>>
children  == <<sidecar, last, orphans>>
mishapVars == <<mishaps, kills>>
bootVars == <<stateDir, at, setting, key, feature, from, children, boots, mishapVars>>

Target(s) == setting[s].release[feature[s]]
AnySetting == CHOOSE x \in Settings : TRUE
Unsupervised == [c \in Sidecars |-> "none"]
Unended      == [c \in Sidecars |-> "none"]

BootInit ==
  /\ file = Absent /\ minted = 0 /\ holder = NoServer
  /\ stored = [f \in 1..Features |-> 0] /\ tables = [f \in 1..Features |-> {}]
  /\ at = [s \in Servers |-> "off"]
  /\ setting = [s \in Servers |-> AnySetting] /\ key = [s \in Servers |-> 0]
  /\ feature = [s \in Servers |-> 1] /\ from = [s \in Servers |-> 0]
  /\ sidecar = [s \in Servers |-> Unsupervised] /\ last = [s \in Servers |-> Unended]
  /\ orphans = [c \in Sidecars |-> 0]
  /\ boots = 0 /\ mishaps = 0 /\ kills = 0

Reach(s, where) == at' = [at EXCEPT ![s] = where]
Mishap == mishaps < MaxMishaps /\ mishaps' = mishaps + 1

\* run_blocking: the configuration is read once; mcp_secrets resolves keys only
\* when some server has an `oauth:` block, and without keys there is no vault.
Start(s) ==
  /\ at[s] = "off" /\ boots < MaxBoots /\ boots' = boots + 1
  /\ \E x \in Settings :
       /\ setting' = [setting EXCEPT ![s] = x]
       /\ Reach(s, IF x.oauth THEN "secrets" ELSE "migrate")
       /\ feature' = [feature EXCEPT ![s] = IF x.oauth THEN 1 ELSE 2]
  /\ UNCHANGED <<stateDir, key, from, children, mishapVars>>

(* Leaving *)

Leave(s) ==
  /\ Reach(s, "off")
  /\ holder' = IF holder = s THEN NoServer ELSE holder
  /\ sidecar' = [sidecar EXCEPT ![s] = Unsupervised] /\ last' = [last EXCEPT ![s] = Unended]
  /\ setting' = [setting EXCEPT ![s] = AnySetting] /\ key' = [key EXCEPT ![s] = 0]
  /\ feature' = [feature EXCEPT ![s] = 1] /\ from' = [from EXCEPT ![s] = 0]
  /\ UNCHANGED <<file, minted, stored, tables, boots>>

Outlive(s) ==
  orphans' = [c \in Sidecars |-> orphans[c] + IF sidecar[s][c] = "running" THEN 1 ELSE 0]

\* A bug for the checks: the children are not tied to the runtime.
ExitDetached(s) == Leave(s) /\ Outlive(s) /\ UNCHANGED kills

\* An error of a boot step drops the runtime, and `kill_on_drop` its children.
Exit(s) == Leave(s) /\ UNCHANGED <<orphans, kills>>

\* Any step of the boot returns an error, or the listener closes.
Fail(s) == at[s] # "off" /\ Mishap /\ Exit(s)

\* SIGKILL, or the SIGTERM of `coulisse stop`, which nothing handles: no
\* destructor runs and the children live on.
Kill(s) == at[s] # "off" /\ Mishap /\ kills' = kills + 1 /\ Leave(s) /\ Outlive(s)

OrphanEnds(c) ==
  /\ orphans[c] > 0 /\ orphans' = [orphans EXCEPT ![c] = @ - 1]
  /\ UNCHANGED <<stateDir, at, setting, key, feature, from, sidecar, last, boots, mishapVars>>

(* Secrets::resolve *)

\* The environment wins with both keys; a lone key falls through to the file; a
\* file that does not hold both is Malformed, and the boot refused.
ResolveSecrets(s) ==
  /\ at[s] = "secrets"
  /\ \/ /\ setting[s].env = "both"
        /\ key' = [key EXCEPT ![s] = EnvKey] /\ Reach(s, "migrate")
        /\ UNCHANGED <<stateDir, setting, feature, from, children, boots, mishapVars>>
     \/ /\ setting[s].env # "both" /\ file \in Nat
        /\ key' = [key EXCEPT ![s] = file] /\ Reach(s, "migrate")
        /\ UNCHANGED <<stateDir, setting, feature, from, children, boots, mishapVars>>
     \/ /\ setting[s].env # "both" /\ file = Torn
        /\ Exit(s) /\ UNCHANGED mishaps
     \/ /\ setting[s].env # "both" /\ file = Absent      \* generate
        /\ minted' = minted + 1 /\ key' = [key EXCEPT ![s] = minted + 1] /\ Reach(s, "create")
        /\ UNCHANGED <<file, stored, tables, holder, setting, feature, from, children, boots, mishapVars>>

\* A bug for the checks: the file is opened without create_new, as fs::write does.
CreateFileOver(s) ==
  /\ at[s] = "create" /\ file' = Torn /\ Reach(s, "write")
  /\ UNCHANGED <<minted, stored, tables, holder, setting, key, feature, from, children, boots, mishapVars>>

\* write_file opens with create_new: the second of two first boots fails.
CreateFile(s) ==
  /\ at[s] = "create"
  /\ \/ /\ file = Absent /\ file' = Torn /\ Reach(s, "write")
        /\ UNCHANGED <<minted, stored, tables, holder, setting, key, feature, from, children, boots, mishapVars>>
     \/ file # Absent /\ Exit(s) /\ UNCHANGED mishaps

WriteFile(s) ==
  /\ at[s] = "write" /\ file' = key[s] /\ Reach(s, "migrate")
  /\ UNCHANGED <<minted, stored, tables, holder, setting, key, feature, from, children, boots, mishapVars>>

\* "Delete the file to regenerate": the operator does, with no boot under way.
DeleteTorn ==
  /\ file = Torn /\ \A s \in Servers : at[s] = "off"
  /\ file' = Absent
  /\ UNCHANGED <<minted, stored, tables, holder, at, setting, key, feature, from, children, boots, mishapVars>>

(* migrate::run, for each feature in turn *)

\* The stored version is read outside any transaction.  A version this release
\* does not know is refused.
ReadVersion(s) ==
  /\ at[s] = "migrate" /\ feature[s] <= Features
  /\ \/ /\ stored[feature[s]] <= Target(s)
        /\ from' = [from EXCEPT ![s] = stored[feature[s]]]
        /\ Reach(s, IF stored[feature[s]] = 0 THEN "initialize" ELSE "walk")
        /\ UNCHANGED <<stateDir, setting, key, feature, children, boots, mishapVars>>
     \/ stored[feature[s]] > Target(s) /\ Exit(s) /\ UNCHANGED mishaps

\* One transaction: every statement of SCHEMA, and the row at the target.
Initialize(s) ==
  /\ at[s] = "initialize"
  /\ tables' = [tables EXCEPT ![feature[s]] = @ \cup 1..Target(s)]
  /\ stored' = [stored EXCEPT ![feature[s]] = Target(s)]
  /\ feature' = [feature EXCEPT ![s] = @ + 1] /\ from' = [from EXCEPT ![s] = 0]
  /\ Reach(s, "migrate")
  /\ UNCHANGED <<file, minted, holder, setting, key, children, boots, mishapVars>>

\* A bug for the checks: the row is moved to the target by the first step.
WalkToTarget(s) ==
  /\ at[s] = "walk" /\ from[s] < Target(s)
  /\ tables' = [tables EXCEPT ![feature[s]] = @ \cup {from[s] + 1}]
  /\ stored' = [stored EXCEPT ![feature[s]] = Target(s)]
  /\ from' = [from EXCEPT ![s] = @ + 1]
  /\ UNCHANGED <<file, minted, holder, at, setting, key, feature, children, boots, mishapVars>>

\* One transaction per step: upgrade_from, which every migrator writes with
\* CREATE TABLE IF NOT EXISTS, and the row, whatever another boot made of it.
Walk(s) ==
  /\ at[s] = "walk" /\ from[s] < Target(s)
  /\ tables' = [tables EXCEPT ![feature[s]] = @ \cup {from[s] + 1}]
  /\ stored' = [stored EXCEPT ![feature[s]] = from[s] + 1]
  /\ from' = [from EXCEPT ![s] = @ + 1]
  /\ UNCHANGED <<file, minted, holder, at, setting, key, feature, children, boots, mishapVars>>

Walked(s) ==
  /\ at[s] = "walk" /\ from[s] >= Target(s)
  /\ feature' = [feature EXCEPT ![s] = @ + 1] /\ from' = [from EXCEPT ![s] = 0]
  /\ Reach(s, "migrate")
  /\ UNCHANGED <<stateDir, setting, key, children, boots, mishapVars>>

(* Sidecars *)

\* With every store open, and after the steps that leave nothing here (auth,
\* telemetry, the MCP handshakes, reap, workers, triggers): spawn_all starts one
\* supervisor task per sidecar.
SpawnAll(s) ==
  /\ at[s] = "migrate" /\ feature[s] > Features
  /\ sidecar' = [sidecar EXCEPT ![s] = [c \in Sidecars |-> "spawning"]]
  /\ Reach(s, "bind")
  /\ UNCHANGED <<stateDir, setting, key, feature, from, last, orphans, boots, mishapVars>>

\* The bind comes last, and the address may be taken.
BindPort(s) ==
  /\ at[s] = "bind"
  /\ \/ /\ holder = NoServer /\ holder' = s /\ Reach(s, "serving")
        /\ UNCHANGED <<file, minted, stored, tables, setting, key, feature, from, children, boots, mishapVars>>
     \/ holder # NoServer /\ Exit(s) /\ UNCHANGED mishaps

ShouldRestart(policy, how) ==
  policy = "always" \/ (policy = "on-failure" /\ how # "clean")

\* A child has ended, could not be waited for, or was never spawned ("lost").
Ended(s, c, how) ==
  /\ last' = [last EXCEPT ![s][c] = how]
  /\ sidecar' = [sidecar EXCEPT ![s][c] =
                   IF ShouldRestart(setting[s].restart, how) THEN "backoff" ELSE "done"]

Supervised(s) == UNCHANGED <<stateDir, at, setting, key, feature, from, orphans, boots, mishapVars>>

Spawn(s, c) ==
  /\ sidecar[s][c] = "spawning"
  /\ \/ sidecar' = [sidecar EXCEPT ![s][c] = "running"] /\ UNCHANGED last
     \/ Ended(s, c, "lost")
  /\ Supervised(s)

ChildEnds(s, c) ==
  /\ sidecar[s][c] = "running"
  /\ \E how \in {"clean", "failed", "lost"} : Ended(s, c, how)
  /\ Supervised(s)

\* RESTART_BACKOFF has passed.
Respawn(s, c) ==
  /\ sidecar[s][c] = "backoff"
  /\ sidecar' = [sidecar EXCEPT ![s][c] = "spawning"] /\ UNCHANGED last
  /\ Supervised(s)

BootNext ==
  \/ \E s \in Servers :
       \/ Start(s) \/ Fail(s) \/ Kill(s)
       \/ ResolveSecrets(s) \/ CreateFile(s) \/ WriteFile(s)
       \/ ReadVersion(s) \/ Initialize(s) \/ Walk(s) \/ Walked(s)
       \/ SpawnAll(s) \/ BindPort(s)
       \/ \E c \in Sidecars : Spawn(s, c) \/ ChildEnds(s, c) \/ Respawn(s, c)
  \/ DeleteTorn
  \/ \E c \in Sidecars : OrphanEnds(c)

BootSpec == BootInit /\ [][BootNext]_bootVars

(* Properties *)

BootTypes ==
  /\ file \in Nat \cup {Absent, Torn} /\ minted \in Nat
  /\ stored \in [1..Features -> Nat] /\ tables \in [1..Features -> SUBSET Nat]
  /\ holder \in Servers \cup {NoServer}
  /\ at \in [Servers -> {"off", "secrets", "create", "write", "migrate", "initialize",
                         "walk", "bind", "serving"}]
  /\ setting \in [Servers -> Settings] /\ key \in [Servers -> Nat \cup {EnvKey}]
  /\ feature \in [Servers -> Nat \ {0}] /\ from \in [Servers -> Nat]
  /\ sidecar \in [Servers -> [Sidecars -> {"none", "spawning", "running", "backoff", "done"}]]
  /\ last \in [Servers -> [Sidecars -> {"none", "clean", "failed", "lost"}]]
  /\ orphans \in [Sidecars -> Nat]
  /\ boots \in Nat /\ mishaps \in Nat /\ kills \in Nat

\* The server has its keys: it is past mcp_secrets and has a vault.
Keyed(s) == setting[s].oauth /\ at[s] \notin {"off", "secrets", "create", "write"}

\* "Auto-generated on first boot and reused on every subsequent start": however
\* first boots overlap, every server that takes its keys from the file has those
\* the file holds, so that each can read what another encrypted; and a file that
\* refuses every boot was left by a server that died over it.
KeysSound ==
  /\ \A s \in Servers : Keyed(s) /\ setting[s].env # "both" => key[s] = file
  /\ file = Torn => mishaps > 0 \/ \E s \in Servers : at[s] = "write"

\* The first migrator that runs for these settings: the vault's with OAuth only.
FirstFeature(s) == IF setting[s].oauth THEN 1 ELSE 2

\* "A crash mid-walk resumes from the last committed step", and two releases may
\* migrate one database at once: the recorded version never claims a table that
\* is not there, and a server that is past a migrator has the tables of its own
\* release, whatever the others did to the recorded version meanwhile.
SchemaSound ==
  /\ \A f \in 1..Features : 1..stored[f] \subseteq tables[f]
  /\ \A s \in Servers : at[s] # "off" =>
       \A f \in FirstFeature(s)..Features :
         f < feature[s] => 1..setting[s].release[f] \subseteq tables[f]

\* RestartPolicy: a sidecar that ended is done exactly when its policy says so.
\* kill_on_drop: a server that leaves by an error takes its children along, also
\* when it lost the race for the port, so a sidecar that runs twice runs under two
\* servers that are up, or a server was killed.
SidecarsSound ==
  /\ \A s \in Servers, c \in Sidecars :
       /\ setting[s].restart = "never" /\ last[s][c] # "none" => sidecar[s][c] = "done"
       /\ setting[s].restart = "on-failure" /\ last[s][c] = "clean" => sidecar[s][c] = "done"
       /\ setting[s].restart = "always" => sidecar[s][c] # "done"
  /\ \A c \in Sidecars :
       /\ orphans[c] <= kills
       /\ \A s \in Servers : sidecar[s][c] = "running" => at[s] \in {"bind", "serving"}
       /\ Cardinality({s \in Servers : at[s] = "serving"}) <= 1
=============================================================================
