--------------------------- MODULE ServerLifecycle ---------------------------
(***************************************************************************)
(* The commands that start, stop and reset a server (cli/src/commands) and *)
(* the files through which they find each other: the pid file, the `ready` *)
(* marker, the database and the listening port.                            *)
(*                                                                         *)
(* An element of Procs is one `coulisse start`: the launcher that checks   *)
(* the pid file and waits, and the server process it spawns (the same      *)
(* process when started with --foreground).  No lock orders the commands:  *)
(* any may be typed while others run (two shells, a service manager and a  *)
(* human), and what they read of the files may be stale when they act.     *)
(***************************************************************************)
EXTENDS Naturals

CONSTANTS
  Procs,       \* start commands
  Detached,    \* the ones that run detached; the others use --foreground
  NoProc,      \* "no pid file", "port free", "no command"
  MaxFaults    \* bound: crashes and failed boots

ASSUME LifecycleAssumption ==
  /\ NoProc \notin Procs /\ Detached \subseteq Procs
  /\ MaxFaults \in Nat

VARIABLES
  pidFile,    \* the process named in the pid file
  ready,      \* the ready marker exists
  port,       \* who listens
  launcher,   \* progress of each start command
  server,     \* progress of each server process
  stopping,   \* the process `coulisse stop` signalled and waits for
  resetting,  \* `coulisse reset` has passed its check
  hasBound,   \* history: servers that bound the port
  unlinked,   \* history: servers whose database file was deleted
  robbed,     \* history: servers whose running tasks another boot reaped
  met,        \* history: starts that another command met under way
  faults

files   == <<pidFile, ready>>
history == <<hasBound, unlinked, robbed, met>>
vars == <<files, port, launcher, server, stopping, resetting, history, faults>>

Alive(p)  == server[p] \notin {"none", "dead"}
OpenDb(p) == server[p] \in {"working", "bound", "serving"}    \* stores open, workers up

\* read_pid then pid_alive.
Running == pidFile # NoProc /\ Alive(pidFile)

\* Commands under way.
Busy(p) == launcher[p] \in {"checked", "cleared", "waiting"}
Idle    == (\A p \in Procs : ~Busy(p)) /\ stopping = NoProc /\ ~resetting

\* A command, of the starts in S, gets past its check: it meets those under way,
\* and the servers that came of an earlier meeting.
Pass(S) ==
  met' = IF Idle /\ (\A q \in met : ~Alive(q)) THEN met
         ELSE met \cup S \cup {q \in Procs : Busy(q) \/ Alive(q)}

Fault == faults < MaxFaults /\ faults' = faults + 1

Init ==
  /\ pidFile = NoProc /\ ready = FALSE /\ port = NoProc
  /\ launcher = [p \in Procs |-> "idle"]
  /\ server = [p \in Procs |-> "none"]
  /\ stopping = NoProc /\ resetting = FALSE
  /\ hasBound = {} /\ unlinked = {} /\ robbed = {} /\ met = {}
  /\ faults = 0

Launcher(p, where) == launcher' = [launcher EXCEPT ![p] = where]
Server(p, where)   == server' = [server EXCEPT ![p] = where]
------------------------------------------------------------------------------
(* start: the launching process *)

\* AlreadyRunning, or go on: the check both spawn_detached and run_foreground
\* begin with.
StartCheck(p) ==
  /\ launcher[p] = "idle"
  /\ \/ Running /\ Launcher(p, "refused") /\ UNCHANGED met
     \/ ~Running /\ Launcher(p, "checked") /\ Pass({p})
  /\ UNCHANGED <<files, port, server, stopping, resetting, hasBound, unlinked, robbed, faults>>

\* Mutant: the ready marker of an earlier run is left in place.
ClearMarkersKeepsReady(p) ==
  /\ p \in Detached /\ launcher[p] = "checked"
  /\ pidFile' = NoProc
  /\ Launcher(p, "cleared")
  /\ UNCHANGED <<ready, port, server, stopping, resetting, history, faults>>

\* clear_stale_markers.
ClearMarkers(p) ==
  /\ p \in Detached /\ launcher[p] = "checked"
  /\ pidFile' = NoProc /\ ready' = FALSE
  /\ Launcher(p, "cleared")
  /\ UNCHANGED <<port, server, stopping, resetting, history, faults>>

\* spawn_child.
SpawnChild(p) ==
  /\ launcher[p] = "cleared"
  /\ Launcher(p, "waiting") /\ Server(p, "spawned")
  /\ UNCHANGED <<files, port, stopping, resetting, history, faults>>

\* await_ready: the marker is there.
SeeReady(p) ==
  /\ launcher[p] = "waiting" /\ ready
  /\ Launcher(p, "started")
  /\ UNCHANGED <<files, port, server, stopping, resetting, history, faults>>

\* Mutant: the exit status is only looked at once the marker exists.
SeeExitLate(p) ==
  /\ launcher[p] = "waiting" /\ ready /\ server[p] = "dead"
  /\ Launcher(p, "failed")
  /\ UNCHANGED <<files, port, server, stopping, resetting, history, faults>>

\* await_ready: no marker, and the child exited.
SeeExit(p) ==
  /\ launcher[p] = "waiting" /\ ~ready /\ server[p] = "dead"
  /\ Launcher(p, "failed")
  /\ UNCHANGED <<files, port, server, stopping, resetting, history, faults>>

\* await_ready gives up after READY_TIMEOUT; the child is left running.  It
\* wrote its pid file first thing, long before that.
StartTimeout(p) ==
  /\ launcher[p] = "waiting" /\ ~ready
  /\ server[p] \in {"booting", "working", "bound", "serving", "exiting"}
  /\ Launcher(p, "failed")
  /\ UNCHANGED <<files, port, server, stopping, resetting, history, faults>>
------------------------------------------------------------------------------
(* start: the server process *)

\* run_as_detached_child and run_foreground begin by writing the pid file.
WritePid(p) ==
  /\ \/ server[p] = "spawned" /\ UNCHANGED launcher
     \/ p \notin Detached /\ launcher[p] = "checked" /\ Launcher(p, "started")
  /\ pidFile' = p
  /\ Server(p, "booting")
  /\ UNCHANGED <<ready, port, stopping, resetting, history, faults>>

\* Boot::run: open the stores, reap the running tasks of "a previous
\* process", spawn the workers, fire the boot triggers.
BootWork(p) ==
  /\ server[p] = "booting"
  /\ robbed' = robbed \cup {q \in Procs \ {p} : OpenDb(q)}
  /\ Server(p, "working")
  /\ UNCHANGED <<files, port, launcher, stopping, resetting, hasBound, unlinked, met, faults>>

\* Configuration, migration or discovery errors end the boot early.
BootFails(p) ==
  /\ server[p] = "booting"
  /\ Fault
  /\ Server(p, "exiting")
  /\ UNCHANGED <<files, port, launcher, stopping, resetting, history>>

\* TcpListener::bind, after all of the boot's side effects.
Bind(p) ==
  /\ server[p] = "working" /\ port = NoProc
  /\ port' = p
  /\ hasBound' = hasBound \cup {p}
  /\ Server(p, "bound")
  /\ UNCHANGED <<files, launcher, stopping, resetting, unlinked, robbed, met, faults>>

\* The address is taken, by another server or by another program.
BindFails(p) ==
  /\ server[p] = "working"
  /\ IF port # NoProc THEN UNCHANGED faults ELSE Fault
  /\ Server(p, "exiting")
  /\ UNCHANGED <<files, port, launcher, stopping, resetting, history>>

\* on_ready: a detached child touches the marker.
OnReady(p) ==
  /\ server[p] = "bound"
  /\ ready' = (ready \/ p \in Detached)
  /\ Server(p, "serving")
  /\ UNCHANGED <<pidFile, port, launcher, stopping, resetting, history, faults>>

\* The serve loop returned an error: pid file and marker are removed,
\* whoever wrote them.
ExitCleanup(p) ==
  /\ server[p] = "exiting"
  /\ pidFile' = NoProc
  /\ ready' = (ready /\ p \notin Detached)
  /\ Server(p, "dead")
  /\ UNCHANGED <<port, launcher, stopping, resetting, history, faults>>

Die(p) ==
  /\ Server(p, "dead")
  /\ port' = IF port = p THEN NoProc ELSE port

\* A crash, the OOM killer, a power cut: no cleanup runs.
Killed(p) ==
  /\ server[p] \in {"booting", "working", "bound", "serving"}
  /\ Fault
  /\ Die(p)
  /\ UNCHANGED <<files, launcher, stopping, resetting, history>>
------------------------------------------------------------------------------
(* stop, reset *)

\* stop signals the process in the pid file; there is no SIGTERM handler, so
\* it dies without cleaning up.
Stop ==
  /\ stopping = NoProc /\ Running
  /\ stopping' = pidFile
  /\ Die(pidFile)
  /\ UNCHANGED <<files, launcher, resetting, history, faults>>

\* wait_for_exit saw it gone: the pid file is removed.
StopCleanup ==
  /\ stopping # NoProc
  /\ pidFile' = NoProc
  /\ stopping' = NoProc
  /\ UNCHANGED <<ready, port, launcher, server, resetting, history, faults>>

\* stop on a stale pid file only removes it.
StopStale ==
  /\ stopping = NoProc /\ pidFile # NoProc /\ ~Running
  /\ pidFile' = NoProc
  /\ UNCHANGED <<ready, port, launcher, server, stopping, resetting, history, faults>>

\* Mutant: reset does not look for a running server.
ResetCheckNever ==
  /\ ~resetting
  /\ resetting' = TRUE /\ Pass({})
  /\ UNCHANGED <<files, port, launcher, server, stopping, hasBound, unlinked, robbed, faults>>

\* reset refuses when the pid file names a live process, then asks the
\* operator to confirm.
ResetCheck ==
  /\ ~resetting /\ ~Running
  /\ resetting' = TRUE /\ Pass({})
  /\ UNCHANGED <<files, port, launcher, server, stopping, hasBound, unlinked, robbed, faults>>

\* Confirmed: the database file and its WAL are deleted.
ResetDelete ==
  /\ resetting
  /\ resetting' = FALSE
  /\ unlinked' = unlinked \cup {p \in Procs : OpenDb(p)}
  /\ UNCHANGED <<files, port, launcher, server, stopping, hasBound, robbed, met, faults>>

\* The operator aborts at the prompt.
ResetAbort ==
  /\ resetting
  /\ resetting' = FALSE
  /\ UNCHANGED <<files, port, launcher, server, stopping, history, faults>>

ServerStep(p) ==
  \/ WritePid(p) \/ BootWork(p) \/ Bind(p) \/ BindFails(p) \/ OnReady(p) \/ ExitCleanup(p)

LauncherStep(p) ==
  ClearMarkers(p) \/ SpawnChild(p) \/ SeeReady(p) \/ SeeExit(p) \/ StartTimeout(p)

Next ==
  \/ \E p \in Procs :
       \/ StartCheck(p) \/ LauncherStep(p)
       \/ ServerStep(p) \/ BootFails(p) \/ Killed(p)
  \/ Stop \/ StopCleanup \/ StopStale
  \/ ResetCheck \/ ResetDelete \/ ResetAbort

Spec == Init /\ [][Next]_vars

(***************************************************************************)
(* Processes that can run do run, and commands proceed to their next       *)
(* system call; await_ready counts its polls, so it does time out.  Nobody *)
(* is obliged to type a command.                                           *)
(***************************************************************************)
Fairness == \A p \in Procs : WF_vars(ServerStep(p)) /\ WF_vars(LauncherStep(p))

FairSpec == Spec /\ Fairness
------------------------------------------------------------------------------
(* Properties *)

TypeOK ==
  /\ pidFile \in Procs \cup {NoProc} /\ ready \in BOOLEAN /\ port \in Procs \cup {NoProc}
  /\ launcher \in [Procs -> {"idle", "checked", "cleared", "waiting",
                             "started", "failed", "refused"}]
  /\ server \in [Procs -> {"none", "spawned", "booting", "working", "bound",
                           "serving", "exiting", "dead"}]
  /\ stopping \in Procs \cup {NoProc} /\ resetting \in BOOLEAN
  /\ hasBound \in SUBSET Procs /\ unlinked \in SUBSET Procs /\ robbed \in SUBSET Procs
  /\ met \in SUBSET Procs
  /\ faults \in Nat

\* A server whose start no other command met lives alone, and the pid file
\* names it from the moment it opens the database, so `status`, `stop` and
\* `reset` see it; whatever was typed, killed or left behind before.
PidFileTruthful ==
  \A p \in Procs \ met : Alive(p) /\ server[p] # "spawned" =>
    /\ pidFile = p
    /\ \A q \in Procs \ {p} : ~Alive(q)

\* When a start command that no other met reports success, its own server has
\* bound the port: no marker of an earlier run fools it.
NoFalseReady == \A p \in Detached \ met : launcher[p] = "started" => p \in hasBound

\* What the pid file and the start command say is true.
CommandsTruthful == PidFileTruthful /\ NoFalseReady

\* reset deletes the database of a live server only if a command met its start.
ResetSpares == unlinked \subseteq met

\* reap_stale_tasks takes the tasks of a live process only if a command met its
\* start.
ReapOnlyOrphans == robbed \subseteq met

\* Nobody pulls the database from under a server that started alone: neither its
\* file nor the tasks its workers execute.
DatabaseSpared == ResetSpares /\ ReapOnlyOrphans

\* A detached start always returns, whatever else is typed meanwhile: it reports
\* success or failure.
StartReturns ==
  \A p \in Detached : launcher[p] = "checked" ~> launcher[p] \in {"started", "failed"}
==============================================================================
