----------------------------- MODULE ServerProofs -----------------------------
(***************************************************************************)
(* Proofs about the server: its commands, and what a boot touches.         *)
(*                                                                         *)
(* What the pid file protocol guarantees for any number of starts, stops,  *)
(* resets and crashes, whichever of them overlap.  The argument: either    *)
(* everything that is under way or alive has met another command, or the   *)
(* commands have been strict: one that got past its check found no live    *)
(* server, and while it runs only the server it spawned comes to life.     *)
(***************************************************************************)
EXTENDS ServerLifecycle, Boot, FiniteSetTheorems, TLAPS

\* How a launcher and its server go along, in any interleaving.
Stages ==
  \A p \in Procs :
    /\ launcher[p] \in {"idle", "checked", "cleared", "refused"} => server[p] = "none"
    /\ launcher[p] \in {"cleared", "waiting"} => p \in Detached
    /\ server[p] \in {"bound", "serving"} => p \in hasBound
    /\ server[p] \in {"none", "spawned", "booting", "working"} => p \notin hasBound

\* One command at a time, but for the stop of the server a start waits for.
OneCommand ==
  /\ \A p, q \in Procs : Busy(p) /\ Busy(q) => p = q
  /\ \A p \in Procs : Busy(p) /\ stopping # NoProc => launcher[p] = "waiting"
  /\ \A p \in Procs : Busy(p) => ~resetting
  /\ stopping # NoProc => ~resetting

\* While a command runs, only the server it spawned may live.
Quiet ==
  /\ \A p, q \in Procs : Busy(p) /\ Alive(q) => p = q /\ launcher[p] = "waiting"
  /\ stopping # NoProc \/ resetting => \A q \in Procs : ~Alive(q)
  /\ \A p \in Procs : server[p] = "spawned" => launcher[p] = "waiting"

\* The marker a launcher can see is its own server's.
OwnMarker ==
  \A p \in Procs :
    /\ launcher[p] = "cleared" => ~ready
    /\ launcher[p] = "waiting" /\ ready => p \in hasBound

\* A server past its first line is alone, and the pid file names it.
Alone ==
  \A p \in Procs : Alive(p) /\ server[p] # "spawned" =>
    /\ pidFile = p
    /\ \A q \in Procs \ {p} : ~Alive(q)

Strict == OneCommand /\ Quiet /\ OwnMarker /\ Alone

Overlapped == \A q \in Procs : Busy(q) \/ Alive(q) => q \in met

IInv == /\ TypeOK /\ Stages /\ NoFalseReady /\ ResetSpares /\ ReapOnlyOrphans
        /\ Strict \/ Overlapped

\* The initial state satisfies the inductive invariant.
LEMMA InitIInv == Init => IInv
<1> SUFFICES ASSUME Init PROVE IInv OBVIOUS
<1>1. TypeOK
  <2>1. launcher \in [Procs -> {"idle"}] /\ server \in [Procs -> {"none"}] BY DEF Init
  <2> QED BY <2>1 DEF Init, TypeOK
<1>2. \A p \in Procs : launcher[p] = "idle" /\ server[p] = "none" BY DEF Init
<1>3. Stages /\ NoFalseReady BY LifecycleAssumption, <1>2 DEF Init, Stages, NoFalseReady
<1>4. Overlapped BY <1>2 DEF Overlapped, Busy, Alive
<1>5. ResetSpares /\ ReapOnlyOrphans BY DEF Init, ResetSpares, ReapOnlyOrphans
<1> QED BY <1>1, <1>3, <1>4, <1>5 DEF IInv

\* A check that is passed finds nobody alive, or its command meets everybody.
LEMMA Passed ==
  ASSUME IInv, NEW S \in SUBSET Procs, Pass(S), ~Running
  PROVE  /\ met' \in SUBSET Procs /\ met \subseteq met'
         /\ \/ Idle /\ \A q \in Procs : ~Alive(q)
            \/ S \cup {q \in Procs : Busy(q) \/ Alive(q)} \subseteq met'
<1>1. met \in SUBSET Procs BY DEF IInv, TypeOK
<1>2. CASE Idle /\ \A q \in met : ~Alive(q)
  <2>1. met' = met BY <1>2 DEF Pass
  <2>2. CASE Overlapped BY <1>1, <1>2, <2>1, <2>2 DEF Overlapped
  <2>3. CASE Strict
    <3>1. ASSUME NEW q \in Procs, Alive(q) PROVE FALSE
      <4>1. CASE server[q] = "spawned" BY <1>2, <2>3, <4>1 DEF Strict, Quiet, Idle, Busy
      <4>2. CASE server[q] # "spawned"
        BY <2>3, <3>1, <4>2, LifecycleAssumption DEF Strict, Alone, Running
      <4> QED BY <4>1, <4>2
    <3> QED BY <1>1, <1>2, <2>1, <3>1
  <2> QED BY <2>2, <2>3 DEF IInv
<1>3. CASE ~(Idle /\ \A q \in met : ~Alive(q)) BY <1>1, <1>3 DEF Pass
<1> QED BY <1>2, <1>3

\* Every step keeps the types.
LEMMA LifecycleTypes == TypeOK /\ [Next]_vars => TypeOK'
<1> SUFFICES ASSUME TypeOK, [Next]_vars PROVE TypeOK' OBVIOUS
<1> USE LifecycleAssumption DEF TypeOK, Launcher, Server, Fault, Die, files, history
<1>0. \A S \in SUBSET Procs : Pass(S) => met' \in SUBSET Procs BY DEF Pass
<1>1. ASSUME NEW p \in Procs, StartCheck(p) PROVE TypeOK' BY <1>0, <1>1 DEF StartCheck
<1>2. ASSUME NEW p \in Procs, LauncherStep(p) PROVE TypeOK'
  BY <1>2 DEF LauncherStep, ClearMarkers, SpawnChild, SeeReady, SeeExit, StartTimeout
<1>3. ASSUME NEW p \in Procs, ServerStep(p) PROVE TypeOK'
  <2>1. CASE WritePid(p) BY <2>1 DEF WritePid
  <2>2. CASE BootWork(p) BY <2>2 DEF BootWork
  <2>3. CASE Bind(p) \/ BindFails(p) BY <2>3 DEF Bind, BindFails
  <2>4. CASE OnReady(p)
    <3>1. ready' \in BOOLEAN BY <2>4 DEF OnReady
    <3> QED BY <2>4, <3>1 DEF OnReady
  <2>5. CASE ExitCleanup(p)
    <3>1. ready' \in BOOLEAN BY <2>5 DEF ExitCleanup
    <3> QED BY <2>5, <3>1 DEF ExitCleanup
  <2> QED BY <1>3, <2>1, <2>2, <2>3, <2>4, <2>5 DEF ServerStep
<1>4. ASSUME NEW p \in Procs, BootFails(p) \/ Killed(p) PROVE TypeOK'
  BY <1>4 DEF BootFails, Killed
<1>5. CASE Stop \/ StopCleanup \/ StopStale BY <1>5 DEF Stop, StopCleanup, StopStale, Running
<1>6. CASE ResetCheck \/ ResetDelete \/ ResetAbort
  BY <1>0, <1>6 DEF ResetCheck, ResetDelete, ResetAbort
<1>7. CASE UNCHANGED vars BY <1>7 DEF vars
<1> QED BY <1>1, <1>2, <1>3, <1>4, <1>5, <1>6, <1>7 DEF Next

\* Launchers and servers go along.
LEMMA StagesStep == TypeOK /\ Stages /\ [Next]_vars => Stages'
<1> SUFFICES ASSUME TypeOK, Stages, [Next]_vars PROVE Stages' OBVIOUS
<1> USE LifecycleAssumption DEF TypeOK, Stages, Launcher, Server, Fault, Die, files, history
<1>1. ASSUME NEW p \in Procs, StartCheck(p) PROVE Stages' BY <1>1 DEF StartCheck
<1>2. ASSUME NEW p \in Procs, LauncherStep(p) PROVE Stages'
  BY <1>2 DEF LauncherStep, ClearMarkers, SpawnChild, SeeReady, SeeExit, StartTimeout
<1>3. ASSUME NEW p \in Procs, ServerStep(p) PROVE Stages'
  BY <1>3 DEF ServerStep, WritePid, BootWork, Bind, BindFails, OnReady, ExitCleanup
<1>4. ASSUME NEW p \in Procs, BootFails(p) \/ Killed(p) PROVE Stages'
  BY <1>4 DEF BootFails, Killed
<1>5. CASE Stop
  <2>1. pidFile \in Procs /\ Alive(pidFile) BY <1>5 DEF Stop, Running
  <2> QED BY <1>5, <2>1 DEF Stop, Alive
<1>6. CASE StopCleanup \/ StopStale BY <1>6 DEF StopCleanup, StopStale
<1>7. CASE ResetCheck \/ ResetDelete \/ ResetAbort BY <1>7 DEF ResetCheck, ResetDelete, ResetAbort
<1>8. CASE UNCHANGED vars BY <1>8 DEF vars
<1> QED BY <1>1, <1>2, <1>3, <1>4, <1>5, <1>6, <1>7, <1>8 DEF Next

\* While everybody under way or alive has met another command, whoever is new
\* to that has met one too, unless a check found nobody.
LEMMA OverlappedStep ==
  ASSUME IInv, Overlapped, [Next]_vars
  PROVE  /\ Strict' \/ Overlapped'
         /\ NoFalseReady' /\ ResetSpares' /\ ReapOnlyOrphans'
<1> USE LifecycleAssumption
        DEF Overlapped, NoFalseReady, ResetSpares, ReapOnlyOrphans, Busy, Alive,
            Launcher, Server, Fault, Die, files, history
<1>0. TypeOK /\ NoFalseReady /\ ResetSpares /\ ReapOnlyOrphans BY DEF IInv
<1> USE <1>0 DEF TypeOK
<1> DEFINE Goal == /\ Strict' \/ Overlapped'
                   /\ NoFalseReady' /\ ResetSpares' /\ ReapOnlyOrphans'
<1>1. ASSUME NEW p \in Procs, StartCheck(p) PROVE Goal
  <2>1. CASE Running BY <1>1, <2>1 DEF StartCheck
  <2>2. CASE ~Running
    <3>1. Pass({p}) /\ launcher' = [launcher EXCEPT ![p] = "checked"] /\ launcher[p] = "idle"
          /\ UNCHANGED <<files, port, server, stopping, resetting, hasBound, unlinked, robbed>>
      BY <1>1, <2>2 DEF StartCheck
    <3>2. met \subseteq met' BY <2>2, <3>1, Passed
    <3>3. CASE Idle /\ \A q \in Procs : ~Alive(q)
      BY <3>1, <3>2, <3>3 DEF Idle, Strict, OneCommand, Quiet, OwnMarker, Alone
    <3>4. CASE {p} \cup {q \in Procs : Busy(q) \/ Alive(q)} \subseteq met'
      BY <3>1, <3>2, <3>4
    <3> QED BY <2>2, <3>1, <3>3, <3>4, Passed
  <2> QED BY <2>1, <2>2
<1>2. ASSUME NEW p \in Procs, LauncherStep(p) PROVE Goal
  BY <1>2 DEF LauncherStep, ClearMarkers, SpawnChild, SeeReady, SeeExit, StartTimeout
<1>3. ASSUME NEW p \in Procs, ServerStep(p) PROVE Goal
  BY <1>3 DEF ServerStep, WritePid, BootWork, OpenDb, Bind, BindFails, OnReady, ExitCleanup
<1>4. ASSUME NEW p \in Procs, BootFails(p) \/ Killed(p) PROVE Goal
  BY <1>4 DEF BootFails, Killed
<1>5. CASE Stop \/ StopCleanup \/ StopStale
  BY <1>5 DEF Stop, StopCleanup, StopStale, Running
<1>6. CASE ResetCheck
  <2>1. Pass({}) /\ ~Running /\ resetting'
        /\ UNCHANGED <<files, port, launcher, server, stopping, hasBound, unlinked, robbed>>
    BY <1>6 DEF ResetCheck
  <2>2. met \subseteq met' BY <2>1, Passed
  <2>3. CASE Idle /\ \A q \in Procs : ~Alive(q)
    BY <2>1, <2>2, <2>3 DEF Idle, Strict, OneCommand, Quiet, OwnMarker, Alone
  <2>4. CASE {q \in Procs : Busy(q) \/ Alive(q)} \subseteq met' BY <2>1, <2>2, <2>4
  <2> QED BY <2>1, <2>3, <2>4, Passed
<1>7. CASE ResetDelete \/ ResetAbort BY <1>7 DEF ResetDelete, ResetAbort, OpenDb
<1>8. CASE UNCHANGED vars BY <1>8 DEF vars
<1> QED BY <1>1, <1>2, <1>3, <1>4, <1>5, <1>6, <1>7, <1>8 DEF Next

\* While commands have been strict they stay so, or everybody has met another.
LEMMA StrictStep ==
  ASSUME IInv, Strict, [Next]_vars
  PROVE  /\ Strict' \/ Overlapped'
         /\ NoFalseReady' /\ ResetSpares' /\ ReapOnlyOrphans'
<1> USE LifecycleAssumption
        DEF NoFalseReady, ResetSpares, ReapOnlyOrphans, Busy, Alive,
            Launcher, Server, Fault, files, history
<1>0. TypeOK /\ Stages /\ NoFalseReady /\ ResetSpares /\ ReapOnlyOrphans BY DEF IInv
<1> USE <1>0 DEF TypeOK, Stages, Strict, OneCommand, Quiet, OwnMarker, Alone
<1> DEFINE Goal == /\ Strict' \/ Overlapped'
                   /\ NoFalseReady' /\ ResetSpares' /\ ReapOnlyOrphans'
<1>1. ASSUME NEW p \in Procs, StartCheck(p) PROVE Goal
  <2>1. CASE Running BY <1>1, <2>1 DEF StartCheck
  <2>2. CASE ~Running
    <3>1. Pass({p}) /\ launcher' = [launcher EXCEPT ![p] = "checked"] /\ launcher[p] = "idle"
          /\ UNCHANGED <<files, port, server, stopping, resetting, hasBound, unlinked, robbed>>
      BY <1>1, <2>2 DEF StartCheck
    <3>2. met \subseteq met' BY <2>2, <3>1, Passed
    <3>3. CASE Idle /\ \A q \in Procs : ~Alive(q) BY <3>1, <3>2, <3>3 DEF Idle
    <3>4. CASE {p} \cup {q \in Procs : Busy(q) \/ Alive(q)} \subseteq met'
      BY <3>1, <3>2, <3>4 DEF Overlapped
    <3> QED BY <2>2, <3>1, <3>3, <3>4, Passed
  <2> QED BY <2>1, <2>2
<1>2. ASSUME NEW p \in Procs, ClearMarkers(p) PROVE Goal BY <1>2 DEF ClearMarkers
<1>3. ASSUME NEW p \in Procs, SpawnChild(p) PROVE Goal BY <1>3 DEF SpawnChild
<1>4. ASSUME NEW p \in Procs, SeeReady(p) PROVE Goal
  <2>1. launcher[p] = "waiting" /\ ready /\ launcher' = [launcher EXCEPT ![p] = "started"]
        /\ UNCHANGED <<files, port, server, stopping, resetting, history>>
    BY <1>4 DEF SeeReady
  <2>2. p \in hasBound BY <2>1
  <2>3. server[p] # "spawned" BY <2>2
  <2>4. NoFalseReady' BY <2>1, <2>2
  <2>5. OneCommand' BY <2>1
  <2>6. Quiet' BY <2>1, <2>3
  <2>7. OwnMarker' BY <2>1
  <2>8. Alone' BY <2>1
  <2> QED BY <2>1, <2>4, <2>5, <2>6, <2>7, <2>8
<1>5. ASSUME NEW p \in Procs, SeeExit(p) PROVE Goal BY <1>5 DEF SeeExit
<1>6. ASSUME NEW p \in Procs, StartTimeout(p) PROVE Goal BY <1>6 DEF StartTimeout
<1>7. ASSUME NEW p \in Procs, WritePid(p) PROVE Goal BY <1>7 DEF WritePid
<1>8. ASSUME NEW p \in Procs, BootWork(p) PROVE Goal BY <1>8 DEF BootWork, OpenDb
<1>9. ASSUME NEW p \in Procs, BootFails(p) PROVE Goal BY <1>9 DEF BootFails
<1>10. ASSUME NEW p \in Procs, Bind(p) PROVE Goal BY <1>10 DEF Bind
<1>11. ASSUME NEW p \in Procs, BindFails(p) PROVE Goal BY <1>11 DEF BindFails
<1>12. ASSUME NEW p \in Procs, OnReady(p) PROVE Goal BY <1>12 DEF OnReady
<1>13. ASSUME NEW p \in Procs, ExitCleanup(p) PROVE Goal BY <1>13 DEF ExitCleanup
<1>14. ASSUME NEW p \in Procs, Killed(p) PROVE Goal BY <1>14 DEF Killed, Die
<1>15. CASE Stop BY <1>15 DEF Stop, Die, Running
<1>16. CASE StopCleanup BY <1>16 DEF StopCleanup
<1>17. CASE StopStale BY <1>17 DEF StopStale, Running
<1>18. CASE ResetCheck
  <2>1. Pass({}) /\ ~Running /\ resetting'
        /\ UNCHANGED <<files, port, launcher, server, stopping, hasBound, unlinked, robbed>>
    BY <1>18 DEF ResetCheck
  <2>2. met \subseteq met' BY <2>1, Passed
  <2>3. CASE Idle /\ \A q \in Procs : ~Alive(q) BY <2>1, <2>2, <2>3 DEF Idle
  <2>4. CASE {q \in Procs : Busy(q) \/ Alive(q)} \subseteq met' BY <2>1, <2>2, <2>4 DEF Overlapped
  <2> QED BY <2>1, <2>3, <2>4, Passed
<1>19. CASE ResetDelete BY <1>19 DEF ResetDelete, OpenDb
<1>20. CASE ResetAbort BY <1>20 DEF ResetAbort
<1>21. CASE UNCHANGED vars BY <1>21 DEF vars
<1> QED BY <1>1, <1>2, <1>3, <1>4, <1>5, <1>6, <1>7, <1>8, <1>9, <1>10, <1>11, <1>12, <1>13,
           <1>14, <1>15, <1>16, <1>17, <1>18, <1>19, <1>20, <1>21
       DEF Next, ServerStep, LauncherStep

\* The inductive invariant holds for ever, whichever commands overlap.
THEOREM Invariance == Spec => []IInv
<1>1. IInv /\ [Next]_vars => IInv'
  BY LifecycleTypes, StagesStep, OverlappedStep, StrictStep DEF IInv
<1> QED BY InitIInv, <1>1, PTL DEF Spec

\* Every variable keeps its type.
THEOREM TypeCorrect == Spec => []TypeOK
<1>1. IInv => TypeOK BY DEF IInv
<1> QED BY <1>1, Invariance, PTL

\* A server whose start no other command met is the only one alive and the pid
\* file names it; such a start that reports success has a server that bound.
THEOREM TruthfulCommands == Spec => []CommandsTruthful
<1>1. IInv => CommandsTruthful
  <2> SUFFICES ASSUME IInv PROVE PidFileTruthful BY DEF IInv, CommandsTruthful
  <2>1. CASE Strict BY <2>1 DEF Strict, Alone, PidFileTruthful
  <2>2. CASE Overlapped BY <2>2 DEF Overlapped, PidFileTruthful
  <2> QED BY <2>1, <2>2 DEF IInv
<1> QED BY <1>1, Invariance, PTL

\* reset never deletes the database of a live server, and a boot never reaps
\* the tasks of another live process, but those whose start a command met.
THEOREM DatabaseSafe == Spec => []DatabaseSpared
<1>1. IInv => DatabaseSpared BY DEF IInv, DatabaseSpared
<1> QED BY <1>1, Invariance, PTL
-----------------------------------------------------------------------------
(***************************************************************************)
(* Overlapping boots of any number of servers, releases and sidecars, with *)
(* any number of kills and failing steps.  The argument: the secrets file  *)
(* leaves "absent" through one writer, and a server has a key of the file  *)
(* only when the file is whole; tables are only ever added, and a walk     *)
(* has added those up to where it stands before it records them; a         *)
(* supervisor lives inside its server.                                     *)
(***************************************************************************)

\* One writer at a time; a key taken from the file is what a whole file holds.
KeysKept ==
  /\ \A s \in Servers : at[s] = "create" => key[s] \in Nat
  /\ \A s \in Servers : at[s] = "write" => key[s] \in Nat /\ file = Torn
  /\ \A s, t \in Servers : at[s] = "write" /\ at[t] = "write" => s = t
  /\ \A s \in Servers : Keyed(s) /\ setting[s].env # "both" => key[s] = file /\ file \in Nat
  /\ file = Torn => mishaps > 0 \/ \E s \in Servers : at[s] = "write"

\* A walk has the tables of the version it stands at.
WalksKept ==
  /\ \A s \in Servers :
       /\ at[s] \in {"initialize", "walk"} => feature[s] <= Features
       /\ at[s] = "walk" => 1..from[s] \subseteq tables[feature[s]]
  /\ SchemaSound

\* Supervisors exist in servers that have spawned them; the port is held by
\* the server that serves.
ChildrenKept ==
  /\ \A s \in Servers : at[s] \notin {"bind", "serving"} =>
       sidecar[s] = Unsupervised /\ last[s] = Unended
  /\ \A s \in Servers : at[s] = "serving" => holder = s
  /\ \A s \in Servers, c \in Sidecars :
       /\ setting[s].restart = "never" /\ last[s][c] # "none" => sidecar[s][c] = "done"
       /\ setting[s].restart = "on-failure" /\ last[s][c] = "clean" => sidecar[s][c] = "done"
       /\ setting[s].restart = "always" => sidecar[s][c] # "done"
  /\ \A c \in Sidecars : orphans[c] <= kills

BootIInv == BootTypes /\ KeysKept /\ WalksKept /\ ChildrenKept

\* Some settings exist, and they are settings.
LEMMA AnySettingType == AnySetting \in Settings
BY BootAssumption DEF AnySetting

\* What a release targets.
LEMMA TargetType ==
  ASSUME BootTypes, NEW s \in Servers, feature[s] <= Features
  PROVE  Target(s) \in Nat /\ feature[s] \in 1..Features
<1>1. setting[s].release \in [1..Features -> Nat \ {0}] BY BootAssumption DEF BootTypes
<1>2. feature[s] \in 1..Features BY BootAssumption DEF BootTypes
<1> QED BY <1>1, <1>2 DEF Target

\* The initial state satisfies the inductive invariant.
LEMMA BootInitIInv == BootInit => BootIInv
<1> SUFFICES ASSUME BootInit PROVE BootIInv OBVIOUS
<1>1. BootTypes
  BY BootAssumption, AnySettingType DEF BootInit, BootTypes, Unsupervised, Unended
<1>2. KeysKept BY BootAssumption DEF BootInit, KeysKept, Keyed
<1>3. WalksKept BY BootAssumption DEF BootInit, WalksKept, SchemaSound
<1>4. ChildrenKept BY BootAssumption DEF BootInit, ChildrenKept, Unsupervised, Unended
<1> QED BY <1>1, <1>2, <1>3, <1>4 DEF BootIInv

\* Every action keeps the types.
LEMMA TypesStep == BootIInv /\ [BootNext]_bootVars => BootTypes'
<1> SUFFICES ASSUME BootIInv, [BootNext]_bootVars PROVE BootTypes' OBVIOUS
<1> USE AnySettingType
        DEF BootIInv, BootTypes, Reach, Mishap, stateDir, children, mishapVars, Unsupervised, Unended
<1>1. ASSUME NEW s \in Servers, Start(s) PROVE BootTypes' BY <1>1 DEF Start
<1>2. ASSUME NEW s \in Servers, Leave(s), Outlive(s), UNCHANGED <<minted, stored, tables>>,
             kills' \in Nat, mishaps' \in Nat
      PROVE  BootTypes'
  BY <1>2 DEF Leave, Outlive
<1>3. ASSUME NEW s \in Servers, Exit(s), mishaps' \in Nat PROVE BootTypes'
  BY <1>3 DEF Exit, Leave
<1>4. ASSUME NEW s \in Servers, Fail(s) \/ Kill(s) PROVE BootTypes'
  <2>1. mishaps' \in Nat BY <1>4 DEF Fail, Kill
  <2>2. CASE Fail(s) BY <1>3, <2>1, <2>2 DEF Fail
  <2>3. CASE Kill(s)
    <3>1. Leave(s) /\ Outlive(s) /\ kills' \in Nat BY <2>3 DEF Kill
    <3>2. UNCHANGED <<minted, stored, tables>> BY <3>1 DEF Leave
    <3> QED BY <1>2, <2>1, <3>1, <3>2
  <2> QED BY <1>4, <2>2, <2>3
<1>5. ASSUME NEW s \in Servers, ResolveSecrets(s) PROVE BootTypes'
  <2>1. CASE Exit(s) /\ UNCHANGED mishaps BY <1>3, <2>1
  <2>2. CASE ~(Exit(s) /\ UNCHANGED mishaps)
    <3>1. UNCHANGED <<file, stored, tables, holder, setting, feature, from, children, boots, mishapVars>>
      BY <1>5, <2>2 DEF ResolveSecrets
    <3>2. minted' \in Nat BY <1>5, <2>2 DEF ResolveSecrets
    <3>3. \E w \in {"migrate", "create"} : at' = [at EXCEPT ![s] = w]
      BY <1>5, <2>2 DEF ResolveSecrets
    <3>4. \E k \in Nat \cup {EnvKey} : key' = [key EXCEPT ![s] = k]
      <4>1. CASE key' = [key EXCEPT ![s] = EnvKey] BY <4>1
      <4>2. CASE key' = [key EXCEPT ![s] = file] /\ file \in Nat BY <4>2
      <4>3. CASE key' = [key EXCEPT ![s] = minted + 1]
        <5>1. minted + 1 \in Nat \cup {EnvKey} OBVIOUS
        <5> QED BY <4>3, <5>1, Zenon
      <4> QED BY <1>5, <2>2, <4>1, <4>2, <4>3 DEF ResolveSecrets
    <3> QED BY <3>1, <3>2, <3>3, <3>4
  <2> QED BY <2>1, <2>2
<1>6. ASSUME NEW s \in Servers, CreateFile(s) \/ WriteFile(s) PROVE BootTypes'
  <2>1. CASE Exit(s) /\ UNCHANGED mishaps BY <1>3, <2>1
  <2>2. CASE ~(Exit(s) /\ UNCHANGED mishaps) /\ CreateFile(s) BY <2>2 DEF CreateFile
  <2>3. CASE WriteFile(s) BY <2>3 DEF WriteFile, KeysKept
  <2> QED BY <1>6, <2>1, <2>2, <2>3
<1>7. ASSUME NEW s \in Servers, ReadVersion(s) PROVE BootTypes'
  <2>1. CASE Exit(s) /\ UNCHANGED mishaps BY <1>3, <2>1
  <2>2. CASE ~(Exit(s) /\ UNCHANGED mishaps)
    <3>1. /\ UNCHANGED <<stateDir, setting, key, feature, children, boots, mishapVars>>
          /\ from' = [from EXCEPT ![s] = stored[feature[s]]]
          /\ \E w \in {"initialize", "walk"} : at' = [at EXCEPT ![s] = w]
          /\ feature[s] \in 1..Features
      BY <1>7, <2>2, TargetType DEF ReadVersion
    <3> QED BY <3>1
  <2> QED BY <2>1, <2>2
<1>8. ASSUME NEW s \in Servers, Initialize(s) \/ Walk(s) \/ Walked(s) PROVE BootTypes'
  <2>1. feature[s] \in 1..Features /\ Target(s) \in Nat
    BY <1>8, TargetType DEF Initialize, Walk, Walked, WalksKept
  <2>2. CASE Initialize(s) BY <2>1, <2>2 DEF Initialize
  <2>3. CASE Walk(s) BY <2>1, <2>3 DEF Walk
  <2>4. CASE Walked(s) BY <2>1, <2>4 DEF Walked
  <2> QED BY <1>8, <2>2, <2>3, <2>4
<1>9. ASSUME NEW s \in Servers, SpawnAll(s) PROVE BootTypes' BY <1>9 DEF SpawnAll
<1>10. ASSUME NEW s \in Servers, BindPort(s) PROVE BootTypes'
  <2>1. CASE Exit(s) /\ UNCHANGED mishaps BY <1>3, <2>1
  <2>2. CASE ~(Exit(s) /\ UNCHANGED mishaps) BY <1>10, <2>2 DEF BindPort
  <2> QED BY <2>1, <2>2
<1>11. ASSUME NEW s \in Servers, NEW c \in Sidecars,
              Spawn(s, c) \/ ChildEnds(s, c) \/ Respawn(s, c)
       PROVE  BootTypes'
  <2>1. UNCHANGED <<stateDir, at, setting, key, feature, from, orphans, boots, mishapVars>>
    BY <1>11 DEF Spawn, ChildEnds, Respawn, Supervised
  <2>2. \E st \in {"spawning", "running", "backoff", "done"} :
          sidecar' = [sidecar EXCEPT ![s][c] = st]
    BY <1>11 DEF Spawn, ChildEnds, Respawn, Ended
  <2>3. last' = last \/ \E how \in {"clean", "failed", "lost"} : last' = [last EXCEPT ![s][c] = how]
    BY <1>11 DEF Spawn, ChildEnds, Respawn, Ended
  <2>4. sidecar' \in [Servers -> [Sidecars -> {"none", "spawning", "running", "backoff", "done"}]]
    BY <2>2
  <2>5. last' \in [Servers -> [Sidecars -> {"none", "clean", "failed", "lost"}]]
    <3>1. CASE last' = last BY <3>1
    <3>2. ASSUME NEW how \in {"clean", "failed", "lost"}, last' = [last EXCEPT ![s][c] = how]
          PROVE  last' \in [Servers -> [Sidecars -> {"none", "clean", "failed", "lost"}]]
      BY <3>2
    <3> QED BY <2>3, <3>1, <3>2
  <2> QED BY <2>1, <2>4, <2>5
<1>12. CASE DeleteTorn BY <1>12 DEF DeleteTorn
<1>13. ASSUME NEW c \in Sidecars, OrphanEnds(c) PROVE BootTypes' BY <1>13 DEF OrphanEnds
<1>14. CASE UNCHANGED bootVars BY <1>14 DEF bootVars
<1> QED BY <1>1, <1>4, <1>5, <1>6, <1>7, <1>8, <1>9, <1>10, <1>11, <1>12, <1>13, <1>14
        DEF BootNext

\* A server that leaves has no key, no walk and no children any more.
LEMMA Left ==
  ASSUME BootTypes, NEW s \in Servers, Leave(s)
  PROVE  /\ at'[s] = "off" /\ sidecar'[s] = Unsupervised /\ last'[s] = Unended
         /\ \A t \in Servers \ {s} :
              /\ at'[t] = at[t] /\ setting'[t] = setting[t] /\ key'[t] = key[t]
              /\ feature'[t] = feature[t] /\ from'[t] = from[t]
              /\ sidecar'[t] = sidecar[t] /\ last'[t] = last[t]
              /\ holder = t => holder' = t
         /\ UNCHANGED <<file, minted, stored, tables>>
BY DEF Leave, Reach, BootTypes

\* A server that has its keys, or needs none, goes on to a later step.
LEMMA GoesOn ==
  ASSUME BootTypes, KeysKept, NEW s \in Servers, UNCHANGED <<file, setting, key, mishaps>>,
         at[s] \in {"migrate", "initialize", "walk", "bind", "serving"},
         NEW w \in {"migrate", "initialize", "walk", "bind", "serving"},
         at' = [at EXCEPT ![s] = w]
  PROVE  KeysKept'
<1>1. \A t \in Servers : at'[t] \in {"create", "write"} => at[t] = at'[t]
  BY DEF BootTypes
<1>2. \A t \in Servers : Keyed(t)' => Keyed(t)
  BY DEF BootTypes, Keyed
<1>3. (\E t \in Servers : at[t] = "write") => \E t \in Servers : at'[t] = "write"
  BY DEF BootTypes
<1> QED BY <1>1, <1>2, <1>3 DEF KeysKept

\* The secrets file and the keys.
LEMMA KeysStep == BootIInv /\ [BootNext]_bootVars => KeysKept'
<1> SUFFICES ASSUME BootIInv, [BootNext]_bootVars PROVE KeysKept' OBVIOUS
<1> USE DEF Reach, Mishap, stateDir, children, mishapVars
<1>0. BootTypes /\ KeysKept BY DEF BootIInv
<1>1. \A s \in Servers : Leave(s) /\ mishaps' \in Nat
        /\ ((mishaps' = mishaps /\ at[s] # "write") \/ mishaps' > 0) => KeysKept'
  <2> SUFFICES ASSUME NEW s \in Servers, Leave(s), mishaps' \in Nat,
                      (mishaps' = mishaps /\ at[s] # "write") \/ mishaps' > 0
               PROVE  KeysKept'
    OBVIOUS
  <2> QED BY <1>0, Left DEF KeysKept, Keyed
<1>2. \A s \in Servers : Exit(s) /\ UNCHANGED mishaps /\ at[s] # "write" => KeysKept'
  BY <1>0, <1>1 DEF Exit, BootTypes
<1>3. ASSUME NEW s \in Servers, Fail(s) \/ Kill(s) PROVE KeysKept'
  <2>1. Leave(s) /\ mishaps' \in Nat /\ mishaps' > 0
    BY <1>0, <1>3 DEF Fail, Kill, Exit, BootTypes
  <2> QED BY <1>1, <2>1
<1>4. ASSUME NEW s \in Servers, Start(s) PROVE KeysKept'
  BY <1>0, <1>4 DEF Start, KeysKept, Keyed, BootTypes
<1>5. ASSUME NEW s \in Servers, ResolveSecrets(s) PROVE KeysKept'
  <2>1. CASE Exit(s) /\ UNCHANGED mishaps BY <1>2, <1>5, <2>1 DEF ResolveSecrets
  <2>2. CASE ~(Exit(s) /\ UNCHANGED mishaps)
    <3>1. UNCHANGED <<file, setting, mishaps>> /\ at[s] = "secrets"
      BY <1>5, <2>2 DEF ResolveSecrets
    <3>2. \/ /\ at' = [at EXCEPT ![s] = "migrate"]
             /\ \/ setting[s].env = "both"
                \/ key' = [key EXCEPT ![s] = file] /\ file \in Nat
          \/ at' = [at EXCEPT ![s] = "create"] /\ key' = [key EXCEPT ![s] = minted + 1]
      BY <1>5, <2>2 DEF ResolveSecrets
    <3>3. \A t \in Servers \ {s} : at'[t] = at[t] /\ key'[t] = key[t]
      BY <1>0, <1>5, <2>2 DEF ResolveSecrets, BootTypes
    <3>4. minted + 1 \in Nat BY <1>0 DEF BootTypes
    <3> QED BY <1>0, <3>1, <3>2, <3>3, <3>4 DEF KeysKept, Keyed, BootTypes
  <2> QED BY <2>1, <2>2
<1>6. ASSUME NEW s \in Servers, CreateFile(s) PROVE KeysKept'
  <2>1. CASE Exit(s) /\ UNCHANGED mishaps BY <1>2, <1>6, <2>1 DEF CreateFile
  <2>2. CASE ~(Exit(s) /\ UNCHANGED mishaps)
    <3>1. /\ at[s] = "create" /\ file = Absent /\ file' = Torn /\ at' = [at EXCEPT ![s] = "write"]
          /\ UNCHANGED <<setting, key, mishaps>> /\ key[s] \in Nat
      BY <1>0, <1>6, <2>2 DEF CreateFile, KeysKept
    <3>2. \A t \in Servers : ~(at[t] = "write") /\ ~(Keyed(t) /\ setting[t].env # "both")
      BY <1>0, <3>1, BootAssumption DEF KeysKept
    <3>3. at'[s] = "write" /\ \A t \in Servers : t # s => at'[t] = at[t]
      BY <1>0, <3>1 DEF BootTypes
    <3>4. \A t \in Servers : ~(Keyed(t) /\ setting[t].env # "both")'
      BY <3>1, <3>2, <3>3 DEF Keyed
    <3> QED BY <1>0, <3>1, <3>2, <3>3, <3>4 DEF KeysKept
  <2> QED BY <2>1, <2>2
<1>7. ASSUME NEW s \in Servers, WriteFile(s) PROVE KeysKept'
  <2>1. /\ file = Torn /\ key[s] \in Nat /\ file' = key[s] /\ Torn \notin Nat
        /\ at' = [at EXCEPT ![s] = "migrate"]
        /\ UNCHANGED <<setting, key, mishaps>>
    BY <1>0, <1>7, BootAssumption DEF WriteFile, KeysKept
  <2> QED BY <1>0, <1>7, <2>1 DEF KeysKept, Keyed, BootTypes, WriteFile
<1>8. ASSUME NEW s \in Servers, ReadVersion(s) PROVE KeysKept'
  <2>1. CASE Exit(s) /\ UNCHANGED mishaps BY <1>2, <1>8, <2>1 DEF ReadVersion
  <2>2. CASE ~(Exit(s) /\ UNCHANGED mishaps)
    <3>1. /\ at[s] = "migrate" /\ UNCHANGED <<file, setting, key, mishaps>>
          /\ \E w \in {"initialize", "walk"} : at' = [at EXCEPT ![s] = w]
      BY <1>8, <2>2 DEF ReadVersion
    <3> QED BY <1>0, <3>1, GoesOn
  <2> QED BY <2>1, <2>2
<1>9. ASSUME NEW s \in Servers, Initialize(s) \/ Walk(s) \/ Walked(s) \/ SpawnAll(s) PROVE KeysKept'
  <2>1. CASE Initialize(s) BY <1>0, <2>1, GoesOn DEF Initialize
  <2>2. CASE Walk(s) BY <1>0, <2>2 DEF Walk, KeysKept, Keyed
  <2>3. CASE Walked(s) BY <1>0, <2>3, GoesOn DEF Walked
  <2>4. CASE SpawnAll(s) BY <1>0, <2>4, GoesOn DEF SpawnAll
  <2> QED BY <1>9, <2>1, <2>2, <2>3, <2>4
<1>10. ASSUME NEW s \in Servers, BindPort(s) PROVE KeysKept'
  <2>1. CASE Exit(s) /\ UNCHANGED mishaps BY <1>2, <1>10, <2>1 DEF BindPort
  <2>2. CASE ~(Exit(s) /\ UNCHANGED mishaps)
    BY <1>0, <1>10, <2>2, GoesOn DEF BindPort
  <2> QED BY <2>1, <2>2
<1>11. ASSUME NEW s \in Servers, NEW c \in Sidecars,
              Spawn(s, c) \/ ChildEnds(s, c) \/ Respawn(s, c)
       PROVE  KeysKept'
  <2>1. UNCHANGED <<stateDir, at, setting, key, feature, from, orphans, boots, mishapVars>>
    BY <1>11 DEF Spawn, ChildEnds, Respawn, Supervised
  <2> QED BY <1>0, <2>1 DEF KeysKept, Keyed
<1>12. CASE DeleteTorn BY <1>0, <1>12, BootAssumption DEF DeleteTorn, KeysKept, Keyed, BootTypes
<1>13. ASSUME NEW c \in Sidecars, OrphanEnds(c) PROVE KeysKept'
  BY <1>0, <1>13 DEF OrphanEnds, KeysKept, Keyed
<1>14. CASE UNCHANGED bootVars BY <1>0, <1>14 DEF bootVars, KeysKept, Keyed
<1> QED BY <1>3, <1>4, <1>5, <1>6, <1>7, <1>8, <1>9, <1>10, <1>11, <1>12, <1>13, <1>14
        DEF BootNext

\* The schema of every feature.
LEMMA WalksStep == BootIInv /\ [BootNext]_bootVars => WalksKept'
<1> SUFFICES ASSUME BootIInv, [BootNext]_bootVars PROVE WalksKept' OBVIOUS
<1> USE DEF Reach, Mishap, stateDir, children, mishapVars
<1>0. BootTypes /\ WalksKept /\ Features \in Nat BY BootAssumption DEF BootIInv
<1>1. \A s \in Servers : Leave(s) => WalksKept'
  BY <1>0, Left DEF WalksKept, SchemaSound, FirstFeature
<1>2. ASSUME NEW s \in Servers, Fail(s) \/ Kill(s) \/ Exit(s) PROVE WalksKept'
  BY <1>1, <1>2 DEF Fail, Kill, Exit
<1>3. ASSUME NEW s \in Servers, Start(s) PROVE WalksKept'
  <2>1. /\ UNCHANGED <<stored, tables, from>>
        /\ at'[s] \in {"secrets", "migrate"} /\ feature'[s] = FirstFeature(s)'
        /\ \A t \in Servers \ {s} :
             at'[t] = at[t] /\ feature'[t] = feature[t] /\ setting'[t] = setting[t]
    BY <1>0, <1>3 DEF Start, FirstFeature, BootTypes
  <2>2. FirstFeature(s)' \in Nat BY DEF FirstFeature
  <2> QED BY <1>0, <2>1, <2>2 DEF WalksKept, SchemaSound, FirstFeature
<1>4. ASSUME NEW s \in Servers, ResolveSecrets(s) \/ CreateFile(s) \/ WriteFile(s) PROVE WalksKept'
  <2>1. CASE Exit(s) BY <1>2, <2>1
  <2>2. CASE ~Exit(s)
    <3>1. /\ UNCHANGED <<stored, tables, from, feature, setting>> /\ at[s] # "off"
          /\ at'[s] \in {"create", "write", "migrate"}
          /\ \A t \in Servers \ {s} : at'[t] = at[t]
      BY <1>0, <1>4, <2>2 DEF ResolveSecrets, CreateFile, WriteFile, BootTypes
    <3> QED BY <1>0, <3>1 DEF WalksKept, SchemaSound, FirstFeature
  <2> QED BY <2>1, <2>2
<1>5. ASSUME NEW s \in Servers, ReadVersion(s) PROVE WalksKept'
  <2>1. CASE Exit(s) BY <1>2, <2>1
  <2>2. CASE ~Exit(s)
    <3>1. /\ UNCHANGED <<stored, tables, feature, setting>>
          /\ at[s] = "migrate" /\ at'[s] \in {"initialize", "walk"} /\ feature[s] \in 1..Features
          /\ from'[s] = stored[feature[s]]
          /\ \A t \in Servers \ {s} : at'[t] = at[t] /\ from'[t] = from[t]
      BY <1>0, <1>5, <2>2, TargetType DEF ReadVersion, BootTypes
    <3> QED BY <1>0, <3>1 DEF WalksKept, SchemaSound, FirstFeature
  <2> QED BY <2>1, <2>2
<1>6. ASSUME NEW s \in Servers, Initialize(s) PROVE WalksKept'
  <2> DEFINE f == feature[s]
  <2>1. f \in 1..Features /\ Target(s) \in Nat /\ Target(s) = setting[s].release[f]
    BY <1>0, <1>6, TargetType DEF Initialize, WalksKept, Target
  <2>2. /\ tables' = [tables EXCEPT ![f] = @ \cup 1..Target(s)]
        /\ stored' = [stored EXCEPT ![f] = Target(s)]
        /\ UNCHANGED setting /\ at[s] = "initialize" /\ at'[s] = "migrate" /\ feature'[s] = f + 1
        /\ \A t \in Servers \ {s} : at'[t] = at[t] /\ from'[t] = from[t] /\ feature'[t] = feature[t]
    BY <1>0, <1>6 DEF Initialize, BootTypes
  <2>3. \A g \in 1..Features : tables[g] \subseteq tables'[g] BY <1>0, <2>1, <2>2 DEF BootTypes
  <2>4. \A g \in 1..Features : 1..stored'[g] \subseteq tables'[g]
    BY <1>0, <2>1, <2>2, <2>3 DEF BootTypes, WalksKept, SchemaSound
  <2>5. 1..setting[s].release[f] \subseteq tables'[f] BY <1>0, <2>1, <2>2 DEF BootTypes
  <2>6. \A t \in Servers : feature[t] \in Nat \ {0} BY <1>0 DEF BootTypes
  <2>7. \A t \in Servers : at'[t] = "walk" => 1..from'[t] \subseteq tables'[feature'[t]]
    BY <1>0, <2>2, <2>3, <2>6 DEF WalksKept
  <2>8. \A t \in Servers : at'[t] # "off" =>
          \A g \in FirstFeature(t)..Features :
            g < feature'[t] => 1..setting[t].release[g] \subseteq tables'[g]
    <3> SUFFICES ASSUME NEW t \in Servers, at'[t] # "off",
                        NEW g \in FirstFeature(t)..Features, g < feature'[t]
                 PROVE  1..setting[t].release[g] \subseteq tables'[g]
      OBVIOUS
    <3>1. g \in 1..Features BY <1>0 DEF FirstFeature
    <3>2. CASE t = s /\ g = f BY <2>5, <3>2
    <3>3. CASE ~(t = s /\ g = f)
      <4>1. at[t] # "off" /\ g < feature[t] BY <2>1, <2>2, <3>1, <3>3
      <4>2. 1..setting[t].release[g] \subseteq tables[g]
        BY <1>0, <4>1 DEF WalksKept, SchemaSound
      <4> QED BY <2>3, <3>1, <4>2
    <3> QED BY <3>2, <3>3
  <2>9. \A t \in Servers : at'[t] \in {"initialize", "walk"} => feature'[t] <= Features
    BY <1>0, <2>2 DEF WalksKept
  <2>10. \A t \in Servers : FirstFeature(t)' = FirstFeature(t) BY <2>2 DEF FirstFeature
  <2> QED BY <2>2, <2>4, <2>7, <2>8, <2>9, <2>10 DEF WalksKept, SchemaSound
<1>7. ASSUME NEW s \in Servers, Walk(s) PROVE WalksKept'
  <2> DEFINE f == feature[s]
  <2>1. f \in 1..Features /\ from[s] \in Nat
    BY <1>0, <1>7, TargetType DEF Walk, WalksKept, BootTypes
  <2>2. /\ tables' = [tables EXCEPT ![f] = @ \cup {from[s] + 1}]
        /\ stored' = [stored EXCEPT ![f] = from[s] + 1]
        /\ UNCHANGED <<setting, at, feature>> /\ at[s] = "walk" /\ from'[s] = from[s] + 1
        /\ \A t \in Servers \ {s} : from'[t] = from[t]
    BY <1>0, <1>7 DEF Walk, BootTypes
  <2>3. \A g \in 1..Features : tables[g] \subseteq tables'[g] BY <1>0, <2>1, <2>2 DEF BootTypes
  <2>4. 1..(from[s] + 1) \subseteq tables'[f]
    <3>1. 1..from[s] \subseteq tables[f] BY <1>0, <2>2 DEF WalksKept
    <3>2. tables'[f] = tables[f] \cup {from[s] + 1} BY <1>0, <2>1, <2>2 DEF BootTypes
    <3> QED BY <2>1, <3>1, <3>2
  <2>5. \A g \in 1..Features : 1..stored'[g] \subseteq tables'[g]
    BY <1>0, <2>1, <2>2, <2>3, <2>4 DEF BootTypes, WalksKept, SchemaSound
  <2>6. \A t \in Servers : at'[t] = "walk" => 1..from'[t] \subseteq tables'[feature'[t]]
    <3> SUFFICES ASSUME NEW t \in Servers, at[t] = "walk"
                 PROVE  1..from'[t] \subseteq tables'[feature[t]]
      BY <2>2
    <3>1. feature[t] \in 1..Features BY <1>0 DEF WalksKept, BootTypes
    <3>2. 1..from[t] \subseteq tables[feature[t]] BY <1>0 DEF WalksKept
    <3>3. CASE t = s BY <2>2, <2>4, <3>3
    <3>4. CASE t # s BY <2>2, <2>3, <3>1, <3>2, <3>4
    <3> QED BY <3>3, <3>4
  <2>7. \A t \in Servers : at[t] # "off" =>
          \A g \in FirstFeature(t)..Features :
            g < feature[t] => 1..setting[t].release[g] \subseteq tables'[g]
    <3>1. \A t \in Servers : FirstFeature(t)..Features \subseteq 1..Features
      BY <1>0 DEF FirstFeature
    <3> QED BY <1>0, <2>3, <3>1 DEF WalksKept, SchemaSound
  <2>8. \A t \in Servers : FirstFeature(t)' = FirstFeature(t) BY <2>2 DEF FirstFeature
  <2>9. \A t \in Servers : at'[t] \in {"initialize", "walk"} => feature'[t] <= Features
    BY <1>0, <2>2 DEF WalksKept
  <2> QED BY <2>2, <2>5, <2>6, <2>7, <2>8, <2>9 DEF WalksKept, SchemaSound
<1>8. ASSUME NEW s \in Servers, Walked(s) PROVE WalksKept'
  <2> DEFINE f == feature[s]
  <2>1. /\ f \in 1..Features /\ from[s] \in Nat /\ Target(s) \in Nat
        /\ Target(s) = setting[s].release[f] /\ from[s] >= Target(s)
    BY <1>0, <1>8, TargetType DEF Walked, WalksKept, BootTypes, Target
  <2>2. /\ UNCHANGED <<tables, stored, setting>> /\ at[s] = "walk" /\ at'[s] = "migrate"
        /\ feature'[s] = f + 1
        /\ \A t \in Servers \ {s} : at'[t] = at[t] /\ from'[t] = from[t] /\ feature'[t] = feature[t]
    BY <1>0, <1>8 DEF Walked, BootTypes
  <2>3. 1..setting[s].release[f] \subseteq tables[f]
    <3>1. 1..from[s] \subseteq tables[f] BY <1>0, <2>2 DEF WalksKept
    <3> QED BY <2>1, <3>1
  <2>4. \A t \in Servers : at'[t] # "off" =>
          \A g \in FirstFeature(t)..Features :
            g < feature'[t] => 1..setting[t].release[g] \subseteq tables[g]
    <3> SUFFICES ASSUME NEW t \in Servers, at'[t] # "off",
                        NEW g \in FirstFeature(t)..Features, g < feature'[t]
                 PROVE  1..setting[t].release[g] \subseteq tables[g]
      OBVIOUS
    <3>1. g \in 1..Features BY <1>0 DEF FirstFeature
    <3>2. CASE t = s /\ g = f BY <2>3, <3>2
    <3>3. CASE ~(t = s /\ g = f)
      <4>1. at[t] # "off" /\ g < feature[t] BY <2>1, <2>2, <3>1, <3>3
      <4> QED BY <1>0, <4>1 DEF WalksKept, SchemaSound
    <3> QED BY <3>2, <3>3
  <2>5. \A t \in Servers : FirstFeature(t)' = FirstFeature(t) BY <2>2 DEF FirstFeature
  <2> QED BY <1>0, <2>2, <2>4, <2>5 DEF WalksKept, SchemaSound
<1>9. ASSUME NEW s \in Servers, SpawnAll(s) \/ BindPort(s) PROVE WalksKept'
  <2>1. CASE Exit(s) BY <1>2, <2>1
  <2>2. CASE ~Exit(s)
    <3>1. /\ UNCHANGED <<stored, tables, from, feature, setting>> /\ at[s] # "off"
          /\ at'[s] \in {"bind", "serving"}
          /\ \A t \in Servers \ {s} : at'[t] = at[t]
      BY <1>0, <1>9, <2>2 DEF SpawnAll, BindPort, BootTypes
    <3> QED BY <1>0, <3>1 DEF WalksKept, SchemaSound, FirstFeature
  <2> QED BY <2>1, <2>2
<1>10. ASSUME NEW s \in Servers, NEW c \in Sidecars,
              Spawn(s, c) \/ ChildEnds(s, c) \/ Respawn(s, c)
       PROVE  WalksKept'
  <2>1. UNCHANGED <<stateDir, at, setting, key, feature, from, orphans, boots, mishapVars>>
    BY <1>10 DEF Spawn, ChildEnds, Respawn, Supervised
  <2> QED BY <1>0, <2>1 DEF WalksKept, SchemaSound, FirstFeature
<1>11. CASE DeleteTorn BY <1>0, <1>11 DEF DeleteTorn, WalksKept, SchemaSound, FirstFeature
<1>12. ASSUME NEW c \in Sidecars, OrphanEnds(c) PROVE WalksKept'
  BY <1>0, <1>12 DEF OrphanEnds, WalksKept, SchemaSound, FirstFeature
<1>13. CASE UNCHANGED bootVars BY <1>0, <1>13 DEF bootVars, WalksKept, SchemaSound, FirstFeature
<1> QED BY <1>2, <1>3, <1>4, <1>5, <1>6, <1>7, <1>8, <1>9, <1>10, <1>11, <1>12, <1>13
        DEF BootNext

\* What a supervisor and the end of its child come to under a policy.
Obeys(policy, state, how) ==
  /\ policy = "never" /\ how # "none" => state = "done"
  /\ policy = "on-failure" /\ how = "clean" => state = "done"
  /\ policy = "always" => state # "done"

\* The sidecars and the port.
LEMMA ChildrenStep == BootIInv /\ [BootNext]_bootVars => ChildrenKept'
<1> SUFFICES ASSUME BootIInv, [BootNext]_bootVars PROVE ChildrenKept' OBVIOUS
<1> USE DEF Reach, Mishap, stateDir, children, mishapVars
<1>0. BootTypes /\ ChildrenKept BY DEF BootIInv
<1>1. \A x \in Settings : x.restart \in {"always", "never", "on-failure"} BY BootAssumption
<1>2. ASSUME NEW s \in Servers, Leave(s), \A c \in Sidecars : orphans'[c] <= kills'
      PROVE  ChildrenKept'
  <2>1. \A t \in Servers \ {s} :
          /\ at'[t] = at[t] /\ setting'[t] = setting[t]
          /\ sidecar'[t] = sidecar[t] /\ last'[t] = last[t] /\ (holder = t => holder' = t)
    BY <1>0, <1>2, Left
  <2>2. at'[s] = "off" /\ sidecar'[s] = Unsupervised /\ last'[s] = Unended
    BY <1>0, <1>2, Left
  <2> QED BY <1>0, <1>2, <2>1, <2>2 DEF ChildrenKept, Unsupervised, Unended
<1>3. ASSUME NEW s \in Servers, Exit(s) PROVE ChildrenKept'
  <2>1. Leave(s) /\ \A c \in Sidecars : orphans'[c] <= kills'
    BY <1>0, <1>3 DEF Exit, ChildrenKept
  <2> QED BY <1>2, <2>1
<1>4. ASSUME NEW s \in Servers, Fail(s) \/ Kill(s) PROVE ChildrenKept'
  <2>1. CASE Exit(s) BY <1>3, <2>1
  <2>2. CASE Kill(s)
    <3>1. Leave(s) /\ kills' = kills + 1 /\ Outlive(s) BY <2>2 DEF Kill
    <3>2. \A c \in Sidecars : orphans'[c] <= kills'
      <4> SUFFICES ASSUME NEW c \in Sidecars PROVE orphans'[c] <= kills' OBVIOUS
      <4>1. orphans'[c] = orphans[c] + IF sidecar[s][c] = "running" THEN 1 ELSE 0
        BY <3>1 DEF Outlive
      <4>2. orphans[c] \in Nat /\ kills \in Nat /\ orphans[c] <= kills
        BY <1>0 DEF BootTypes, ChildrenKept
      <4> QED BY <3>1, <4>1, <4>2
    <3> QED BY <1>2, <3>1, <3>2
  <2> QED BY <1>4, <2>1, <2>2 DEF Fail
<1>5. ASSUME NEW s \in Servers,
             \/ Start(s) \/ ResolveSecrets(s) \/ CreateFile(s) \/ WriteFile(s)
             \/ ReadVersion(s) \/ Initialize(s) \/ Walk(s) \/ Walked(s)
      PROVE  ChildrenKept'
  <2>1. CASE Exit(s) BY <1>3, <2>1
  <2>2. CASE ~Exit(s)
    <3>1. /\ UNCHANGED <<sidecar, last, orphans, kills, holder>>
          /\ at[s] \notin {"bind", "serving"} /\ at'[s] \notin {"bind", "serving"}
      BY <1>0, <1>5, <2>2
         DEF Start, ResolveSecrets, CreateFile, WriteFile, ReadVersion, Initialize, Walk, Walked,
             BootTypes
    <3>2. \A t \in Servers \ {s} : at'[t] = at[t] /\ setting'[t] = setting[t]
      BY <1>0, <1>5, <2>2
         DEF Start, ResolveSecrets, CreateFile, WriteFile, ReadVersion, Initialize, Walk, Walked,
             BootTypes
    <3>3. sidecar[s] = Unsupervised /\ last[s] = Unended BY <1>0, <3>1 DEF ChildrenKept
    <3> QED BY <1>0, <3>1, <3>2, <3>3 DEF ChildrenKept, Unsupervised, Unended
  <2> QED BY <2>1, <2>2
<1>6. ASSUME NEW s \in Servers, SpawnAll(s) PROVE ChildrenKept'
  <2>1. /\ UNCHANGED <<setting, last, orphans, kills, holder>>
        /\ at[s] = "migrate" /\ at'[s] = "bind"
        /\ \A c \in Sidecars : sidecar'[s][c] = "spawning"
        /\ \A t \in Servers \ {s} : at'[t] = at[t] /\ sidecar'[t] = sidecar[t]
    BY <1>0, <1>6 DEF SpawnAll, BootTypes
  <2>2. \A c \in Sidecars : last[s][c] = "none"
    BY <1>0, <2>1 DEF ChildrenKept, Unended
  <2> QED BY <1>0, <2>1, <2>2 DEF ChildrenKept
<1>7. ASSUME NEW s \in Servers, BindPort(s) PROVE ChildrenKept'
  <2>1. CASE Exit(s) BY <1>3, <2>1
  <2>2. CASE ~Exit(s)
    <3>1. /\ UNCHANGED <<setting, sidecar, last, orphans, kills>>
          /\ holder = NoServer /\ holder' = s /\ at[s] = "bind" /\ at'[s] = "serving"
          /\ \A t \in Servers \ {s} : at'[t] = at[t]
      BY <1>0, <1>7, <2>2 DEF BindPort, BootTypes
    <3>2. \A t \in Servers : at[t] # "serving" BY <1>0, <3>1, BootAssumption DEF ChildrenKept
    <3> QED BY <1>0, <3>1, <3>2 DEF ChildrenKept
  <2> QED BY <2>1, <2>2
<1>8. ASSUME NEW s \in Servers, NEW c \in Sidecars,
             Spawn(s, c) \/ ChildEnds(s, c) \/ Respawn(s, c)
      PROVE  ChildrenKept'
  <2>1. UNCHANGED <<at, setting, holder, orphans, kills>>
    BY <1>8 DEF Spawn, ChildEnds, Respawn, Supervised
  <2>2. \A t \in Servers \ {s} : sidecar'[t] = sidecar[t] /\ last'[t] = last[t]
    BY <1>0, <1>8 DEF Spawn, ChildEnds, Respawn, Ended, BootTypes
  <2>3. \A d \in Sidecars \ {c} : sidecar'[s][d] = sidecar[s][d] /\ last'[s][d] = last[s][d]
    BY <1>0, <1>8 DEF Spawn, ChildEnds, Respawn, Ended, BootTypes
  <2>4. sidecar[s][c] \in {"spawning", "running", "backoff"}
    BY <1>8 DEF Spawn, ChildEnds, Respawn
  <2>5. at[s] \in {"bind", "serving"}
    <3>1. Unsupervised[c] = "none" BY DEF Unsupervised
    <3> QED BY <1>0, <2>4, <3>1 DEF ChildrenKept
  <2>6. Obeys(setting[s].restart, sidecar[s][c], last[s][c])
    BY <1>0 DEF ChildrenKept, Obeys
  <2>7. \/ sidecar'[s][c] \in {"spawning", "running"} /\ last'[s][c] = last[s][c]
        \/ /\ last'[s][c] \in {"clean", "failed", "lost"}
           /\ sidecar'[s][c] = IF ShouldRestart(setting[s].restart, last'[s][c])
                               THEN "backoff" ELSE "done"
    <3>1. ASSUME NEW how \in {"clean", "failed", "lost"}, Ended(s, c, how)
          PROVE  /\ last'[s][c] = how
                 /\ sidecar'[s][c] = IF ShouldRestart(setting[s].restart, how)
                                     THEN "backoff" ELSE "done"
      BY <1>0, <3>1 DEF Ended, BootTypes
    <3>2. CASE \E how \in {"clean", "failed", "lost"} : Ended(s, c, how) BY <3>1, <3>2
    <3>3. CASE ~\E how \in {"clean", "failed", "lost"} : Ended(s, c, how)
      BY <1>0, <1>8, <3>3 DEF Spawn, ChildEnds, Respawn, BootTypes
    <3> QED BY <3>2, <3>3
  <2>8. setting[s].restart \in {"always", "never", "on-failure"} BY <1>0, <1>1 DEF BootTypes
  <2>9. Obeys(setting[s].restart, sidecar'[s][c], last'[s][c])
    BY <2>4, <2>6, <2>7, <2>8 DEF Obeys, ShouldRestart
  <2>10. \A t \in Servers, d \in Sidecars : Obeys(setting[t].restart, sidecar'[t][d], last'[t][d])
    <3>1. \A t \in Servers, d \in Sidecars : Obeys(setting[t].restart, sidecar[t][d], last[t][d])
      BY <1>0 DEF ChildrenKept, Obeys
    <3> QED BY <2>2, <2>3, <2>9, <3>1
  <2> QED BY <1>0, <2>1, <2>2, <2>5, <2>10 DEF ChildrenKept, Obeys
<1>9. CASE DeleteTorn BY <1>0, <1>9 DEF DeleteTorn, ChildrenKept
<1>10. ASSUME NEW c \in Sidecars, OrphanEnds(c) PROVE ChildrenKept'
  <2>1. UNCHANGED <<at, setting, holder, sidecar, last, kills>> BY <1>10 DEF OrphanEnds
  <2>2. \A d \in Sidecars : orphans'[d] <= orphans[d] /\ orphans'[d] \in Int
    BY <1>0, <1>10 DEF OrphanEnds, BootTypes
  <2>3. \A d \in Sidecars : orphans[d] \in Nat /\ kills \in Nat /\ orphans[d] <= kills
    BY <1>0 DEF BootTypes, ChildrenKept
  <2> QED BY <1>0, <2>1, <2>2, <2>3 DEF ChildrenKept
<1>11. CASE UNCHANGED bootVars BY <1>0, <1>11 DEF bootVars, ChildrenKept
<1> QED BY <1>4, <1>5, <1>6, <1>7, <1>8, <1>9, <1>10, <1>11 DEF BootNext

\* The inductive invariant holds for ever.
THEOREM BootInvariance == BootSpec => []BootIInv
<1>1. BootIInv /\ [BootNext]_bootVars => BootIInv' BY TypesStep, KeysStep, WalksStep, ChildrenStep DEF BootIInv
<1> QED BY <1>1, BootInitIInv, PTL DEF BootSpec

\* Every variable of the boot keeps its type, whatever the releases.
THEOREM BootTypeCorrect == BootSpec => []BootTypes
<1>1. BootIInv => BootTypes BY DEF BootIInv
<1> QED BY <1>1, BootInvariance, PTL

\* Secrets::resolve: however many first boots overlap and die, servers that
\* take their keys from the file share them.
THEOREM OneKey == BootSpec => []KeysSound
<1>1. BootIInv => KeysSound BY DEF BootIInv, KeysKept, KeysSound
<1> QED BY <1>1, BootInvariance, PTL

\* migrate::run: whatever releases walk one database at once, and wherever they
\* are killed, no version is recorded before its tables are there.
THEOREM SchemaReached == BootSpec => []SchemaSound
<1>1. BootIInv => SchemaSound BY DEF BootIInv, WalksKept
<1> QED BY <1>1, BootInvariance, PTL

\* spawn_all and its supervisors: restarts follow the policy, one server serves,
\* and children outlive only servers that were killed.
THEOREM SidecarsKept == BootSpec => []SidecarsSound
<1>1. BootIInv => SidecarsSound
  <2> SUFFICES ASSUME BootIInv PROVE SidecarsSound OBVIOUS
  <2>1. BootTypes /\ ChildrenKept BY DEF BootIInv
  <2>2. \A s \in Servers, c \in Sidecars : sidecar[s][c] = "running" => at[s] \in {"bind", "serving"}
    <3>1. \A c \in Sidecars : Unsupervised[c] = "none" BY DEF Unsupervised
    <3> QED BY <2>1, <3>1 DEF ChildrenKept
  <2>3. Cardinality({s \in Servers : at[s] = "serving"}) <= 1
    <3> DEFINE S == {s \in Servers : at[s] = "serving"}
    <3>1. S = {} \/ S = {holder} BY <2>1 DEF ChildrenKept
    <3>2. Cardinality({}) = 0 BY FS_EmptySet
    <3>3. Cardinality({holder}) = 1 BY FS_Singleton
    <3> QED BY <3>1, <3>2, <3>3
  <2> QED BY <2>1, <2>2, <2>3 DEF ChildrenKept, SidecarsSound
<1> QED BY <1>1, BootInvariance, PTL
==============================================================================
