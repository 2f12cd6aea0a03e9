------------------------- MODULE ConfigStoreProofs -------------------------
(***************************************************************************)
(* What the ConfigStore guarantees for any number of requests, names,      *)
(* providers, edits and failures.  Three arguments, independent of one     *)
(* another given type correctness: validation precedes every store of a    *)
(* snapshot; write_lock keeps the document of a writer current between its *)
(* read and its rename; a rebuild that meets no other publishes the list   *)
(* and the rows that are in force when it ends.                            *)
(***************************************************************************)
EXTENDS ConfigStore, TLAPS

\* Expanding placeholders keeps a document a document, with the same agents.
LEMMA ExpandDoc ==
  ASSUME NEW d \in Doc
  PROVE  /\ Expand(d) \in Doc /\ Expand(d).agents = d.agents /\ Expand(d).misc = d.misc
         /\ \A k \in Kinds : Expand(d).providers[k] = "none" <=> d.providers[k] = "none"
BY DEF Expand, Doc, Key

\* Expanding placeholders does not make a document valid or invalid.
LEMMA ExpandValid == ASSUME NEW d \in Doc PROVE Valid(Expand(d)) <=> Valid(d)
<1>1. \A n \in Names : d.agents[n] \in Kinds \cup {None} BY DEF Doc, List
<1> QED BY <1>1, ExpandDoc DEF Valid

\* The merged list is a list.
LEMMA MergeType == ASSUME NEW y \in List, NEW r \in Rows PROVE Merge(y, r) \in List
BY DEF Merge, List, Rows

\* What a writer stores is a document.
LEMMA ResultType ==
  ASSUME TypeOK, NEW x \in Reqs, Result(x) # Broken PROVE Result(x) \in Doc
<1>1. root[x] \in Doc \cup {Broken} /\ want[x] \in Wants BY DEF TypeOK, Actors
<1>2. CASE want[x].sec = "all"
  BY <1>1, <1>2, ConfigStoreAssumption DEF Result, Wants
<1>3. CASE want[x].sec = "misc"
  <2>1. root[x] \in Doc /\ want[x].val \in Values BY <1>1, <1>3 DEF Result, Wants
  <2> QED BY <2>1, <1>3 DEF Result, Doc
<1>4. CASE want[x].sec = "providers"
  <2>1. root[x] \in Doc /\ want[x].val \in [Kinds -> Key] BY <1>1, <1>4 DEF Result, Wants
  <2> QED BY <2>1, <1>4 DEF Result, Doc
<1> QED BY <1>1, <1>2, <1>3, <1>4 DEF Wants

\* The values of a request that has returned are typed.
LEMMA NoLocals ==
  /\ NoWant \in Wants /\ NoTarget \in [name : Names, backed : BOOLEAN] /\ NoRows \in Rows
  /\ Boot \in Doc /\ Boot.agents \in List
<1>1. Boot \in Doc /\ Names # {} BY ConfigStoreAssumption DEF Valid
<1>2. Boot.agents \in List /\ Boot.misc \in Values BY <1>1 DEF Doc
<1>3. NoWant \in Wants BY <1>2 DEF NoWant, Wants
<1>4. NoTarget \in [name : Names, backed : BOOLEAN] BY <1>1 DEF NoTarget
<1>5. NoRows \in Rows BY DEF NoRows, Rows
<1> QED BY <1>1, <1>2, <1>3, <1>4, <1>5

PcSet == {"idle", "boot", "read", "store", "exists", "drop", "load", "list",
          "publish", "lock", "write", "done"}

\* TypeOK by the owner of the state.
TypeFile  == file \in Doc \cup {Broken} /\ pending \in BOOLEAN
TypeMem   == snapshot \in Doc /\ yaml \in List /\ rows \in Rows /\ live \in List
TypePc    == lock \in Reqs \cup {None} /\ pc \in [Actors -> PcSet]
TypeLocal == /\ want \in [Reqs -> Wants] /\ root \in [Actors -> Doc \cup {Broken}]
             /\ arg \in [Actors -> List] /\ db \in [Actors -> Rows]
             /\ target \in [Reqs -> [name : Names, backed : BOOLEAN]]
TypeCount == edits \in 0..MaxEdits /\ faults \in 0..MaxFaults
TypeHist  == /\ overtaken \subseteq Reqs /\ unseen \in BOOLEAN
             /\ alone \subseteq Actors /\ exact \in BOOLEAN
Stored    == pc[Watcher] = "store" => root[Watcher] \in Doc /\ Valid(root[Watcher])

IType == /\ TypeFile /\ TypeMem /\ TypePc /\ TypeLocal /\ TypeCount /\ TypeHist
         /\ Stored /\ SnapshotValid

\* The parts make up TypeOK.
LEMMA Parts == IType => TypeOK
BY DEF IType, TypeOK, TypeFile, TypeMem, TypePc, TypeLocal, TypeCount, TypeHist, PcSet

\* A handler that returns leaves typed state behind.
LEMMA LeaveType ==
  ASSUME TypePc, TypeLocal, NEW x \in Actors, Leave(x)
  PROVE  /\ TypePc' /\ TypeLocal' /\ pc' = [pc EXCEPT ![x] = Over(x)]
         /\ root' = [root EXCEPT ![x] = Boot]
<1>1. x = Watcher \/ x \in Reqs BY DEF Actors
<1>2. lock' \in Reqs \cup {None} BY DEF Leave, Release, TypePc
<1>3. pc' = [pc EXCEPT ![x] = Over(x)] /\ Over(x) \in PcSet BY DEF Leave, Goto, Over, PcSet
<1>4. pc' \in [Actors -> PcSet] BY <1>3 DEF TypePc
<1>5. /\ root' = [root EXCEPT ![x] = Boot] /\ root' \in [Actors -> Doc \cup {Broken}]
      /\ arg' \in [Actors -> List] /\ db' \in [Actors -> Rows]
  BY NoLocals DEF Leave, TypeLocal
<1>6. want' \in [Reqs -> Wants] BY NoLocals DEF Leave, TypeLocal
<1>7. target' \in [Reqs -> [name : Names, backed : BOOLEAN]]
  <2>1. CASE x = Watcher BY <2>1 DEF Leave, TypeLocal
  <2>2. CASE x # Watcher
    <3> DEFINE T == [name : Names, backed : BOOLEAN]
    <3>1. target' = [target EXCEPT ![x] = NoTarget] /\ target \in [Reqs -> T] /\ NoTarget \in T
      BY <2>2, NoLocals DEF Leave, TypeLocal
    <3> HIDE DEF T
    <3>2. target' \in [Reqs -> T] BY <3>1
    <3> QED BY <3>2 DEF T
  <2> QED BY <2>1, <2>2
<1> QED BY <1>2, <1>3, <1>4, <1>5, <1>6, <1>7 DEF TypePc, TypeLocal

\* Moving a process keeps its place typed.
LEMMA GotoType ==
  ASSUME TypePc, NEW x \in Actors, NEW w \in PcSet, Goto(x, w), lock' \in Reqs \cup {None}
  PROVE  TypePc' /\ pc' = [pc EXCEPT ![x] = w]
BY DEF TypePc, Goto

\* A watcher that is not about to store has nothing to answer for.
LEMMA StoredKept ==
  ASSUME Stored, pc'[Watcher] = "store" => pc[Watcher] = "store" /\ root'[Watcher] = root[Watcher]
  PROVE  Stored'
BY DEF Stored

\* Init is typed and valid.
LEMMA InitType == Init => IType
<1> SUFFICES ASSUME Init PROVE IType OBVIOUS
<1> USE ConfigStoreAssumption, NoLocals
<1>1. TypeFile /\ TypeCount
  <2>1. TypeFile BY DEF Init, TypeFile
  <2>2. TypeCount BY DEF Init, TypeCount
  <2> QED BY <2>1, <2>2
<1>2. TypeMem /\ SnapshotValid
  BY ExpandDoc, ExpandValid DEF Init, TypeMem, SnapshotValid
<1>3. TypePc BY DEF Init, TypePc, PcSet, Actors
<1>4. want \in [Reqs -> Wants] /\ root \in [Actors -> Doc \cup {Broken}]
      /\ arg \in [Actors -> List] /\ db \in [Actors -> Rows]
  BY DEF Init
<1>5. target \in [Reqs -> [name : Names, backed : BOOLEAN]]
  <2> DEFINE T == [name : Names, backed : BOOLEAN]
  <2>1. target = [x \in Reqs |-> NoTarget] /\ NoTarget \in T BY DEF Init
  <2> HIDE DEF T
  <2>2. target \in [Reqs -> T] BY <2>1
  <2> QED BY <2>2 DEF T
<1>6. TypeHist BY DEF Init, TypeHist
<1>7. Stored BY DEF Init, Stored, Actors
<1> QED BY <1>1, <1>2, <1>3, <1>4, <1>5, <1>6, <1>7 DEF IType, TypeLocal

\* Begun and Cut keep the histories typed.
LEMMA HistType ==
  ASSUME TypeHist, NEW x \in Actors, overtaken' \subseteq Reqs, unseen' \in BOOLEAN,
         \/ Begun(x) /\ exact' = exact
         \/ Cut(x)
         \/ alone' = alone /\ exact' = exact
         \/ alone' = alone \ {x} /\ exact' = (x \in alone)
  PROVE  TypeHist'
<1>1. alone' \subseteq Actors BY DEF TypeHist, Begun, Cut
<1>2. exact' \in BOOLEAN
  <2>1. exact \in BOOLEAN BY DEF TypeHist
  <2>2. CASE exact' = exact BY <2>1, <2>2
  <2>3. CASE exact' = (x \in alone) BY <2>3
  <2>4. CASE Cut(x) BY <2>4 DEF Cut
  <2> QED BY <2>2, <2>3, <2>4
<1> QED BY <1>1, <1>2 DEF TypeHist

\* Every step keeps the state typed and the snapshot valid.
LEMMA NextType == IType /\ [Next]_vars => IType'
<1> SUFFICES ASSUME IType, [Next]_vars PROVE IType' OBVIOUS
<1> USE DEF IType
<1>0. TypeOK /\ Watcher \in Actors /\ Watcher \notin Reqs /\ \A x \in Reqs : x \in Actors /\ x # Watcher
  BY Parts, ConfigStoreAssumption DEF Actors
<1>a. ASSUME NEW x \in Reqs, NEW r \in Rows, rows' = r, pc[x] \in {"idle", "drop"}, Goto(x, "load"),
             Begun(x), UNCHANGED <<fileVars, memVars, lock, locals, edits, faults, overtaken, unseen, exact>>
      PROVE  IType'
  <2>1. TypePc' /\ pc' = [pc EXCEPT ![x] = "load"]
    BY <1>0, <1>a, GotoType DEF PcSet, TypePc
  <2>2. TypeLocal' BY <1>a DEF TypeLocal, locals
  <2>3. TypeHist' BY <1>a, <1>0, HistType DEF TypeHist
  <2>4. Stored' BY <1>a, <2>1, <1>0, StoredKept DEF TypePc, locals
  <2>5. TypeFile' /\ TypeMem' /\ TypeCount' /\ SnapshotValid'
    BY <1>a DEF TypeFile, TypeMem, TypeCount, SnapshotValid, fileVars, memVars
  <2> QED BY <2>1, <2>2, <2>3, <2>4, <2>5
<1>1. ASSUME NEW x \in Reqs, NEW n \in Names, NEW c \in Kinds, PutAgent(x, n, c) PROVE IType'
  <2>1. PutActive(rows, n, c) \in Rows BY DEF PutActive, TypeMem, Rows
  <2> QED BY <1>1, <1>a, <2>1 DEF PutAgent, Idle
<1>2. ASSUME NEW x \in Reqs, NEW n \in Names, ResetAgent(x, n) PROVE IType'
  <2>1. Delete(rows, n) \in Rows BY DEF Delete, TypeMem, Rows
  <2> QED BY <1>2, <1>a, <2>1 DEF ResetAgent, Idle
<1>3. ASSUME NEW x \in Reqs, RemoveWrite(x) PROVE IType'
  <2>1. target[x].name \in Names BY DEF TypeLocal
  <2>2. PutTombstone(rows, target[x].name) \in Rows /\ Delete(rows, target[x].name) \in Rows
    BY <2>1 DEF PutTombstone, Delete, TypeMem, Rows
  <2>3. rows' \in Rows BY <1>3, <2>2 DEF RemoveWrite
  <2> QED BY <1>3, <1>a, <2>3 DEF RemoveWrite
<1>b. ASSUME NEW x \in Actors, NEW w \in PcSet \ {"store"}, Goto(x, w), TypeLocal',
             x = Watcher \/ root'[Watcher] = root[Watcher], lock' \in Reqs \cup {None},
             UNCHANGED <<fileVars, memVars, rows, edits, faults, history>>
      PROVE  IType'
  <2>1. TypePc' /\ pc' = [pc EXCEPT ![x] = w] BY <1>b, GotoType
  <2>3. TypeHist' BY <1>b DEF TypeHist, history
  <2>4. Stored' BY <1>b, <2>1, <1>0, StoredKept DEF TypePc
  <2>5. TypeFile' /\ TypeMem' /\ TypeCount' /\ SnapshotValid'
    BY <1>b DEF TypeFile, TypeMem, TypeCount, SnapshotValid, fileVars, memVars
  <2> QED BY <2>1, <1>b, <2>3, <2>4, <2>5
<1>4. ASSUME NEW x \in Reqs, NEW n \in Names, RemoveAgent(x, n) PROVE IType'
  <2> DEFINE T == [name : Names, backed : BOOLEAN]
             t == [name |-> n, backed |-> yaml[n] # None]
  <2>1. target \in [Reqs -> T] /\ t \in T /\ target' = [target EXCEPT ![x] = t]
    BY <1>4 DEF TypeLocal, RemoveAgent
  <2>2. UNCHANGED <<want, root, arg, db>> BY <1>4 DEF RemoveAgent
  <2> HIDE DEF T, t
  <2>3. target' \in [Reqs -> T] BY <2>1
  <2>4. TypeLocal' BY <2>2, <2>3 DEF TypeLocal, T
  <2>5. /\ Goto(x, "exists") /\ lock' = lock
        /\ UNCHANGED <<fileVars, memVars, rows, edits, faults, history>>
    BY <1>4 DEF RemoveAgent
  <2> QED BY <2>2, <2>4, <2>5, <1>b, <1>0 DEF PcSet, TypePc
<1>5. ASSUME NEW x \in Reqs, RemoveLookup(x) PROVE IType'
  <2>1. TypeLocal' /\ root' = root BY <1>5 DEF RemoveLookup, TypeLocal, locals
  <2> QED BY <1>5, <2>1, <1>b, <1>0 DEF RemoveLookup, PcSet, TypePc
<1>6. ASSUME NEW x \in Reqs, LoadYaml(x) PROVE IType'
  <2>1. TypeLocal' /\ root' = root BY <1>6, <1>0 DEF LoadYaml, TypeLocal, TypeMem
  <2> QED BY <1>6, <2>1, <1>b, <1>0 DEF LoadYaml, PcSet, TypePc
<1>7. ASSUME NEW x \in Actors, ListRows(x) PROVE IType'
  <2>1. TypeLocal' /\ root' = root BY <1>7 DEF ListRows, TypeLocal, TypeMem
  <2> QED BY <1>7, <2>1, <1>b DEF ListRows, PcSet, TypePc
<1>8. ASSUME NEW x \in Reqs, NEW v \in Wants, NEW s \in {"providers", "misc", "all"},
             NEW u, v = [sec |-> s, val |-> u], Ask(x, s, u)
      PROVE  IType'
  <2>1. TypeLocal' /\ root' = root BY <1>8 DEF Ask, TypeLocal
  <2> QED BY <1>8, <2>1, <1>b, <1>0 DEF Ask, PcSet, TypePc
<1>9. ASSUME NEW x \in Reqs, NEW k \in Kinds, NEW v \in Key,
             Ask(x, "providers", [snapshot.providers EXCEPT ![k] = v])
      PROVE  IType'
  <2> DEFINE u == [snapshot.providers EXCEPT ![k] = v]
  <2>1. u \in [Kinds -> Key] BY DEF TypeMem, Doc, Key
  <2>2. [sec |-> "providers", val |-> u] \in Wants BY <2>1 DEF Wants
  <2> QED BY <1>9, <1>8, <2>2
<1>10. ASSUME NEW x \in Reqs, Start(x) PROVE IType'
  <2>1. ASSUME NEW k \in Kinds, NEW v \in Key, CreateEntry(x, k, v) \/ UpdateEntry(x, k, v)
        PROVE  IType'
    BY <2>1, <1>9 DEF CreateEntry, UpdateEntry
  <2>2. ASSUME NEW k \in Kinds, RemoveEntry(x, k) PROVE IType' BY <2>2, <1>9 DEF RemoveEntry, Key
  <2>3. ASSUME NEW v \in Values, PutSection(x, v) PROVE IType'
    <3>1. [sec |-> "misc", val |-> v] \in Wants BY DEF Wants
    <3> QED BY <2>3, <3>1, <1>8 DEF PutSection
  <2>4. ASSUME NEW d \in Bodies, PutConfig(x, d) PROVE IType'
    <3>1. [sec |-> "all", val |-> d] \in Wants BY DEF Wants
    <3> QED BY <2>4, <3>1, <1>8 DEF PutConfig
  <2>5. Edited \subseteq Names /\ Keys \subseteq Key BY ConfigStoreAssumption
  <2> QED BY <1>10, <1>1, <1>2, <1>4, <2>1, <2>2, <2>3, <2>4, <2>5 DEF Start
<1>11. ASSUME NEW x \in Reqs, Acquire(x) PROVE IType'
  <2>1. TypeLocal' /\ root'[Watcher] = root[Watcher]
    BY <1>11, <1>0 DEF Acquire, TypeLocal, TypeFile
  <2> QED BY <1>11, <2>1, <1>b, <1>0 DEF Acquire, PcSet
<1>12. ASSUME NEW x \in Reqs, Commit(x) PROVE IType'
  <2>1. Result(x) \in Doc /\ Valid(Result(x)) BY <1>12, <1>0, ResultType DEF Commit, Savable
  <2>2. TypeFile' /\ TypeMem' /\ SnapshotValid' /\ TypeCount'
    BY <1>12, <2>1 DEF Commit, TypeFile, TypeMem, TypeCount, SnapshotValid, Doc
  <2>3. TypeLocal'
    <3>1. Result(x).agents \in List BY <2>1 DEF Doc
    <3> QED BY <1>12, <3>1, <1>0 DEF Commit, TypeLocal
  <2>4. TypePc' /\ pc' = [pc EXCEPT ![x] = "list"]
    BY <1>12, <1>0, GotoType DEF Commit, PcSet, TypePc
  <2>5. TypeHist' BY <1>12, <1>0, HistType DEF Commit, TypeHist
  <2>6. Stored' BY <1>12, <2>4, <1>0, StoredKept DEF Commit, TypePc
  <2> QED BY <2>2, <2>3, <2>4, <2>5, <2>6
<1>c. ASSUME NEW x \in Actors, Leave(x), TypeMem', snapshot' = snapshot, TypeHist', TypeCount',
             UNCHANGED <<fileVars>>
      PROVE  IType'
  <2>1. TypePc' /\ TypeLocal' /\ pc' = [pc EXCEPT ![x] = Over(x)]
        /\ root' = [root EXCEPT ![x] = Boot]
    BY <1>c, LeaveType
  <2>2. Stored' BY <2>1, <1>0, StoredKept DEF TypePc, TypeLocal, Over
  <2>3. TypeFile' /\ SnapshotValid' BY <1>c DEF TypeFile, SnapshotValid, fileVars
  <2> QED BY <1>c, <2>1, <2>2, <2>3
<1>13. ASSUME NEW x \in Reqs, RemoveUnknown(x) \/ Rejected(x) PROVE IType'
  <2>1. Leave(x) /\ UNCHANGED <<fileVars, memVars, rows, edits, faults, history>>
    BY <1>13 DEF RemoveUnknown, Rejected
  <2>2. TypeMem' /\ TypeHist' /\ TypeCount' /\ snapshot' = snapshot
    BY <2>1 DEF TypeMem, TypeHist, TypeCount, memVars, history
  <2> QED BY <2>1, <2>2, <1>c, <1>0
<1>14. ASSUME NEW x \in Actors, Publish(x) PROVE IType'
  <2>1. Merge(arg[x], db[x]) \in List BY MergeType DEF TypeLocal
  <2>2. TypeMem' /\ TypeCount' BY <1>14, <2>1 DEF Publish, TypeMem, TypeCount
  <2>3. TypeHist' BY <1>14, HistType DEF Publish, TypeHist
  <2> QED BY <1>14, <2>2, <2>3, <1>c DEF Publish
<1>15. ASSUME NEW x \in Reqs, WriteFails(x) PROVE IType'
  <2>1. TypeMem' /\ TypeHist' /\ TypeCount'
    BY <1>15, ConfigStoreAssumption DEF WriteFails, Fault, TypeMem, TypeHist, TypeCount, memVars, history
  <2> QED BY <1>15, <2>1, <1>c, <1>0 DEF WriteFails, memVars
<1>16. ASSUME NEW x \in Actors, ListFails(x) \/ Abandon(x) PROVE IType'
  <2>1. /\ Leave(x) /\ Fault /\ Cut(x)
        /\ UNCHANGED <<fileVars, memVars, rows, edits, overtaken, unseen>>
    BY <1>16 DEF ListFails, Abandon
  <2>2. TypeMem' /\ TypeCount'
    BY <2>1, ConfigStoreAssumption DEF Fault, TypeMem, TypeCount, memVars
  <2>3. TypeHist' BY <2>1, HistType DEF TypeHist
  <2> QED BY <2>1, <2>2, <2>3, <1>c DEF memVars
<1>17. CASE WatchTake
  <2>1. TypePc' /\ pc' = [pc EXCEPT ![Watcher] = "read"]
    BY <1>17, <1>0, GotoType DEF WatchTake, PcSet, TypePc
  <2>2. TypeLocal' /\ TypeHist' BY <1>17 DEF WatchTake, TypeLocal, TypeHist, locals, history
  <2>3. Stored' BY <2>1, <1>0, StoredKept DEF TypePc
  <2>4. TypeFile' /\ TypeMem' /\ TypeCount' /\ SnapshotValid'
    BY <1>17 DEF WatchTake, TypeFile, TypeMem, TypeCount, SnapshotValid, memVars
  <2> QED BY <2>1, <2>2, <2>3, <2>4
<1>18. CASE WatchRead
  <2> DEFINE w == IF Loads(file) THEN "store" ELSE "idle"
  <2>1. TypePc' /\ pc' = [pc EXCEPT ![Watcher] = w]
    <3>1. w \in PcSet /\ Goto(Watcher, w) /\ lock' = lock BY <1>18 DEF WatchRead, PcSet
    <3> HIDE DEF w
    <3> QED BY <3>1, <1>0, GotoType DEF TypePc
  <2>2. Loads(file) => Expand(file) \in Doc /\ Valid(Expand(file))
    BY ExpandDoc, ExpandValid DEF Loads, Savable, TypeFile
  <2>3. TypeLocal' BY <1>18, <2>2, <1>0 DEF WatchRead, TypeLocal
  <2>4. Stored' BY <1>18, <2>1, <2>2, <1>0 DEF WatchRead, Stored, TypePc, TypeLocal
  <2>5. TypeHist' BY <1>18 DEF WatchRead, TypeHist, history
  <2>6. TypeFile' /\ TypeMem' /\ TypeCount' /\ SnapshotValid'
    BY <1>18 DEF WatchRead, TypeFile, TypeMem, TypeCount, SnapshotValid, memVars, fileVars
  <2> QED BY <2>1, <2>3, <2>4, <2>5, <2>6
<1>19. CASE WatchStore
  <2>1. root[Watcher] \in Doc /\ Valid(root[Watcher]) BY <1>19 DEF WatchStore, Stored
  <2>2. TypeMem' /\ SnapshotValid' BY <1>19, <2>1 DEF WatchStore, TypeMem, SnapshotValid, Doc
  <2>3. root[Watcher].agents \in List BY <2>1 DEF Doc
  <2>4. TypeLocal' BY <1>19, <2>3, <1>0 DEF WatchStore, TypeLocal
  <2>5. TypePc' /\ pc' = [pc EXCEPT ![Watcher] = "list"]
    BY <1>19, <1>0, GotoType DEF WatchStore, PcSet, TypePc
  <2>6. TypeHist' BY <1>19, <1>0, HistType DEF WatchStore, TypeHist
  <2>7. Stored' BY <2>5, <1>0, StoredKept DEF TypePc
  <2>8. TypeFile' /\ TypeCount' BY <1>19 DEF WatchStore, TypeFile, TypeCount, fileVars
  <2> QED BY <2>2, <2>4, <2>5, <2>6, <2>7, <2>8
<1>20. CASE StartWatcher
  <2>1. TypeLocal' /\ root' = root BY <1>20 DEF StartWatcher, TypeLocal, locals
  <2> QED BY <1>20, <2>1, <1>b, <1>0 DEF StartWatcher, PcSet, TypePc
<1>21. ASSUME NEW d \in HandEdits, HandEdit(d) PROVE IType'
  <2>1. TypeFile' /\ TypeCount'
    BY <1>21, ConfigStoreAssumption DEF HandEdit, TypeFile, TypeCount
  <2>2. TypeMem' /\ SnapshotValid' BY <1>21 DEF HandEdit, TypeMem, SnapshotValid, memVars
  <2>3. TypePc' /\ TypeLocal' /\ Stored'
    BY <1>21 DEF HandEdit, TypePc, TypeLocal, Stored, procVars
  <2>4. TypeHist'
    <3>1. overtaken' \subseteq Reqs BY <1>21 DEF HandEdit, TypeHist
    <3>2. unseen' \in BOOLEAN /\ alone' = alone /\ exact' = exact BY <1>21 DEF HandEdit
    <3> QED BY <3>1, <3>2 DEF TypeHist
  <2> QED BY <2>1, <2>2, <2>3, <2>4
<1>22. CASE Restart
  <2>1. file \in Doc /\ Valid(file) BY <1>22 DEF Restart, Loads, Savable, TypeFile
  <2>2. TypeMem' /\ SnapshotValid'
    BY <1>22, <2>1, ExpandDoc, ExpandValid, MergeType DEF Restart, TypeMem, SnapshotValid, Doc
  <2>3. TypeFile' /\ TypeCount'
    <3>1. TypeFile' BY <1>22 DEF Restart, TypeFile
    <3>2. TypeCount' BY <1>22, ConfigStoreAssumption DEF Restart, Fault, TypeCount
    <3> QED BY <3>1, <3>2
  <2>4. TypePc' /\ pc'[Watcher] = "boot"
    BY <1>22, <1>0 DEF Restart, TypePc, PcSet
  <2>5. target' \in [Reqs -> [name : Names, backed : BOOLEAN]]
    <3> DEFINE T == [name : Names, backed : BOOLEAN]
    <3>1. target' = [x \in Reqs |-> NoTarget] /\ NoTarget \in T BY <1>22, NoLocals DEF Restart
    <3> HIDE DEF T
    <3>2. target' \in [Reqs -> T] BY <3>1
    <3> QED BY <3>2 DEF T
  <2>6. TypeLocal' BY <1>22, <2>5, NoLocals DEF Restart, TypeLocal
  <2>7. TypeHist' BY <1>22 DEF Restart, TypeHist
  <2>8. Stored' BY <2>4 DEF Stored
  <2> QED BY <2>2, <2>3, <2>4, <2>6, <2>7, <2>8
<1>23. CASE UNCHANGED vars
  <2>1. TypeFile' /\ TypeMem' /\ TypeCount' /\ SnapshotValid'
    BY <1>23 DEF vars, fileVars, memVars, TypeFile, TypeMem, TypeCount, SnapshotValid
  <2>2. TypePc' /\ TypeLocal' /\ Stored' BY <1>23 DEF vars, procVars, TypePc, TypeLocal, Stored
  <2>3. TypeHist' BY <1>23 DEF vars, history, TypeHist
  <2> QED BY <2>1, <2>2, <2>3
<1> HIDE DEF IType
<1> QED BY <1>0, <1>3, <1>5, <1>6, <1>7, <1>10, <1>11, <1>12, <1>13, <1>14, <1>15, <1>16, <1>17, <1>18,
           <1>19, <1>20, <1>21, <1>22, <1>23
        DEF Next, Work, Watch, Trouble, Finished

\* Every reachable state is well typed.
THEOREM TypeCorrect == Spec => []TypeOK
<1>1. Init => IType BY InitType
<1>2. IType /\ [Next]_vars => IType' BY NextType
<1>3. IType => TypeOK BY Parts
<1> QED BY <1>1, <1>2, <1>3, PTL DEF Spec

\* Nothing invalid ever reaches memory: validate_and_write and reload_from_disk
\* store a snapshot only after Config::validate accepted it.
THEOREM SnapshotsValid == Spec => []SnapshotValid
<1>1. Init => IType BY InitType
<1>2. IType /\ [Next]_vars => IType' BY NextType
<1>3. IType => SnapshotValid BY DEF IType
<1> QED BY <1>1, <1>2, <1>3, PTL DEF Spec
-----------------------------------------------------------------------------
\* A writer holds the lock, and its document is the file unless an editor
\* outside the process replaced it.
Locking ==
  \A x \in Reqs : pc[x] = "write" => lock = x /\ (x \in overtaken \/ root[x] = file)

\* The only way for a writer to go on to its rebuild is Commit.
LEMMA CommitStep ==
  ASSUME TypeOK, Next, NEW x \in Reqs, pc[x] = "write", pc'[x] = "list" PROVE Commit(x)
<1> USE DEF Actors, TypeOK
<1>0. Watcher \notin Reqs BY ConfigStoreAssumption
<1>1. ASSUME NEW y \in Reqs, Start(y) PROVE FALSE
  BY <1>1 DEF Start, PutAgent, ResetAgent, RemoveAgent, CreateEntry, UpdateEntry, RemoveEntry,
              PutSection, PutConfig, Ask, Goto, Idle
<1>2. ASSUME NEW y \in Reqs, Work(y) PROVE Commit(x)
  BY <1>0, <1>2 DEF Work, RemoveLookup, RemoveUnknown, RemoveWrite, LoadYaml, ListRows, Publish,
              Acquire, Commit, Rejected, Leave, Goto, Over
<1>3. ASSUME Watch PROVE FALSE
  BY <1>0, <1>3 DEF Watch, WatchTake, WatchRead, WatchStore, StartWatcher, ListRows, Publish, Leave,
                    Goto, Over
<1>4. ASSUME Trouble PROVE FALSE
  BY <1>0, <1>4 DEF Trouble, WriteFails, Abandon, ListFails, Restart, Leave, Goto, Over
<1>5. ASSUME NEW d \in HandEdits, HandEdit(d) PROVE FALSE BY <1>5 DEF HandEdit, procVars
<1>6. ASSUME Finished PROVE FALSE BY <1>6 DEF Finished
<1> QED BY <1>1, <1>2, <1>3, <1>4, <1>5, <1>6 DEF Next

\* write_lock excludes writers, whatever fails or is abandoned.
LEMMA NextLocking == IType /\ Locking /\ [Next]_vars => Locking'
<1> SUFFICES ASSUME IType, Locking, [Next]_vars, NEW x \in Reqs, pc'[x] = "write"
             PROVE  lock' = x /\ (x \in overtaken' \/ root'[x] = file')
  BY DEF Locking
<1>0. /\ TypeOK /\ Watcher \notin Reqs /\ None \notin Reqs /\ Reqs \subseteq Actors /\ Watcher \in Actors
      /\ pc \in [Actors -> PcSet] /\ root \in [Actors -> Doc \cup {Broken}]
      /\ \A y \in Reqs : pc[y] = "write" => lock = y /\ (y \in overtaken \/ root[y] = file)
  BY Parts, ConfigStoreAssumption DEF Actors, IType, TypePc, TypeLocal, Locking
<1>1. ASSUME NEW y \in Reqs, Start(y) PROVE lock' = x /\ (x \in overtaken' \/ root'[x] = file')
  BY <1>0, <1>1 DEF Start, PutAgent, ResetAgent, RemoveAgent, CreateEntry, UpdateEntry, RemoveEntry,
              PutSection, PutConfig, Ask, Goto, Idle, locals, fileVars, history
<1>2. ASSUME NEW y \in Reqs, Acquire(y) PROVE lock' = x /\ (x \in overtaken' \/ root'[x] = file')
  BY <1>0, <1>2 DEF Acquire, Goto, fileVars
<1>3. ASSUME NEW y \in Reqs, Commit(y) PROVE lock' = x /\ (x \in overtaken' \/ root'[x] = file')
  <2>1. pc[x] = "write" /\ x # y BY <1>0, <1>3 DEF Commit, Goto
  <2>2. pc[y] = "write" BY <1>3 DEF Commit
  <2> QED BY <2>1, <2>2, <1>0
<1>4. ASSUME NEW y \in Actors, Leave(y), overtaken' = overtaken, UNCHANGED fileVars
      PROVE  lock' = x /\ (x \in overtaken' \/ root'[x] = file')
  <2>1. x # y /\ pc[x] = "write" BY <1>0, <1>4 DEF Leave, Goto, Over
  <2>2. lock = x /\ (x \in overtaken \/ root[x] = file) BY <2>1, <1>0
  <2>3. lock' = x BY <1>4, <2>1, <2>2 DEF Leave, Release
  <2>4. root'[x] = root[x] BY <1>4, <2>1, <1>0 DEF Leave
  <2> QED BY <2>2, <2>3, <2>4, <1>4 DEF fileVars
<1>5. ASSUME NEW y \in Reqs, RemoveLookup(y) \/ RemoveWrite(y) \/ LoadYaml(y)
      PROVE  lock' = x /\ (x \in overtaken' \/ root'[x] = file')
  BY <1>0, <1>5 DEF RemoveLookup, RemoveWrite, LoadYaml, Goto, locals, fileVars, history
<1>6. ASSUME NEW y \in Actors, ListRows(y) PROVE lock' = x /\ (x \in overtaken' \/ root'[x] = file')
  BY <1>0, <1>6 DEF ListRows, Goto, fileVars, history
<1>7. ASSUME NEW y \in Actors, RemoveUnknown(y) \/ Publish(y) \/ Rejected(y) \/ WriteFails(y) \/ Abandon(y) \/ ListFails(y)
      PROVE  lock' = x /\ (x \in overtaken' \/ root'[x] = file')
  <2>1. Leave(y) /\ overtaken' = overtaken /\ UNCHANGED fileVars
    BY <1>7 DEF RemoveUnknown, Publish, Rejected, WriteFails, Abandon, ListFails, history
  <2> QED BY <2>1, <1>4
<1>8. ASSUME WatchTake \/ WatchRead \/ WatchStore \/ StartWatcher
      PROVE lock' = x /\ (x \in overtaken' \/ root'[x] = file')
  BY <1>0, <1>8 DEF WatchTake, WatchRead, WatchStore, StartWatcher, Goto, locals, fileVars, history
<1>9. ASSUME NEW d \in HandEdits, HandEdit(d) PROVE lock' = x /\ (x \in overtaken' \/ root'[x] = file')
  BY <1>0, <1>9 DEF HandEdit, procVars
<1>10. ASSUME Restart PROVE FALSE BY <1>0, <1>10 DEF Restart
<1>11. ASSUME UNCHANGED vars PROVE lock' = x /\ (x \in overtaken' \/ root'[x] = file')
  BY <1>0, <1>11 DEF vars, procVars, fileVars, history
<1> QED BY <1>0, <1>1, <1>2, <1>3, <1>5, <1>6, <1>7, <1>8, <1>9, <1>10, <1>11
        DEF Next, Work, Watch, Trouble, Finished

\* write_section never undoes another edit, whoever made it.
THEOREM SectionsAreKept == Spec => SectionsKept
<1>1. Init => IType /\ Locking
  BY InitType DEF Init, Locking, Actors
<1>2. IType /\ Locking /\ [Next]_vars => (IType /\ Locking)' BY NextType, NextLocking
<1>3. IType /\ Locking /\ [Next]_vars =>
      [\A x \in Reqs :
         pc[x] = "write" /\ pc'[x] = "list" /\ want[x].sec # "all" /\ x \notin overtaken
         => /\ file # Broken
            /\ file'.agents = file.agents
            /\ want[x].sec = "misc" => file'.providers = file.providers
            /\ want[x].sec = "providers" => file'.misc = file.misc]_vars
  <2> SUFFICES ASSUME IType, Locking, Next, NEW x \in Reqs, pc[x] = "write", pc'[x] = "list",
                      want[x].sec # "all", x \notin overtaken
               PROVE  /\ file # Broken
                      /\ file'.agents = file.agents
                      /\ want[x].sec = "misc" => file'.providers = file.providers
                      /\ want[x].sec = "providers" => file'.misc = file.misc
    OBVIOUS
  <2>1. Commit(x) /\ TypeOK BY CommitStep, Parts
  <2>2. root[x] = file BY DEF Locking
  <2>3. file' = Result(x) /\ Result(x) # Broken BY <2>1 DEF Commit, Savable
  <2>4. file \in Doc BY <2>1, <2>2, <2>3 DEF Result, TypeOK
  <2>5. file # Broken BY <2>4, ConfigStoreAssumption
  <2>6. want[x] \in Wants BY <2>1 DEF TypeOK
  <2>7. CASE want[x].sec = "misc" BY <2>2, <2>3, <2>4, <2>5, <2>7 DEF Result, Doc
  <2>8. CASE want[x].sec = "providers" BY <2>2, <2>3, <2>4, <2>5, <2>8 DEF Result, Doc
  <2> QED BY <2>5, <2>6, <2>7, <2>8 DEF Wants
<1> QED BY <1>1, <1>2, <1>3, PTL DEF Spec, SectionsKept
-----------------------------------------------------------------------------
\* A rebuild that met no other is the only one, and what it holds is current.
Alone ==
  \A x \in alone :
    /\ Rebuilding(x) /\ \A y \in Actors : Rebuilding(y) => y = x
    /\ pc[x] \in {"list", "publish"} => arg[x] = yaml
    /\ pc[x] = "publish" => db[x] = rows

Current == Alone /\ LiveIsMerge

\* A step that touches neither the lists nor the rebuilds under way.
LEMMA Aside ==
  ASSUME IType, Current, UNCHANGED <<yaml, rows, live, alone, exact>>,
         \A y \in Actors : Rebuilding(y) => pc'[y] = pc[y] /\ arg'[y] = arg[y] /\ db'[y] = db[y],
         \A y \in Actors : Rebuilding(y)' => Rebuilding(y)
  PROVE  Current'
<1>1. alone \subseteq Actors BY DEF IType, TypeHist
<1>2. Alone' BY <1>1 DEF Current, Alone, Rebuilding
<1>3. LiveIsMerge' BY DEF Current, LiveIsMerge, Rebuilding
<1> QED BY <1>2, <1>3 DEF Current

\* A rebuild starts.
LEMMA Starts ==
  ASSUME IType, Current, NEW x \in Actors, Begun(x), ~Rebuilding(x), live' = live, exact' = exact,
         NEW w \in {"load", "list"}, pc' = [pc EXCEPT ![x] = w],
         w = "list" => arg'[x] = yaml'
  PROVE  Current'
<1>1. pc \in [Actors -> PcSet] BY DEF IType, TypePc
<1>2. pc'[x] = w /\ \A y \in Actors \ {x} : pc'[y] = pc[y] BY <1>1
<1>3. Rebuilding(x)' BY <1>2 DEF Rebuilding
<1>4. Alone'
  <2>1. CASE \E y \in Actors : Rebuilding(y) BY <2>1 DEF Begun, Alone
  <2>2. CASE ~\E y \in Actors : Rebuilding(y)
    <3>1. alone' = {x} BY <2>2 DEF Begun
    <3>2. \A y \in Actors : Rebuilding(y)' => y = x BY <1>2, <2>2 DEF Rebuilding
    <3> QED BY <1>2, <1>3, <3>1, <3>2 DEF Alone
  <2> QED BY <2>1, <2>2
<1>5. LiveIsMerge' BY <1>3 DEF LiveIsMerge
<1> QED BY <1>4, <1>5 DEF Current

\* A handler ends without publishing.
LEMMA Ends ==
  ASSUME IType, Current, NEW x \in Actors, Leave(x), Cut(x), UNCHANGED <<yaml, rows, live>>
  PROVE  Current'
<1>1. pc \in [Actors -> PcSet] /\ arg \in [Actors -> List] /\ db \in [Actors -> Rows] /\ alone \subseteq Actors
  BY DEF IType, TypePc, TypeLocal, TypeHist
<1>2. \A y \in Actors \ {x} : pc'[y] = pc[y] /\ arg'[y] = arg[y] /\ db'[y] = db[y]
  BY <1>1 DEF Leave, Goto
<1>3. ~Rebuilding(x)' BY <1>1 DEF Leave, Goto, Over, Rebuilding
<1>4. CASE Rebuilding(x)
  <2>1. alone' = {} /\ ~exact' BY <1>4 DEF Cut
  <2> QED BY <2>1 DEF Current, Alone, LiveIsMerge
<1>5. CASE ~Rebuilding(x)
  <2>1. alone' = alone /\ exact' = exact
    <3>1. alone' = alone BY <1>5 DEF Cut
    <3>2. exact' = exact BY <1>5 DEF Cut, IType, TypeHist
    <3> QED BY <3>1, <3>2
  <2>2. \A y \in Actors : Rebuilding(y) => y # x BY <1>5
  <2> QED BY <1>2, <1>3, <2>1, <2>2, Aside DEF Rebuilding
<1> QED BY <1>4, <1>5

\* Every step keeps a lone rebuild current.
LEMMA NextCurrent == IType /\ Current /\ [Next]_vars => Current'
<1> SUFFICES ASSUME IType, Current, [Next]_vars PROVE Current' OBVIOUS
<1>0. /\ Watcher \notin Reqs /\ Reqs \subseteq Actors /\ Watcher \in Actors
      /\ pc \in [Actors -> PcSet] /\ arg \in [Actors -> List] /\ db \in [Actors -> Rows]
      /\ alone \subseteq Actors
  BY ConfigStoreAssumption DEF Actors, IType, TypePc, TypeLocal, TypeHist
<1>1. ASSUME NEW x \in Reqs, NEW n \in Names, NEW c \in Kinds, PutAgent(x, n, c) PROVE Current'
  BY <1>0, <1>1, Starts DEF PutAgent, Idle, Goto, Rebuilding, memVars
<1>2. ASSUME NEW x \in Reqs, NEW n \in Names, ResetAgent(x, n) PROVE Current'
  BY <1>0, <1>2, Starts DEF ResetAgent, Idle, Goto, Rebuilding, memVars
<1>3. ASSUME NEW x \in Reqs, RemoveWrite(x) PROVE Current'
  BY <1>0, <1>3, Starts DEF RemoveWrite, Goto, Rebuilding, memVars
<1>4. ASSUME NEW x \in Reqs, Commit(x) PROVE Current'
  BY <1>0, <1>4, Starts DEF Commit, Goto, Rebuilding
<1>5. ASSUME WatchStore PROVE Current'
  BY <1>0, <1>5, Starts DEF WatchStore, Goto, Rebuilding
<1>6. ASSUME NEW x \in Reqs, NEW n \in Names, RemoveAgent(x, n) PROVE Current'
  BY <1>0, <1>6, Aside DEF RemoveAgent, Idle, Goto, Rebuilding, memVars, history
<1>7. ASSUME NEW x \in Reqs, NEW s, NEW u, Idle(x), Ask(x, s, u) PROVE Current'
  BY <1>0, <1>7, Aside DEF Ask, Idle, Goto, Rebuilding, memVars, history
<1>8. ASSUME NEW x \in Reqs, RemoveLookup(x) PROVE Current'
  BY <1>0, <1>8, Aside DEF RemoveLookup, Goto, Rebuilding, memVars, history, locals
<1>9. ASSUME NEW x \in Reqs, Acquire(x) PROVE Current'
  BY <1>0, <1>9, Aside DEF Acquire, Goto, Rebuilding, memVars, history
<1>10. ASSUME WatchTake \/ WatchRead \/ StartWatcher PROVE Current'
  <2>1. /\ UNCHANGED <<yaml, rows, live, alone, exact, arg, db>> /\ ~Rebuilding(Watcher)
        /\ \E w \in {"read", "store", "idle"} : pc' = [pc EXCEPT ![Watcher] = w]
    BY <1>10 DEF WatchTake, WatchRead, StartWatcher, Goto, Rebuilding, memVars, history, locals
  <2> QED BY <1>0, <2>1, Aside DEF Rebuilding
<1>11. ASSUME NEW d \in HandEdits, HandEdit(d) PROVE Current'
  BY <1>11, Aside DEF HandEdit, memVars, procVars, Rebuilding
<1>12. ASSUME NEW x \in Reqs, LoadYaml(x) PROVE Current'
  <2>1. /\ UNCHANGED <<yaml, rows, live, alone, exact, db>> /\ Rebuilding(x) /\ Rebuilding(x)'
        /\ pc'[x] = "list" /\ arg'[x] = yaml
        /\ \A y \in Actors \ {x} : pc'[y] = pc[y] /\ arg'[y] = arg[y]
    BY <1>0, <1>12 DEF LoadYaml, Goto, Rebuilding, memVars, history
  <2>2. Alone' BY <1>0, <2>1 DEF Current, Alone, Rebuilding
  <2>3. LiveIsMerge' BY <1>0, <2>1 DEF LiveIsMerge
  <2> QED BY <2>2, <2>3 DEF Current
<1>13. ASSUME NEW x \in Actors, ListRows(x) PROVE Current'
  <2>1. /\ UNCHANGED <<yaml, rows, live, alone, exact, arg>> /\ Rebuilding(x) /\ Rebuilding(x)'
        /\ pc[x] = "list" /\ pc'[x] = "publish" /\ db'[x] = rows
        /\ \A y \in Actors \ {x} : pc'[y] = pc[y] /\ db'[y] = db[y]
    BY <1>0, <1>13 DEF ListRows, Goto, Rebuilding, memVars, history
  <2>2. Alone' BY <1>0, <2>1 DEF Current, Alone, Rebuilding
  <2>3. LiveIsMerge' BY <1>0, <2>1 DEF LiveIsMerge
  <2> QED BY <2>2, <2>3 DEF Current
<1>14. ASSUME NEW x \in Actors, Publish(x) PROVE Current'
  <2>1. /\ pc[x] = "publish" /\ ~Rebuilding(x)' /\ UNCHANGED <<yaml, rows>> /\ live' = Merge(arg[x], db[x])
        /\ exact' = (x \in alone) /\ alone' = alone \ {x}
        /\ \A y \in Actors \ {x} : pc'[y] = pc[y] /\ arg'[y] = arg[y] /\ db'[y] = db[y]
    BY <1>0, <1>14 DEF Publish, Leave, Goto, Over, Rebuilding
  <2>2. Rebuilding(x) BY <2>1 DEF Rebuilding
  <2>3. alone' = {}
    BY <1>0, <2>1, <2>2 DEF Current, Alone
  <2>4. Alone' BY <2>3 DEF Alone
  <2>5. x \in alone => arg[x] = yaml /\ db[x] = rows BY <2>1 DEF Current, Alone
  <2>6. LiveIsMerge' BY <2>1, <2>5 DEF LiveIsMerge
  <2> QED BY <2>4, <2>6 DEF Current
<1>15. ASSUME NEW x \in Actors, ListFails(x) \/ Abandon(x) PROVE Current'
  BY <1>15, Ends DEF ListFails, Abandon, memVars
<1>16. ASSUME NEW x \in Reqs, RemoveUnknown(x) \/ Rejected(x) \/ WriteFails(x) PROVE Current'
  <2>1. Leave(x) /\ UNCHANGED <<yaml, rows, live, alone, exact>> /\ pc[x] \in {"exists", "write"}
    BY <1>16 DEF RemoveUnknown, Rejected, WriteFails, memVars, history
  <2>2. Cut(x) BY <2>1 DEF Cut, Rebuilding, IType, TypeHist
  <2> QED BY <1>0, <2>1, <2>2, Ends
<1>17. ASSUME Restart PROVE Current'
  <2>1. alone' = {} /\ yaml' = file.agents /\ rows' = rows /\ live' = Merge(file.agents, rows)
    BY <1>17 DEF Restart
  <2> QED BY <2>1 DEF Current, Alone, LiveIsMerge
<1>18. ASSUME UNCHANGED vars PROVE Current'
  BY <1>18, Aside DEF vars, memVars, procVars, history, Rebuilding
<1>19. ASSUME NEW x \in Reqs, Start(x) PROVE Current'
  BY <1>19, <1>1, <1>2, <1>6, <1>7, ConfigStoreAssumption
     DEF Start, CreateEntry, UpdateEntry, RemoveEntry, PutSection, PutConfig
<1> QED BY <1>0, <1>3, <1>4, <1>5, <1>8, <1>9, <1>10, <1>11, <1>12, <1>13, <1>14, <1>15, <1>16, <1>17,
           <1>18, <1>19
        DEF Next, Work, Watch, Trouble, Finished

\* With no row, the merged list is the YAML list.
LEMMA InitCurrent == Init => Current
<1> SUFFICES ASSUME Init PROVE Current OBVIOUS
<1>1. Boot.agents \in List BY NoLocals
<1>2. Merge(Boot.agents, NoRows) = Boot.agents BY <1>1 DEF Merge, NoRows, List
<1>3. live = Merge(yaml, rows) BY <1>2 DEF Init
<1>4. alone = {} BY DEF Init
<1> QED BY <1>3, <1>4 DEF Current, Alone, LiveIsMerge

\* What a lone rebuild leaves behind is the overlay of what is in force.
THEOREM LiveIsOverlay == Spec => []LiveIsMerge
<1>1. Init => IType /\ Current BY InitType, InitCurrent
<1>2. IType /\ Current /\ [Next]_vars => (IType /\ Current)' BY NextType, NextCurrent
<1>3. Current => LiveIsMerge BY DEF Current
<1> QED BY <1>1, <1>2, <1>3, PTL DEF Spec

\* admin_view and merge agree on what runs, name by name.
LEMMA ViewIsMerge ==
  ASSUME NEW y \in List, NEW r \in Rows
  PROVE  {<<q.name, q.config>> : q \in {p \in AdminView(y, r) : p.config # None}}
           = {<<n, Merge(y, r)[n]>> : n \in {m \in Names : Merge(y, r)[m] # None}}
<1> DEFINE V == {p \in AdminView(y, r) : p.config # None}
           W == {m \in Names : Merge(y, r)[m] # None}
<1>1. \A q \in V : q.name \in W /\ q.config = Merge(y, r)[q.name]
  BY OverlayAssumption DEF AdminView, Merge, List, Rows
<1>2. ASSUME NEW n \in W PROVE \E q \in V : q.name = n /\ q.config = Merge(y, r)[n]
  <2>1. CASE r[n] = None
    <3> DEFINE q == [name |-> n, config |-> y[n], source |-> "yaml", yamlBacked |-> TRUE]
    <3>1. y[n] # None /\ Merge(y, r)[n] = y[n] BY <2>1 DEF Merge
    <3>2. q \in AdminView(y, r) BY <2>1, <3>1 DEF AdminView
    <3> QED BY <3>1, <3>2
  <2>2. CASE r[n] # None
    <3> DEFINE q == [name |-> n, config |-> r[n], yamlBacked |-> y[n] # None,
                     source |-> IF y[n] # None THEN "override" ELSE "dynamic"]
    <3>1. r[n] \in Kinds /\ r[n] # None /\ Merge(y, r)[n] = r[n] BY <2>2, OverlayAssumption DEF Merge, Rows
    <3>2. q \in AdminView(y, r) BY <3>1 DEF AdminView
    <3> QED BY <3>1, <3>2
  <2> QED BY <2>1, <2>2
<1> HIDE DEF V, W
<1>3. {<<q.name, q.config>> : q \in V} = {<<n, Merge(y, r)[n]>> : n \in W} BY <1>1, <1>2
<1> QED BY <1>3 DEF V, W

\* The studio's list page shows what the server runs.
THEOREM StudioIsTruthful == Spec => []StudioShowsLive
<1>1. IType /\ Current => StudioShowsLive
  <2> SUFFICES ASSUME IType, Current, exact, \A x \in Actors : ~Rebuilding(x)
               PROVE  {<<r.name, r.config>> : r \in {q \in AdminView(yaml, rows) : q.config # None}}
                        = {<<n, live[n]>> : n \in {m \in Names : live[m] # None}}
    BY DEF StudioShowsLive
  <2>1. live = Merge(yaml, rows) BY DEF Current, LiveIsMerge
  <2>2. yaml \in List /\ rows \in Rows BY DEF IType, TypeMem
  <2> QED BY <2>1, <2>2, ViewIsMerge
<1>2. Init => IType /\ Current BY InitType, InitCurrent
<1>3. IType /\ Current /\ [Next]_vars => (IType /\ Current)' BY NextType, NextCurrent
<1> QED BY <1>1, <1>2, <1>3, PTL DEF Spec

\* Memory is valid, the running list is the overlay and the studio shows it.
THEOREM ServedIsConfigured == Spec => []ServedAsConfigured
BY SnapshotsValid, LiveIsOverlay, StudioIsTruthful, PTL DEF ServedAsConfigured
=============================================================================
