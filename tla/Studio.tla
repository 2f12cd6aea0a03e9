------------------------------- MODULE Studio -------------------------------
(***************************************************************************)
(* The four lists that the studio edits in the database (crates/agents,    *)
(* judges, experiments, smoke) and what depends on more than one of them:  *)
(* a reload of coulisse.yaml rebuilds them one after another (cli/src/     *)
(* commands/serve.rs), configurations of one name entries of another, and  *)
(* the judges and the router of a process come from the lists at its boot. *)
(*                                                                         *)
(* The four crates have the same handlers and queries; ConfigStore models  *)
(* those of agents next to the file they overlay, this module takes one    *)
(* copy from each of the others.                                           *)
(***************************************************************************)
EXTENDS Overlay, Naturals

CONSTANTS
  Editors,      \* tasks that change the lists: studio requests and reloads
  Files,        \* coulisse.yaml as it may be loaded: a list for each section
  Puts,         \* what the studio may be asked to store
  Asked,        \* the entries it may be asked to reset or remove
  Refers,       \* the entries a configuration names
  Unbuildable,  \* judges without rubrics, or with a rate outside [0, 1]
  MaxOps,       \* bound: requests and reloads
  MaxUpsets     \* bound: failed queries, disconnects, restarts

\* In the order in which a reload rebuilds them.
Order == <<"agents", "judges", "experiments", "smoke">>
Lists == {"agents", "judges", "experiments", "smoke"}
Place(l) == CHOOSE i \in 1..4 : Order[i] = l

\* The entries of d with a name that no entry of d has.
Dangling(d) ==
  {link \in (Lists \X Names) \X (Lists \X Names) :
     LET e == link[1]  r == link[2]
     IN  /\ d[e[1]][e[2]] # None /\ r \in Refers[d[e[1]][e[2]]]
         /\ d[r[1]][r[2]] = None}

\* Judge::from_config accepts them all.
Builds(judges) == \A n \in Names : judges[n] \notin Unbuildable

\* Config::validate, as far as the four lists go.
Checked(d) == Dangling(d) = {} /\ Builds(d["judges"])

ASSUME StudioAssumption ==
  /\ None \notin Editors
  /\ Refers \in [Kinds -> SUBSET (Lists \X Names)] /\ Unbuildable \subseteq Kinds
  /\ Files # {} /\ Files \subseteq [Lists -> List] /\ \A f \in Files : Checked(f)
  /\ Puts \subseteq Lists \X Names \X Kinds /\ Asked \subseteq Lists \X Names
  /\ MaxOps \in Nat /\ MaxUpsets \in Nat

VARIABLES
  declared,   \* yaml_*: the lists as the file last loaded has them
  stored,     \* dynamic_*: the rows of each list
  served,     \* the effective lists
  scoring,    \* the judges built at boot
  routing,    \* the experiments the router was built from
  server,     \* "up", or "refused": the last boot failed
  editor,     \* what each task is at, and its locals
  ops, upsets,
  alone,      \* history: who has met no other rebuild of the list, None for nobody
  exact,      \* history: the last rebuild of the list ran alone and to its end
  hidden      \* history: entries of the file that were removed and not brought back

processVars == <<declared, served, scoring, routing, server>>
studioVars  == <<processVars, stored, editor, ops, upsets, alone, exact, hidden>>

Blank   == [l \in Lists |-> [n \in Names |-> None]]
Resting == [pc |-> "idle", reload |-> FALSE, list |-> "agents", name |-> None,
            backed |-> FALSE, doc |-> Blank, rows |-> Blank["agents"]]

\* The lists a task has changed, in the file or in the rows, and not yet rebuilt.
Busy(x) ==
  IF editor[x].pc \notin {"load", "list", "publish"} THEN {}
  ELSE IF editor[x].reload THEN {l \in Lists : Place(l) >= Place(editor[x].list)}
  ELSE {editor[x].list}

Settled(l) == exact[l] /\ \A x \in Editors : l \notin Busy(x)

Booted(f) ==
  LET lists == [l \in Lists |-> Merge(f[l], stored[l])]
      ok    == Builds(lists["judges"])
  IN  /\ declared' = f /\ served' = lists
      /\ server' = IF ok THEN "up" ELSE "refused"
      /\ scoring' = IF ok THEN lists["judges"] ELSE Blank["judges"]
      /\ routing' = IF ok THEN lists["experiments"] ELSE Blank["experiments"]

StudioInit ==
  /\ declared \in Files /\ stored = Blank /\ served = declared
  /\ scoring = declared["judges"] /\ routing = declared["experiments"] /\ server = "up"
  /\ editor = [x \in Editors |-> Resting]
  /\ ops = 0 /\ upsets = 0
  /\ alone = [l \in Lists |-> None] /\ exact = [l \in Lists |-> TRUE] /\ hidden = {}

Moves(x, new) == editor' = [editor EXCEPT ![x] = new]
At(x, pc)       == Moves(x, [editor[x] EXCEPT !.pc = pc])
Upset           == upsets < MaxUpsets /\ upsets' = upsets + 1
Starts(x) ==
  /\ server = "up" /\ editor[x].pc = "idle"
  /\ ops < MaxOps /\ ops' = ops + 1

Begun(x, lists) ==
  alone' = [l \in Lists |->
              IF l \notin lists THEN alone[l]
              ELSE IF \E y \in Editors : l \in Busy(y) THEN None ELSE x]

\* x is done with these lists; `done` if it published them.
Over(x, lists, done) ==
  /\ exact' = [l \in Lists |-> IF l \in lists THEN done /\ alone[l] = x ELSE exact[l]]
  /\ alone' = [l \in Lists |-> IF l \in lists THEN None ELSE alone[l]]
-----------------------------------------------------------------------------
(* Requests *)

Save(x, l, n, c) ==
  /\ Starts(x)
  /\ stored' = [stored EXCEPT ![l] = PutActive(@, n, c)]
  /\ hidden' = hidden \ {<<l, n>>}
  /\ Moves(x, [Resting EXCEPT !.pc = "load", !.list = l]) /\ Begun(x, {l})
  /\ UNCHANGED <<processVars, upsets, exact>>

\* create overwrites a row of the name; nobody validates what it stores.
Create(x, l, n, c) == Save(x, l, n, c)

\* update answers 400 unless the path and the body have the same name.
Update(x, path, l, n, c) == path = n /\ Save(x, l, n, c)

\* reset: 404 without a row.
Reset(x, l, n) ==
  /\ Starts(x) /\ stored[l][n] # None
  /\ stored' = [stored EXCEPT ![l] = Delete(@, n)]
  /\ hidden' = hidden \ {<<l, n>>}
  /\ Moves(x, [Resting EXCEPT !.pc = "load", !.list = l]) /\ Begun(x, {l})
  /\ UNCHANGED <<processVars, upsets, exact>>

\* remove looks at the file's list first, then at the rows.
RemoveNamed(x, l, n) ==
  /\ Starts(x)
  /\ Moves(x, [Resting EXCEPT !.pc = "look", !.list = l, !.name = n,
                                !.backed = (declared[l][n] # None)])
  /\ UNCHANGED <<processVars, stored, upsets, alone, exact, hidden>>

\* 404 when neither has the name.
Look(x) ==
  /\ editor[x].pc = "look"
  /\ IF editor[x].backed \/ stored[editor[x].list][editor[x].name] # None
     THEN At(x, "drop") ELSE Moves(x, Resting)
  /\ UNCHANGED <<processVars, stored, ops, upsets, alone, exact, hidden>>

\* A bug for the checks: the row is dropped whether or not the file has the name.
DropRow(x) ==
  LET l == editor[x].list  n == editor[x].name
  IN  /\ editor[x].pc = "drop"
      /\ stored' = [stored EXCEPT ![l] = Delete(@, n)]
      /\ hidden' = IF editor[x].backed THEN hidden \cup {<<l, n>>} ELSE hidden \ {<<l, n>>}
      /\ At(x, "load") /\ Begun(x, {l})
      /\ UNCHANGED <<processVars, ops, upsets, exact>>

\* A tombstone for an entry of the file, which every load brings back; the row
\* goes when the file had no such entry.
Drop(x) ==
  LET l == editor[x].list  n == editor[x].name
  IN  /\ editor[x].pc = "drop"
      /\ stored' = [stored EXCEPT ![l] = IF editor[x].backed THEN PutTombstone(@, n)
                                         ELSE Delete(@, n)]
      /\ hidden' = IF editor[x].backed THEN hidden \cup {<<l, n>>} ELSE hidden \ {<<l, n>>}
      /\ At(x, "load") /\ Begun(x, {l})
      /\ UNCHANGED <<processVars, ops, upsets, exact>>

\* rebuild takes the file's list when it starts.
Load(x) ==
  /\ editor[x].pc = "load"
  /\ Moves(x, [editor[x] EXCEPT !.pc = "list",
                   !.doc = [Blank EXCEPT ![editor[x].list] = declared[editor[x].list]]])
  /\ UNCHANGED <<processVars, stored, ops, upsets, alone, exact, hidden>>
-----------------------------------------------------------------------------
(* Rebuilds and reloads *)

\* ReloadHandles::apply: the four lists of the file are replaced at once.
Reload(x, f) ==
  /\ Starts(x)
  /\ declared' = f
  /\ Moves(x, [Resting EXCEPT !.pc = "list", !.reload = TRUE, !.doc = f])
  /\ Begun(x, Lists)
  /\ UNCHANGED <<stored, served, scoring, routing, server, upsets, exact, hidden>>

Read(x) ==
  /\ editor[x].pc = "list"
  /\ Moves(x, [editor[x] EXCEPT !.pc = "publish", !.rows = stored[editor[x].list]])
  /\ UNCHANGED <<processVars, stored, ops, upsets, alone, exact, hidden>>

\* A request is answered; a reload turns to the next list.
Onward(x) ==
  LET e == editor[x]
  IN  Moves(x, IF e.reload /\ Place(e.list) < 4
                 THEN [e EXCEPT !.pc = "list", !.list = Order[Place(e.list) + 1],
                                !.rows = Resting.rows]
                 ELSE Resting)

\* The merge of what was read, by now perhaps stale, replaces the list.
Publish(x) ==
  LET l == editor[x].list
  IN  /\ editor[x].pc = "publish"
      /\ served' = [served EXCEPT ![l] = Merge(editor[x].doc[l], editor[x].rows)]
      /\ Onward(x) /\ Over(x, {l}, TRUE)
      /\ UNCHANGED <<declared, scoring, routing, server, stored, ops, upsets, hidden>>

\* The rows cannot be read: the previous list stays, a reload goes on.
ReadFails(x) ==
  /\ editor[x].pc = "list" /\ Upset
  /\ Onward(x) /\ Over(x, {editor[x].list}, FALSE)
  /\ UNCHANGED <<processVars, stored, ops, hidden>>

\* The client goes away while its handler waits, a reload it asked for included.
Abandoned(x) ==
  /\ editor[x].pc # "idle" /\ Upset
  /\ Over(x, Busy(x), FALSE) /\ Moves(x, Resting)
  /\ UNCHANGED <<processVars, stored, ops, hidden>>

\* The process ends, also one that never came up, and the next one boots.
Reboot(f) ==
  /\ Upset
  /\ Booted(f)
  /\ editor' = [x \in Editors |-> Resting]
  /\ alone' = [l \in Lists |-> None] /\ exact' = [l \in Lists |-> TRUE]
  /\ UNCHANGED <<stored, ops, hidden>>

StudioNext ==
  \/ \E x \in Editors :
       \/ \E p \in Puts : \/ Create(x, p[1], p[2], p[3])
                          \/ \E path \in Names : Update(x, path, p[1], p[2], p[3])
       \/ \E e \in Asked : Reset(x, e[1], e[2]) \/ RemoveNamed(x, e[1], e[2])
       \/ \E f \in Files : Reload(x, f)
       \/ Look(x) \/ Drop(x) \/ Load(x) \/ Read(x) \/ Publish(x)
       \/ ReadFails(x) \/ Abandoned(x)
  \/ \E f \in Files : Reboot(f)

StudioSpec == StudioInit /\ [][StudioNext]_studioVars
-----------------------------------------------------------------------------
(* What the studio answers *)

Shown(l) == AdminView(declared[l], stored[l])

\* The JSON list, which leaves out tombstones.
Listing(l) == {<<r.name, r.config>> : r \in {q \in Shown(l) : q.config # None}}

\* The JSON page of a name, 404 also for one that is disabled.
Detail(l, n) ==
  IF \E r \in Shown(l) : r.name = n /\ r.config # None
  THEN (CHOOSE r \in Shown(l) : r.name = n).config ELSE 404

\* The edit form of a name: the configuration in it, 404 for a name no row has,
\* 400 for one that is disabled.
EditForm(l, n) ==
  IF \A r \in Shown(l) : r.name # n THEN 404
  ELSE IF \E r \in Shown(l) : r.name = n /\ r.config = None THEN 400
  ELSE (CHOOSE r \in Shown(l) : r.name = n).config
-----------------------------------------------------------------------------
(* Properties *)

\* "The UI is a thin representation of the API": once a list's last rebuild met
\* no other, its pages show what runs; what the JSON list has is served as such,
\* and a form opens for exactly what is served, whatever the file and the rows
\* went through.
PagesTruthful ==
  \A l \in Lists : Settled(l) =>
    /\ Listing(l) = {<<n, served[l][n]>> : n \in {m \in Names : served[l][m] # None}}
    /\ \A n \in Names :
         /\ Detail(l, n) = IF served[l][n] = None THEN 404 ELSE served[l][n]
         /\ EditForm(l, n) \in IF served[l][n] = None THEN {400, 404} ELSE {served[l][n]}

\* Config::validate looks at the file alone.  Once all four lists have settled,
\* a served entry that names a missing one was itself stored by the studio, or
\* the one it names was disabled there: no reload, however it meets requests
\* and other reloads, leaves lists of different files side by side.
ReferencesSound ==
  (\A l \in Lists : Settled(l)) =>
    \A d \in Dangling(served) :
      LET entry == d[1]  named == d[2]
      IN  \/ stored[entry[1]][entry[2]] \in Kinds
          \/ stored[named[1]][named[2]] = Tombstone

\* "The YAML entry is re-asserted on every load, so a physical delete would not
\* stick": an entry of the file that was removed stays away through reloads
\* and restarts until it is saved, reset, or removed by a request that had
\* looked before the file had it.
RemovedStayGone ==
  \A e \in hidden : Settled(e[1]) => served[e[1]][e[2]] = None

\* A judge that cannot be built never scores, though the studio stores it and
\* shows it; it is the next boot that refuses it, and a boot refuses nothing
\* else.
JudgesBuilt ==
  /\ Builds(scoring)
  /\ server = "refused" =>
       \E n \in Names : stored["judges"][n] \in Unbuildable /\ served["judges"][n] # None

\* What the studio shows is what runs, and edits leave nothing dangling or
\* undone that nobody asked for.
StudioSound == PagesTruthful /\ ReferencesSound /\ RemovedStayGone /\ JudgesBuilt
=============================================================================
