------------------------------ MODULE Overlay ------------------------------
(***************************************************************************)
(* How a YAML list and its database rows combine (the merge modules of the *)
(* agents, judges, experiments and smoke crates, which share this code):   *)
(* a row wins over the YAML entry of its name, a tombstone hides it.       *)
(* A list is a function from names to configurations or `None`.            *)
(***************************************************************************)
CONSTANTS
  Names,      \* names of list entries
  Kinds,      \* what an entry refers to: the provider it runs on
  None, Tombstone

ASSUME OverlayAssumption ==
  /\ None \notin Kinds /\ Tombstone \notin Kinds /\ None # Tombstone

List == [Names -> Kinds \cup {None}]
Rows == [Names -> Kinds \cup {None, Tombstone}]

\* A bug for the checks: a tombstone is overlooked.
MergeKeeps(yaml, rows) ==
  [n \in Names |-> IF rows[n] \in {None, Tombstone} THEN yaml[n] ELSE rows[n]]

\* merge: what the runtime uses.
Merge(yaml, rows) ==
  [n \in Names |-> IF rows[n] = None THEN yaml[n]
                   ELSE IF rows[n] = Tombstone THEN None ELSE rows[n]]

\* admin_view: the rows of the studio page, tombstones included.
AdminView(yaml, rows) ==
  {[name |-> n, config |-> yaml[n], source |-> "yaml", yamlBacked |-> TRUE] :
     n \in {m \in Names : yaml[m] # None /\ rows[m] = None}}
  \cup
  {[name |-> n, config |-> None, source |-> "tombstoned", yamlBacked |-> yaml[n] # None] :
     n \in {m \in Names : rows[m] = Tombstone}}
  \cup
  {[name |-> n, config |-> rows[n], yamlBacked |-> yaml[n] # None,
    source |-> IF yaml[n] # None THEN "override" ELSE "dynamic"] :
     n \in {m \in Names : rows[m] \in Kinds}}

\* put_active, put_tombstone and delete: one row per name, the last one wins.
PutActive(rows, n, c)  == [rows EXCEPT ![n] = c]
PutTombstone(rows, n)  == [rows EXCEPT ![n] = Tombstone]
Delete(rows, n)        == [rows EXCEPT ![n] = None]
=============================================================================
