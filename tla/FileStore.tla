------------------------------ MODULE FileStore ------------------------------
(***************************************************************************)
(* The file store (crates/storage): a SQLite index of the uploaded files   *)
(* and a directory of blobs beside it, kept together by the order of the   *)
(* steps of `upload`, `delete`, `get_content` and the boot reconciliation. *)
(*                                                                         *)
(* An element of Files is one upload request: it names the blob the        *)
(* request writes and the row it may insert.  Requests interleave; each    *)
(* may be dropped at any await (the client disconnects, a statement        *)
(* fails), which rolls back its transaction but not what it did to blobs.  *)
(* The index is in WAL mode: a transaction that first reads pins a         *)
(* snapshot and may only write while that snapshot is the latest commit    *)
(* (`fresh`) and nobody else holds the write lock (`writer`).              *)
(***************************************************************************)
EXTENDS Naturals, FiniteSets, FiniteSetsExt

CONSTANTS
  Files,       \* upload requests; also the blobs and the rows they create
  NoFile,      \* "none of them"
  Sha,         \* content hash of each upload
  Size,        \* bytes of each upload
  MaxFile,     \* quota.max_file_bytes
  MaxTotal,    \* quota.max_total_bytes
  MaxTime,     \* bound: last second of the wall clock
  MaxFaults    \* bound: crashes, failures, disconnects, foreign commits

ASSUME FileStoreAssumption ==
  /\ IsFiniteSet(Files) /\ NoFile \notin Files
  /\ Size \in [Files -> Nat] /\ DOMAIN Sha = Files
  /\ MaxFile \in Nat /\ MaxTotal \in Nat /\ MaxTime \in Nat /\ MaxFaults \in Nat

VARIABLES
  rows,       \* committed rows of storage_files
  created,    \* storage_files.created_at, in seconds
  blobs,      \* blobs in the directory
  up,         \* the process is serving
  pc,         \* where each upload is
  view,       \* the rows the upload's transaction still sees
  gone,       \* the rows the upload chose as victims
  fresh,      \* the upload's snapshot is still the latest commit
  writer,     \* the upload that holds SQLite's write lock
  deleting,   \* files between the two steps of `delete`
  clock,      \* now_secs
  faults,     \* disturbances so far
  torn,       \* history: rows whose blob an unfinished operation deleted
  spared,     \* history: of these, the rows that a boot has not cleaned
  leaked      \* history: blobs no operation will delete any more

index   == <<rows, created>>
request == <<pc, view, gone, fresh, writer>>
history == <<torn, spared, leaked>>
vars == <<index, blobs, up, request, deleting, clock, faults, history>>

PC == {"new", "stored", "evict", "evictRow", "duplicate", "done", "failed"}
Open(f) == pc[f] \in {"evict", "evictRow"}     \* its transaction is open

\* A commit makes every other pinned snapshot stale.
NoFresh == [f \in Files |-> FALSE]

Fault == faults < MaxFaults /\ faults' = faults + 1

Init ==
  /\ rows = {} /\ blobs = {} /\ deleting = {} /\ torn = {} /\ spared = {} /\ leaked = {}
  /\ created = [f \in Files |-> 0]
  /\ up = TRUE
  /\ pc = [f \in Files |-> "new"]
  /\ view = [f \in Files |-> {}]
  /\ gone = [f \in Files |-> {}]
  /\ fresh = NoFresh
  /\ writer = NoFile
  /\ clock = 1
  /\ faults = 0
------------------------------------------------------------------------------
(* upload *)

Goto(f, where) == pc' = [pc EXCEPT ![f] = where]

\* check_file_size passes and the blob is written before the index.
Put(f) ==
  /\ up /\ pc[f] = "new" /\ Size[f] <= MaxFile
  /\ blobs' = blobs \cup {f}
  /\ Goto(f, "stored")
  /\ UNCHANGED <<index, up, view, gone, fresh, writer, deleting, clock, faults, history>>

\* FileTooLarge (like UnsupportedContentType): refused before anything is
\* written.
TooLarge(f) ==
  /\ up /\ pc[f] = "new" /\ Size[f] > MaxFile
  /\ Goto(f, "failed")
  /\ UNCHANGED <<index, blobs, up, view, gone, fresh, writer, deleting, clock, faults, history>>

\* put fails half-way (full disk): the partial file stays.
PutFails(f) ==
  /\ up /\ pc[f] = "new" /\ Size[f] <= MaxFile
  /\ Fault
  /\ blobs' = blobs \cup {f}
  /\ leaked' = leaked \cup {f}
  /\ Goto(f, "failed")
  /\ UNCHANGED <<index, up, view, gone, fresh, writer, deleting, clock, torn, spared>>

\* find_by_sha256, in a fresh transaction.
Duplicate(f) == \E g \in rows : Sha[g] = Sha[f]

\* The same content is stored already: the transaction is dropped.
FindDuplicate(f) ==
  /\ pc[f] = "stored"
  /\ Duplicate(f)
  /\ Goto(f, "duplicate")
  /\ UNCHANGED <<index, blobs, up, view, gone, fresh, writer, deleting, clock, faults, history>>

\* ... and the blob just written is deleted before the existing record is
\* returned.
DropDuplicate(f) ==
  /\ pc[f] = "duplicate"
  /\ blobs' = blobs \ {f}
  /\ Goto(f, "done")
  /\ UNCHANGED <<index, up, view, gone, fresh, writer, deleting, clock, faults, history>>

\* New content: the transaction's snapshot is pinned by its first SELECT.
TxRead(f) ==
  /\ pc[f] = "stored"
  /\ ~Duplicate(f)
  /\ view' = [view EXCEPT ![f] = rows]
  /\ fresh' = [fresh EXCEPT ![f] = TRUE]
  /\ Goto(f, "evict")
  /\ UNCHANGED <<index, blobs, up, gone, writer, deleting, clock, faults, history>>

Total(S) == MapThenSumSet(LAMBDA f : Size[f], S)

\* Mutant: the quota test forgets the incoming file.
OverForgetsIncoming(f) == Total(view[f]) > MaxTotal

\* freed < needed, with needed = total + incoming - max_total.
Over(f) == Total(view[f]) + Size[f] > MaxTotal

\* Mutant: ORDER BY created_at DESC.
NewestOf(S) == {g \in S : \A h \in S : created[g] >= created[h]}

\* SELECT ... ORDER BY created_at ASC: rows of the same second tie.
OldestOf(S) == {g \in S : \A h \in S : created[g] <= created[h]}

\* evict_for_size deletes the victim's blob first; a failure of that delete
\* is only logged.
EvictBlob(f) ==
  /\ pc[f] = "evict"
  /\ Over(f)
  /\ \E g \in OldestOf(view[f]) :
       /\ gone' = [gone EXCEPT ![f] = @ \cup {g}]
       /\ \/ blobs' = blobs \ {g} /\ UNCHANGED faults
          \/ g \in blobs /\ Fault /\ UNCHANGED blobs
  /\ Goto(f, "evictRow")
  /\ UNCHANGED <<index, up, view, fresh, writer, deleting, clock, history>>

\* Mutant: the two uploads are not serialised by a snapshot.
CanWriteStale(f) == writer \in {f, NoFile}

\* A statement of the transaction may write: SQLite upgrades a read
\* transaction only when no commit happened since its snapshot.
CanWrite(f) == fresh[f] /\ writer \in {f, NoFile}

\* DELETE FROM storage_files WHERE id = <victim>, inside the transaction.
EvictRow(f) ==
  /\ pc[f] = "evictRow"
  /\ CanWrite(f)
  /\ writer' = f
  /\ view' = [view EXCEPT ![f] = @ \ gone[f]]
  /\ Goto(f, "evict")
  /\ UNCHANGED <<index, blobs, up, gone, fresh, deleting, clock, faults, history>>

\* The new file fits, or nothing is left to evict: INSERT and COMMIT.
InsertCommit(f) ==
  /\ pc[f] = "evict"
  /\ ~Over(f) \/ view[f] = {}
  /\ CanWrite(f)
  /\ rows' = (rows \ gone[f]) \cup {f}
  /\ created' = [created EXCEPT ![f] = clock]
  /\ writer' = NoFile
  /\ fresh' = NoFresh
  /\ view' = [view EXCEPT ![f] = {}]
  /\ gone' = [gone EXCEPT ![f] = {}]
  /\ leaked' = leaked \cup (gone[f] \cap blobs)
  /\ Goto(f, "done")
  /\ UNCHANGED <<blobs, up, deleting, clock, faults, torn, spared>>

\* SQLITE_BUSY on a stale snapshot, a failed statement or delete, or a client
\* that goes away: the transaction rolls back, the blobs stay as they are.
Abort(f) ==
  /\ pc[f] \in {"stored", "evict", "evictRow", "duplicate"}
  /\ \/ Open(f) /\ ~fresh[f] /\ UNCHANGED faults
     \/ Fault
  /\ leaked' = leaked \cup {f}
  /\ torn' = torn \cup (gone[f] \ blobs)
  /\ writer' = IF writer = f THEN NoFile ELSE writer
  /\ fresh' = [fresh EXCEPT ![f] = FALSE]
  /\ view' = [view EXCEPT ![f] = {}]
  /\ gone' = [gone EXCEPT ![f] = {}]
  /\ Goto(f, "failed")
  /\ UNCHANGED <<index, blobs, up, deleting, clock, spared>>
------------------------------------------------------------------------------
(* delete, get_content *)

\* DELETE of one row outside a transaction: waits for the write lock.
RemoveRow(f) ==
  /\ writer = NoFile
  /\ rows' = rows \ {f}
  /\ fresh' = IF f \in rows THEN NoFresh ELSE fresh

\* First step of `delete`: the row's blob goes.
DeleteBlob(f) ==
  /\ up /\ f \in rows /\ f \notin deleting
  /\ blobs' = blobs \ {f}
  /\ deleting' = deleting \cup {f}
  /\ UNCHANGED <<index, up, request, clock, faults, history>>

\* Second step of `delete`: the row goes.
DeleteRow(f) ==
  /\ f \in deleting
  /\ RemoveRow(f)
  /\ deleting' = deleting \ {f}
  /\ UNCHANGED <<created, blobs, up, pc, view, gone, writer, clock, faults, history>>

\* The handler is dropped between the two, or the DELETE times out.
DeleteAborts(f) ==
  /\ f \in deleting
  /\ Fault
  /\ deleting' = deleting \ {f}
  /\ torn' = torn \cup {f}
  /\ UNCHANGED <<index, blobs, up, request, clock, spared, leaked>>

\* get_content finds the row but no blob: the row is removed.
LazyReconcile(f) ==
  /\ up /\ f \in rows \ blobs
  /\ RemoveRow(f)
  /\ UNCHANGED <<created, blobs, up, pc, view, gone, writer, deleting, clock, faults, history>>
------------------------------------------------------------------------------
(* The process and its environment *)

\* reconcile_at_boot: an empty listing is taken for an S3 backend.
Reconciled == IF blobs = {} THEN rows ELSE rows \cap blobs

InFlight(f) == pc[f] \in {"stored", "evict", "evictRow", "duplicate"}

\* The process dies: every request is gone, the open transaction rolls back.
Crash ==
  /\ up /\ Fault
  /\ up' = FALSE
  /\ pc' = [f \in Files |-> IF InFlight(f) THEN "failed" ELSE pc[f]]
  /\ view' = [f \in Files |-> {}]
  /\ gone' = [f \in Files |-> {}]
  /\ fresh' = NoFresh
  /\ writer' = NoFile
  /\ deleting' = {}
  /\ torn' = torn \cup deleting \cup ((UNION {gone[f] : f \in Files}) \ blobs)
  /\ leaked' = leaked \cup {f \in Files : InFlight(f)}
  /\ UNCHANGED <<index, blobs, clock, spared>>

\* Store::open: reconcile_at_boot leaves the rows alone when it lists nothing.
Boot ==
  /\ ~up
  /\ up' = TRUE
  /\ rows' = Reconciled
  /\ torn' = {}
  /\ spared' = IF blobs = {} THEN spared \cup torn ELSE {}
  /\ UNCHANGED <<created, blobs, request, deleting, clock, faults, leaked>>

\* Another store commits to the same database.
ForeignCommit ==
  /\ writer = NoFile
  /\ \E f \in Files : fresh[f]
  /\ Fault
  /\ fresh' = NoFresh
  /\ UNCHANGED <<index, blobs, up, pc, view, gone, writer, deleting, clock, history>>

Tick ==
  /\ clock < MaxTime
  /\ clock' = clock + 1
  /\ UNCHANGED <<index, blobs, up, request, deleting, faults, history>>

Next ==
  \/ \E f \in Files :
       \/ Put(f) \/ TooLarge(f) \/ PutFails(f)
       \/ FindDuplicate(f) \/ DropDuplicate(f)
       \/ TxRead(f) \/ EvictBlob(f) \/ EvictRow(f) \/ InsertCommit(f) \/ Abort(f)
       \/ DeleteBlob(f) \/ DeleteRow(f) \/ DeleteAborts(f) \/ LazyReconcile(f)
  \/ Crash \/ Boot \/ ForeignCommit \/ Tick

Spec == Init /\ [][Next]_vars
------------------------------------------------------------------------------
(* Properties *)

TypeOK ==
  /\ rows \in SUBSET Files /\ blobs \in SUBSET Files /\ deleting \in SUBSET Files
  /\ torn \in SUBSET Files /\ spared \in SUBSET Files /\ leaked \in SUBSET Files
  /\ created \in [Files -> Nat]
  /\ up \in BOOLEAN
  /\ pc \in [Files -> PC]
  /\ view \in [Files -> SUBSET Files]
  /\ gone \in [Files -> SUBSET Files]
  /\ fresh \in [Files -> BOOLEAN]
  /\ writer \in Files \cup {NoFile}
  /\ clock \in Nat /\ faults \in Nat

\* Deduplication: however uploads of the same bytes interleave, the index
\* never holds two rows with the same SHA-256 (there is no UNIQUE constraint).
UniqueContent == \A f, g \in rows : Sha[f] = Sha[g] => f = g

\* evict_for_size keeps the index within max_total_bytes under concurrent
\* uploads; only a single file larger than the quota may exceed it.
QuotaRespected == Total(rows) <= MaxTotal \/ \E f \in Files : rows = {f}

\* A row without its blob is the target of a running delete or of a running
\* eviction, was torn by one that did not finish since the last boot, or was
\* torn before and spared: every boot since found the blob directory empty, which
\* reconcile_at_boot takes for a backend that cannot list.
RowsBacked ==
  rows \ blobs \subseteq deleting \cup torn \cup spared \cup UNION {gone[f] : f \in Files}

\* A blob without a row belongs to an upload in flight, or to an operation
\* that failed; nothing else leaks space that the quota does not count.
BlobsAccounted ==
  blobs \ rows \subseteq {f \in Files : InFlight(f)} \cup leaked

\* The index and the blob directory agree up to named causes: no content is
\* indexed twice, no row lacks its blob and no blob its row unnoticed.
IndexSound == UniqueContent /\ RowsBacked /\ BlobsAccounted

\* Eviction is FIFO: what an upload's commit removes is never younger than a
\* row that it keeps, although the rows were read steps before.
EvictsOldestFirst ==
  [][\A g, h \in rows : \A f \in rows' \ rows :
       g \notin rows' /\ h \in rows' => created[g] <= created[h]]_vars
==============================================================================
