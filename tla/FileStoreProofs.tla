-------------------------- MODULE FileStoreProofs --------------------------
(***************************************************************************)
(* Proofs about the file store for any number of uploads, any sizes and    *)
(* any number of faults.  The argument: a transaction whose snapshot is    *)
(* fresh sees exactly the index minus its own victims, so its duplicate    *)
(* test and its choice of victims still hold at its commit; and a file     *)
(* that some operation may delete has left `upload`, so the blob of an     *)
(* upload in flight is there when its row is inserted.                     *)
(***************************************************************************)
EXTENDS FileStore, Access, FiniteSetTheorems, SequenceTheorems, TLAPS

\* What a fresh snapshot is worth.
Snapshots ==
  \A f \in Files : fresh[f] =>
    /\ Open(f)
    /\ view[f] \subseteq rows
    /\ rows \subseteq view[f] \cup gone[f]
    /\ \A g \in rows : Sha[g] # Sha[f]
    /\ \A g \in gone[f], h \in view[f] : created[g] <= created[h]

\* Between two evictions the victims are out of the view.
Victims ==
  \A f \in Files :
    /\ ~Open(f) => gone[f] = {}
    /\ pc[f] = "evict" => gone[f] \cap view[f] = {}

\* Only settled files can be chosen by a delete or an eviction.
Settled ==
  \A g \in Files :
    g \in rows \/ g \in deleting \/ (\E f \in Files : g \in view[f] \/ g \in gone[f])
      => pc[g] = "done"

\* The blob of an upload in flight is there; a file being deleted has none.
Blobs ==
  \A f \in Files : /\ InFlight(f) => f \in blobs /\ up
                   /\ f \in deleting => f \notin blobs

IInv == /\ TypeOK /\ UniqueContent /\ RowsBacked /\ BlobsAccounted
        /\ Snapshots /\ Victims /\ Settled /\ Blobs

\* The initial state satisfies the inductive invariant.
LEMMA InitIInv == Init => IInv
BY FileStoreAssumption
   DEF Init, IInv, TypeOK, UniqueContent, RowsBacked, BlobsAccounted, Snapshots, Victims,
       Settled, Blobs, InFlight, Open, NoFresh, PC

\* Every action of the store preserves the inductive invariant.
LEMMA NextIInv == IInv /\ [Next]_vars => IInv'
<1> SUFFICES ASSUME IInv, [Next]_vars PROVE IInv' OBVIOUS
<1> USE FileStoreAssumption
        DEF IInv, TypeOK, UniqueContent, RowsBacked, BlobsAccounted, Snapshots, Victims,
            Settled, Blobs, InFlight, Open, PC, Goto, Fault, NoFresh,
            index, request, history
<1>1. ASSUME NEW f \in Files, Put(f) PROVE IInv' BY <1>1 DEF Put
<1>2. ASSUME NEW f \in Files, TooLarge(f) PROVE IInv' BY <1>2 DEF TooLarge
<1>3. ASSUME NEW f \in Files, PutFails(f) PROVE IInv' BY <1>3 DEF PutFails
<1>4. ASSUME NEW f \in Files, FindDuplicate(f) PROVE IInv' BY <1>4 DEF FindDuplicate
<1>5. ASSUME NEW f \in Files, DropDuplicate(f) PROVE IInv' BY <1>5 DEF DropDuplicate
<1>6. ASSUME NEW f \in Files, TxRead(f) PROVE IInv' BY <1>6 DEF TxRead, Duplicate
<1>7. ASSUME NEW f \in Files, EvictBlob(f) PROVE IInv' BY <1>7 DEF EvictBlob, OldestOf
<1>8. ASSUME NEW f \in Files, EvictRow(f) PROVE IInv' BY <1>8 DEF EvictRow, CanWrite
<1>9. ASSUME NEW f \in Files, InsertCommit(f) PROVE IInv' BY <1>9 DEF InsertCommit, CanWrite
<1>10. ASSUME NEW f \in Files, Abort(f) PROVE IInv' BY <1>10 DEF Abort
<1>11. ASSUME NEW f \in Files, DeleteBlob(f) PROVE IInv' BY <1>11 DEF DeleteBlob
<1>12. ASSUME NEW f \in Files, DeleteRow(f) PROVE IInv' BY <1>12 DEF DeleteRow, RemoveRow
<1>13. ASSUME NEW f \in Files, DeleteAborts(f) PROVE IInv' BY <1>13 DEF DeleteAborts
<1>14. ASSUME NEW f \in Files, LazyReconcile(f) PROVE IInv' BY <1>14 DEF LazyReconcile, RemoveRow
<1>15. CASE Crash
  <2>1. /\ rows' = rows /\ created' = created /\ blobs' = blobs /\ up' = FALSE /\ deleting' = {}
        /\ \A f \in Files : /\ gone'[f] = {} /\ view'[f] = {} /\ ~fresh'[f]
                           /\ pc'[f] = IF InFlight(f) THEN "failed" ELSE pc[f]
    BY <1>15 DEF Crash
  <2>2. TypeOK'
    <3>1. torn' \in SUBSET Files /\ spared' \in SUBSET Files BY <1>15 DEF Crash
    <3>2. pc' \in [Files -> PC] BY <1>15 DEF Crash
    <3>3. /\ leaked' \in SUBSET Files
          /\ view' \in [Files -> SUBSET Files] /\ gone' \in [Files -> SUBSET Files]
          /\ fresh' \in [Files -> BOOLEAN]
      BY <1>15 DEF Crash
    <3>4. writer' = NoFile /\ clock' = clock /\ faults' = faults + 1 BY <1>15 DEF Crash
    <3>5. rows' \in SUBSET Files /\ blobs' \in SUBSET Files /\ deleting' \in SUBSET Files BY <2>1
    <3>6. created' \in [Files -> Nat] BY <2>1
    <3>7. up' \in BOOLEAN BY <2>1
    <3>8. writer' \in Files \cup {NoFile} BY <3>4
    <3>9. clock' \in Nat /\ faults' \in Nat BY <3>4
    <3> QED BY <3>1, <3>2, <3>3, <3>5, <3>6, <3>7, <3>8, <3>9
  <2>3. RowsBacked'
    <3>1. /\ torn' = torn \cup deleting \cup ((UNION {gone[f] : f \in Files}) \ blobs)
          /\ spared' = spared
      BY <1>15 DEF Crash
    <3>2. rows \ blobs \subseteq torn' \cup spared' BY <3>1
    <3> QED BY <2>1, <3>2
  <2>4. BlobsAccounted' BY <1>15, <2>1 DEF Crash
  <2>5. UniqueContent' /\ Snapshots' /\ Victims' BY <2>1
  <2>6. Settled' /\ Blobs' BY <2>1
  <2> QED BY <2>2, <2>3, <2>4, <2>5, <2>6
<1>16. CASE Boot BY <1>16 DEF Boot, Reconciled
<1>17. CASE ForeignCommit BY <1>17 DEF ForeignCommit
<1>18. CASE Tick BY <1>18 DEF Tick
<1>19. CASE UNCHANGED vars BY <1>19 DEF vars
<1> QED BY <1>1, <1>2, <1>3, <1>4, <1>5, <1>6, <1>7, <1>8, <1>9, <1>10, <1>11, <1>12,
           <1>13, <1>14, <1>15, <1>16, <1>17, <1>18, <1>19 DEF Next

\* The inductive invariant holds for ever.
THEOREM Invariance == Spec => []IInv
BY InitIInv, NextIInv, PTL DEF Spec

\* Every variable of the store keeps its type, whatever the number of uploads.
THEOREM TypeCorrect == Spec => []TypeOK
<1>1. IInv => TypeOK BY DEF IInv
<1> QED BY <1>1, Invariance, PTL

\* find_by_sha256 and the INSERT are statements of one transaction, so
\* however many uploads race, no content is stored twice.
THEOREM Deduplicated == Spec => []UniqueContent
<1>1. IInv => UniqueContent BY DEF IInv
<1> QED BY <1>1, Invariance, PTL

\* A listed file without content is the target of an unfinished or torn delete
\* or eviction, one that was torn and survived its boots for want of any blob
\* included.
THEOREM RowsHaveBlobs == Spec => []RowsBacked
<1>1. IInv => RowsBacked BY DEF IInv
<1> QED BY <1>1, Invariance, PTL

\* A blob outside the index belongs to an upload in flight or to a failed
\* operation.
THEOREM BlobsHaveCauses == Spec => []BlobsAccounted
<1>1. IInv => BlobsAccounted BY DEF IInv
<1> QED BY <1>1, Invariance, PTL

\* evict_for_size is FIFO at the commit that makes it visible: no row it
\* removes is younger than a row it keeps.
THEOREM FifoEviction == Spec => EvictsOldestFirst
<1> DEFINE Fifo == \A g, h \in rows : \A f \in rows' \ rows :
                     g \notin rows' /\ h \in rows' => created[g] <= created[h]
<1>1. IInv /\ [Next]_vars => [Fifo]_vars
  <2> SUFFICES ASSUME IInv, Next,
                      NEW g \in rows, NEW h \in rows, NEW f \in rows' \ rows,
                      g \notin rows', h \in rows'
               PROVE  created[g] <= created[h]
    OBVIOUS
  <2>1. PICK k \in Files : InsertCommit(k)
    BY DEF Next, Put, TooLarge, PutFails, FindDuplicate, DropDuplicate, TxRead, EvictBlob,
           EvictRow, Abort, DeleteBlob, DeleteRow, RemoveRow, DeleteAborts, LazyReconcile,
           Crash, Boot, Reconciled, ForeignCommit, Tick, index, IInv, TypeOK
  <2>2. fresh[k] /\ rows' = (rows \ gone[k]) \cup {k} BY <2>1 DEF InsertCommit, CanWrite
  <2>3. k \notin rows BY <2>1 DEF InsertCommit, IInv, Settled, TypeOK
  <2>4. g \in gone[k] /\ h \in view[k] BY <2>2, <2>3 DEF IInv, Snapshots
  <2> QED BY <2>2, <2>4 DEF IInv, Snapshots
<1> QED BY <1>1, Invariance, PTL DEF Spec, EvictsOldestFirst

\* Unique content, backed rows and accounted blobs.
THEOREM SoundIndex == Spec => []IndexSound
BY Deduplicated, RowsHaveBlobs, BlobsHaveCauses, PTL DEF IndexSound
-----------------------------------------------------------------------------
(* Sums over finite sets *)

\* The element that a fold over a set takes first.
Pick(T) == CHOOSE x \in T : TRUE

\* One step of a sum.
Folded(w, g, T) == IF T = {} THEN 0 ELSE w[Pick(T)] + g[T \ {Pick(T)}]

\* What the folds of the community modules compute, for `+` over w[x].
SumOver(w, S) == (CHOOSE g : g = [T \in SUBSET S |-> Folded(w, g, T)])[S]

\* A nonempty set of numbers has a least element.
LEMMA Least ==
  ASSUME NEW N \in SUBSET Nat, N # {}
  PROVE  \E n \in N : \A m \in N : n <= m
<1> DEFINE R == OpToRel(<, Nat)
<1>1. IsWellFoundedOn(R, Nat) BY NatLessThanWellFounded
<1>2. R = {p \in Nat \X Nat : p[1] < p[2]} BY DEF OpToRel
<1> HIDE DEF R
<1>3. PICK n \in N : \A m \in N : <<m, n>> \notin R BY <1>1, WFMin
<1>4. ASSUME NEW m \in N PROVE n <= m
  <2>1. <<m, n>> \in Nat \X Nat OBVIOUS
  <2> QED BY <1>2, <1>3, <2>1
<1> QED BY <1>3, <1>4

\* A nonempty family of subsets of a finite set has a minimal member.
LEMMA Minimal ==
  ASSUME NEW D, IsFiniteSet(D), NEW F \in SUBSET SUBSET D, F # {}
  PROVE  \E T \in F : \A U \in F : U \subseteq T => U = T
<1> DEFINE R == StrictSubsetOrdering(D)
<1>1. IsWellFoundedOn(R, SUBSET D) BY FS_StrictSubsetOrderingWellFounded, FS_FiniteSubsetsOfFinite
<1>2. R = {p \in (SUBSET D) \X (SUBSET D) : p[1] \subseteq p[2] /\ p[1] # p[2]}
  BY DEF StrictSubsetOrdering
<1> HIDE DEF R
<1>3. PICK T \in F : \A U \in F : <<U, T>> \notin R BY <1>1, WFMin
<1>4. ASSUME NEW U \in F, U \subseteq T, U # T PROVE FALSE
  <2>1. <<U, T>> \in (SUBSET D) \X (SUBSET D) OBVIOUS
  <2> QED BY <1>2, <1>3, <1>4, <2>1
<1> QED BY <1>3, <1>4

\* It is an element ...
LEMMA PickIn == ASSUME NEW T, T # {} PROVE Pick(T) \in T
BY DEF Pick

\* ... and one fewer is left.
LEMMA PickSmaller ==
  ASSUME NEW D, IsFiniteSet(D), NEW T \in SUBSET D, T # {}
  PROVE  T \ {Pick(T)} \in SUBSET D /\ Cardinality(T) \in Nat /\ Cardinality(T \ {Pick(T)}) = Cardinality(T) - 1
BY PickIn, FS_Subset, FS_RemoveElement, FS_CardinalityType

\* The equation of a fold over a finite set has a solution.
LEMMA SumDefined ==
  ASSUME NEW D, IsFiniteSet(D), NEW w
  PROVE  \E g : g = [T \in SUBSET D |-> Folded(w, g, T)]
<1> DEFINE Fine(n, g) == \A T \in SUBSET D : Cardinality(T) <= n => g[T] = Folded(w, g, T)
           Bad == {n \in Nat : \A g : ~Fine(n, g)}
<1>1. Bad = {}
  <2> SUFFICES ASSUME Bad # {} PROVE FALSE OBVIOUS
  <2>1. PICK n \in Bad : \A m \in Bad : n <= m
    <3>1. Bad \in SUBSET Nat OBVIOUS
    <3> HIDE DEF Bad
    <3> QED BY <3>1, Least
  <2>2. n \in Nat /\ (n = 0 \/ (n - 1 \in Nat /\ \E g : Fine(n - 1, g)))
    <3>1. n = 0 \/ (n - 1 \in Nat /\ n - 1 \notin Bad) BY <2>1
    <3> QED BY <3>1
  <2>3. CASE n = 0
    <3> DEFINE g == [T \in SUBSET D |-> 0]
    <3>1. \A T \in SUBSET D : Cardinality(T) <= 0 => T = {}
      BY FS_EmptySet, FS_CardinalityType, FS_Subset
    <3>2. Fine(0, g) BY <3>1 DEF Folded
    <3> QED BY <2>3, <3>2
  <2>4. CASE n # 0
    <3>1. PICK g : Fine(n - 1, g) BY <2>2, <2>4
    <3> DEFINE h == [T \in SUBSET D |-> Folded(w, g, T)]
    <3>2. ASSUME NEW T \in SUBSET D, Cardinality(T) <= n PROVE h[T] = Folded(w, h, T)
      <4>1. CASE T = {} BY <4>1 DEF Folded
      <4>2. CASE T # {}
        <5> DEFINE U == T \ {Pick(T)}
        <5>1. U \in SUBSET D /\ Cardinality(U) <= n - 1 BY <2>2, <3>2, <4>2, PickSmaller
        <5>2. g[U] = h[U] BY <3>1, <5>1
        <5> QED BY <3>2, <4>2, <5>2 DEF Folded
      <4> QED BY <4>1, <4>2
    <3>3. Fine(n, h) BY <3>2
    <3> QED BY <3>3
  <2> QED BY <2>3, <2>4
<1>2. PICK g : Fine(Cardinality(D), g)
  <2>1. Cardinality(D) \in Nat BY FS_CardinalityType
  <2> QED BY <1>1, <2>1
<1>3. \A T \in SUBSET D : g[T] = Folded(w, g, T)
  BY <1>2, FS_Subset, FS_CardinalityType
<1> DEFINE h == [T \in SUBSET D |-> g[T]]
<1>4. \A T \in SUBSET D : h[T] = Folded(w, h, T)
  BY <1>3, PickSmaller DEF Folded
<1>5. h = [T \in SUBSET D |-> Folded(w, h, T)]
  <2>1. h = [T \in SUBSET D |-> h[T]] OBVIOUS
  <2> HIDE DEF h
  <2>2. [T \in SUBSET D |-> h[T]] = [T \in SUBSET D |-> Folded(w, h, T)] BY <1>4
  <2> QED BY <2>1, <2>2
<1> QED BY <1>5

\* On finite sets the sum is the solution.
LEMMA SumSolves ==
  ASSUME NEW D, IsFiniteSet(D), NEW w
  PROVE  \E g : /\ \A T \in SUBSET D : g[T] = Folded(w, g, T)
                /\ SumOver(w, D) = g[D]
<1> DEFINE g == CHOOSE h : h = [T \in SUBSET D |-> Folded(w, h, T)]
<1>1. g = [T \in SUBSET D |-> Folded(w, g, T)] BY SumDefined
<1>2. SumOver(w, D) = g[D] BY DEF SumOver
<1> HIDE DEF g
<1>3. \A T \in SUBSET D : g[T] = Folded(w, g, T) BY <1>1
<1> QED BY <1>2, <1>3

\* Two solutions agree where both are defined.
LEMMA SumUnique ==
  ASSUME NEW D, IsFiniteSet(D), NEW w, NEW g, NEW h,
         \A T \in SUBSET D : g[T] = Folded(w, g, T) /\ h[T] = Folded(w, h, T)
  PROVE  g[D] = h[D]
<1> DEFINE Bad == {T \in SUBSET D : g[T] # h[T]}
<1>1. Bad = {}
  <2> SUFFICES ASSUME Bad # {} PROVE FALSE OBVIOUS
  <2>1. PICK T \in Bad : \A U \in Bad : U \subseteq T => U = T
    <3>1. Bad \in SUBSET SUBSET D OBVIOUS
    <3> HIDE DEF Bad
    <3> QED BY <3>1, Minimal
  <2>2. T # {} BY <2>1 DEF Folded
  <2>3. T \ {Pick(T)} \notin Bad BY <2>1, <2>2, PickIn
  <2>4. g[T \ {Pick(T)}] = h[T \ {Pick(T)}] BY <2>1, <2>3
  <2>5. Folded(w, g, T) = Folded(w, h, T) BY <2>4 DEF Folded
  <2> QED BY <2>1, <2>5
<1> QED BY <1>1

\* One solution for a finite set has the sums of all its subsets.
LEMMA SumOfSubsets ==
  ASSUME NEW D, IsFiniteSet(D), NEW w
  PROVE  \A T \in SUBSET D : SumOver(w, T) = IF T = {} THEN 0 ELSE w[Pick(T)] + SumOver(w, T \ {Pick(T)})
<1>1. PICK g : \A T \in SUBSET D : g[T] = Folded(w, g, T) BY SumSolves
<1>2. ASSUME NEW T \in SUBSET D PROVE SumOver(w, T) = g[T]
  <2>1. IsFiniteSet(T) BY FS_Subset
  <2>2. PICK h : (\A U \in SUBSET T : h[U] = Folded(w, h, U)) /\ SumOver(w, T) = h[T] BY <2>1, SumSolves
  <2>3. \A U \in SUBSET T : h[U] = Folded(w, h, U) /\ g[U] = Folded(w, g, U) BY <1>1, <2>2
  <2>4. h[T] = g[T] BY <2>1, <2>3, SumUnique
  <2> QED BY <2>2, <2>4
<1>3. ASSUME NEW T \in SUBSET D, T # {} PROVE g[T] = w[Pick(T)] + g[T \ {Pick(T)}]
  BY <1>1, <1>3 DEF Folded
<1>4. g[{}] = 0 BY <1>1 DEF Folded
<1> QED BY <1>2, <1>3, <1>4, PickSmaller

\* A sum of numbers is a number.
LEMMA SumNat ==
  ASSUME NEW D, IsFiniteSet(D), NEW w, \A x \in D : w[x] \in Nat
  PROVE  \A T \in SUBSET D : SumOver(w, T) \in Nat
<1> DEFINE Bad == {T \in SUBSET D : SumOver(w, T) \notin Nat}
<1> SUFFICES ASSUME Bad # {} PROVE FALSE OBVIOUS
<1>1. PICK T \in Bad : \A U \in Bad : U \subseteq T => U = T
  <2>1. Bad \in SUBSET SUBSET D OBVIOUS
  <2> HIDE DEF Bad
  <2> QED BY <2>1, Minimal
<1>2. CASE T = {}
  <2>1. SumOver(w, T) = 0
    <3>1. T \in SUBSET D BY <1>1
    <3> HIDE DEF Bad
    <3> QED BY <1>2, <3>1, SumOfSubsets
  <2> QED BY <1>1, <2>1
<1>3. CASE T # {}
  <2>1. Pick(T) \in T BY <1>3, PickIn
  <2>5. T \ {Pick(T)} \in SUBSET D /\ T \ {Pick(T)} # T BY <1>1, <2>1
  <2>2. T \ {Pick(T)} \in SUBSET D /\ T \ {Pick(T)} \notin Bad BY <1>1, <2>5
  <2>4. SumOver(w, T \ {Pick(T)}) \in Nat /\ w[Pick(T)] \in Nat BY <1>1, <2>1, <2>2
  <2>3. SumOver(w, T) = w[Pick(T)] + SumOver(w, T \ {Pick(T)}) BY <1>1, <1>3, SumOfSubsets
  <2> QED BY <1>1, <2>3, <2>4
<1> QED BY <1>2, <1>3

\* Any element of a set may be taken first.
LEMMA SumSplit ==
  ASSUME NEW D, IsFiniteSet(D), NEW w, \A x \in D : w[x] \in Nat
  PROVE  \A T \in SUBSET D : \A x \in T : SumOver(w, T) = w[x] + SumOver(w, T \ {x})
<1> DEFINE Bad == {T \in SUBSET D : \E x \in T : SumOver(w, T) # w[x] + SumOver(w, T \ {x})}
<1> SUFFICES ASSUME Bad # {} PROVE FALSE OBVIOUS
<1>1. PICK T \in Bad : \A U \in Bad : U \subseteq T => U = T
  <2>1. Bad \in SUBSET SUBSET D OBVIOUS
  <2> HIDE DEF Bad
  <2> QED BY <2>1, Minimal
<1>2. PICK x \in T : SumOver(w, T) # w[x] + SumOver(w, T \ {x}) BY <1>1
<1> DEFINE p == Pick(T)
<1>3. p \in T BY PickIn
<1>4. SumOver(w, T) = w[p] + SumOver(w, T \ {p}) BY <1>1, <1>3, SumOfSubsets
<1>5. x # p BY <1>2, <1>4
<1> HIDE DEF p
<1>6. T \ {p} \in SUBSET D /\ T \ {x} \in SUBSET D BY <1>1
<1>7. SumOver(w, T \ {p}) = w[x] + SumOver(w, (T \ {p}) \ {x})
  <2>1. T \ {p} \notin Bad BY <1>1, <1>3, <1>6
  <2> QED BY <1>2, <1>5, <1>6, <2>1
<1>8. SumOver(w, T \ {x}) = w[p] + SumOver(w, (T \ {x}) \ {p})
  <2>1. T \ {x} \notin Bad BY <1>1, <1>2, <1>6
  <2> QED BY <1>3, <1>5, <1>6, <2>1
<1>9. (T \ {p}) \ {x} = (T \ {x}) \ {p} OBVIOUS
<1>10. w[x] \in Nat /\ w[p] \in Nat BY <1>1, <1>3
<1>11. SumOver(w, (T \ {x}) \ {p}) \in Nat BY <1>6, SumNat
<1>12. SumOver(w, (T \ {p}) \ {x}) = SumOver(w, (T \ {x}) \ {p}) BY <1>9
<1> DEFINE rest == SumOver(w, (T \ {x}) \ {p})
<1>13. SumOver(w, T) = w[p] + (w[x] + rest) /\ SumOver(w, T \ {x}) = w[p] + rest /\ rest \in Nat
  BY <1>4, <1>7, <1>8, <1>11, <1>12
<1> HIDE DEF rest
<1>14. SumOver(w, T) = w[x] + SumOver(w, T \ {x}) BY <1>10, <1>13
<1> QED BY <1>2, <1>14

\* A sum grows with its set, and only by what is not zero.
LEMMA SumMonotone ==
  ASSUME NEW D, IsFiniteSet(D), NEW w, \A x \in D : w[x] \in Nat, NEW S \in SUBSET D
  PROVE  \A T \in SUBSET D : S \subseteq T =>
           /\ SumOver(w, S) <= SumOver(w, T)
           /\ (\A x \in T \ S : w[x] = 0) => SumOver(w, S) = SumOver(w, T)
<1> DEFINE Good(T) == /\ SumOver(w, S) <= SumOver(w, T)
                      /\ (\A x \in T \ S : w[x] = 0) => SumOver(w, S) = SumOver(w, T)
           Bad == {T \in SUBSET D : S \subseteq T /\ ~Good(T)}
<1> SUFFICES ASSUME Bad # {} PROVE FALSE OBVIOUS
<1>1. PICK T \in Bad : \A U \in Bad : U \subseteq T => U = T
  <2>1. Bad \in SUBSET SUBSET D OBVIOUS
  <2> HIDE DEF Bad
  <2> QED BY <2>1, Minimal
<1>0. SumOver(w, S) \in Nat /\ SumOver(w, T) \in Nat BY <1>1, SumNat
<1>2. T # S BY <1>0, <1>1
<1>3. PICK x \in T : x \notin S BY <1>1, <1>2
<1>4. T \ {x} \in SUBSET D /\ S \subseteq T \ {x} /\ T \ {x} # T BY <1>1, <1>3
<1>5. T \ {x} \notin Bad BY <1>1, <1>4
<1>6. Good(T \ {x}) BY <1>4, <1>5
<1>7. SumOver(w, T) = w[x] + SumOver(w, T \ {x}) BY <1>1, <1>3, SumSplit
<1>8. w[x] \in Nat /\ SumOver(w, T \ {x}) \in Nat BY <1>1, <1>4, SumNat
<1>9. Good(T) BY <1>0, <1>3, <1>6, <1>7, <1>8
<1> QED BY <1>1, <1>9
-----------------------------------------------------------------------------
(* The quota *)

\* Total is such a sum, and the rows are finitely many.
LEMMA TotalSums ==
  /\ Total({}) = 0
  /\ \A S \in SUBSET Files :
       /\ Total(S) \in Nat
       /\ \A T \in SUBSET S : Total(T) <= Total(S)
       /\ \A f \in Files \ S : Total(S \cup {f}) = Total(S) + Size[f]
<1>0. /\ IsFiniteSet(Files) /\ \A f \in Files : Size[f] \in Nat BY FileStoreAssumption
<1>1. \A S : Total(S) = SumOver(Size, S)
  BY DEF Total, MapThenSumSet, MapThenFoldSet, SumOver, Folded, Pick
<1>2. SumOver(Size, {}) = 0 BY <1>0, SumOfSubsets
<1>3. ASSUME NEW S \in SUBSET Files
      PROVE  /\ SumOver(Size, S) \in Nat
             /\ \A T \in SUBSET S : SumOver(Size, T) <= SumOver(Size, S)
             /\ \A f \in Files \ S : SumOver(Size, S \cup {f}) = SumOver(Size, S) + Size[f]
  <2>1. SumOver(Size, S) \in Nat BY <1>0, SumNat
  <2>2. \A T \in SUBSET S : SumOver(Size, T) <= SumOver(Size, S)
    <3> TAKE T \in SUBSET S
    <3>1. T \in SUBSET Files OBVIOUS
    <3> QED BY <1>0, <3>1, SumMonotone
  <2>3. ASSUME NEW f \in Files \ S PROVE SumOver(Size, S \cup {f}) = SumOver(Size, S) + Size[f]
    <3>1. S \cup {f} \in SUBSET Files /\ f \in S \cup {f} /\ (S \cup {f}) \ {f} = S OBVIOUS
    <3>2. SumOver(Size, S \cup {f}) = Size[f] + SumOver(Size, S) BY <1>0, <3>1, SumSplit
    <3> QED BY <1>0, <2>1, <3>2
  <2> QED BY <2>1, <2>2, <2>3
<1> QED BY <1>1, <1>2, <1>3

\* A commit stores what its snapshot measured; every other step only removes.
LEMMA QuotaStep == IInv /\ QuotaRespected /\ [Next]_vars => QuotaRespected'
<1> SUFFICES ASSUME IInv, QuotaRespected, [Next]_vars PROVE QuotaRespected' OBVIOUS
<1>0. MaxTotal \in Nat /\ rows \in SUBSET Files BY FileStoreAssumption DEF IInv, TypeOK
<1>1. ASSUME NEW f \in Files, InsertCommit(f) PROVE QuotaRespected'
  <2>1. /\ f \notin rows /\ view[f] \subseteq rows /\ rows \subseteq view[f] \cup gone[f]
        /\ gone[f] \cap view[f] = {}
    BY <1>1 DEF InsertCommit, CanWrite, IInv, TypeOK, Settled, Snapshots, Victims
  <2>2. rows' = view[f] \cup {f} BY <1>1, <2>1 DEF InsertCommit
  <2>3. CASE view[f] = {} BY <2>2, <2>3 DEF QuotaRespected
  <2>4. CASE ~Over(f)
    <3>1. view[f] \in SUBSET Files /\ f \in Files \ view[f] BY <1>0, <2>1
    <3>2. Total(view[f] \cup {f}) = Total(view[f]) + Size[f] /\ Total(view[f]) \in Nat
      BY <3>1, TotalSums
    <3>3. Total(view[f] \cup {f}) <= MaxTotal
      BY <1>0, <2>4, <3>2, FileStoreAssumption DEF Over
    <3>4. Total(rows') <= MaxTotal BY <2>2, <3>3
    <3> QED BY <3>4 DEF QuotaRespected
  <2> QED BY <1>1, <2>3, <2>4 DEF InsertCommit
<1>2. ASSUME rows' \subseteq rows PROVE QuotaRespected'
  <2>1. CASE Total(rows) <= MaxTotal
    <3>1. Total(rows') <= Total(rows) /\ Total(rows) \in Nat /\ Total(rows') \in Nat
      <4>1. rows' \in SUBSET rows BY <1>2
      <4>2. rows' \in SUBSET Files BY <1>0, <4>1
      <4> QED BY <1>0, <4>1, <4>2, TotalSums
    <3>2. Total(rows') <= MaxTotal BY <1>0, <2>1, <3>1
    <3> QED BY <3>2 DEF QuotaRespected
  <2>2. CASE \E f \in Files : rows = {f}
    <3>1. rows' = {} \/ rows' = rows BY <1>2, <2>2
    <3>2. CASE rows' = rows BY <2>2, <3>2 DEF QuotaRespected
    <3>3. CASE rows' = {}
      <4>1. Total(rows') <= MaxTotal BY <1>0, <3>3, TotalSums
      <4> QED BY <4>1 DEF QuotaRespected
    <3> QED BY <3>1, <3>2, <3>3
  <2> QED BY <2>1, <2>2 DEF QuotaRespected
<1>3. (\E f \in Files : InsertCommit(f)) \/ rows' \subseteq rows
  BY DEF Next, Put, TooLarge, PutFails, FindDuplicate, DropDuplicate, TxRead, EvictBlob,
         EvictRow, Abort, DeleteBlob, DeleteRow, RemoveRow, DeleteAborts, LazyReconcile,
         Crash, Boot, Reconciled, ForeignCommit, Tick, index, vars
<1> QED BY <1>1, <1>2, <1>3

\* However uploads of any sizes overlap, only a file that is larger than the
\* quota by itself takes the index past it.
THEOREM WithinQuota == Spec => []QuotaRespected
<1>1. Init => QuotaRespected
  <2>1. Init => rows = {} /\ MaxTotal \in Nat BY FileStoreAssumption DEF Init
  <2> QED BY <2>1, TotalSums DEF QuotaRespected
<1> QED BY <1>1, QuotaStep, Invariance, PTL DEF Spec
-----------------------------------------------------------------------------
(* Access *)

Text == Seq(Chars)

\* A row of api_tokens.
TokenRows ==
  [principal : Text, revoked : BOOLEAN,
   budget : [kind : {"monthly", "total", "unlimited"}, limit : Int]]

\* The configuration that is served was admissible, a minted row names a user,
\* and no token has spent in a month to come.
AccessIInv ==
  /\ served # Absent => served \in Documents /\ Admissible(served)
  /\ month \in 0..MaxMonth
  /\ tokens \in [Secrets -> TokenRows \cup {Absent}]
  /\ usage \in [Secrets -> [0..MaxMonth -> Nat]]
  /\ \A s \in Secrets : \A m \in 0..MaxMonth : m > month => usage[s][m] = 0

\* The first and the last of some positions of a text.
LEMMA MinFirst ==
  ASSUME NEW k \in Nat, NEW N \in SUBSET (1..k), N # {}
  PROVE  Min(N) \in N /\ \A m \in N : Min(N) <= m
<1>1. \E n \in N : \A m \in N : n <= m
  <2>1. N \in SUBSET Nat OBVIOUS
  <2> QED BY <2>1, Least
<1> QED BY <1>1 DEF Min

LEMMA MaxLast ==
  ASSUME NEW k \in Nat, NEW N \in SUBSET (1..k), N # {}
  PROVE  Max(N) \in N /\ \A m \in N : Max(N) >= m
<1> DEFINE O == {k - n : n \in N}
<1>1. O \in SUBSET Nat /\ O # {}
  <2>1. \A n \in N : k - n \in Nat OBVIOUS
  <2>2. PICK n \in N : TRUE OBVIOUS
  <2>3. k - n \in O BY <2>2
  <2> QED BY <2>1, <2>3
<1>2. PICK o \in O : \A q \in O : o <= q
  <2> HIDE DEF O
  <2> QED BY <1>1, Least
<1>3. PICK n \in N : o = k - n BY <1>2
<1>4. \A m \in N : n >= m
  <2> TAKE m \in N
  <2>1. k - m \in O OBVIOUS
  <2> QED BY <1>2, <1>3, <2>1
<1> QED BY <1>4 DEF Max

\* What is left of a text without the blanks around it is a text.
LEMMA TrimText == ASSUME NEW text \in Text PROVE Trim(text) \in Text
<1> DEFINE kept == {i \in DOMAIN text : text[i] # " "}
<1>1. CASE kept = {}
  <2>1. Trim(text) = <<>> BY <1>1 DEF Trim
  <2> QED BY <2>1, EmptySeq DEF Text
<1>2. CASE kept # {}
  <2>1. Len(text) \in Nat /\ kept \in SUBSET (1..Len(text)) BY LenProperties DEF Text
  <2>2. Min(kept) \in 1..Len(text) /\ Max(kept) \in 1..Len(text)
    <3> HIDE DEF kept
    <3> QED BY <1>2, <2>1, MinFirst, MaxLast
  <2>3. Trim(text) = SubSeq(text, Min(kept), Max(kept)) BY <1>2 DEF Trim
  <2> HIDE DEF kept
  <2> QED BY <2>2, <2>3, SubSeqProperties DEF Text
<1> QED BY <1>1, <1>2

\* A pair joined by a colon.
LEMMA JoinText ==
  ASSUME NEW u \in Text, NEW p \in Text
  PROVE  u \o <<":">> \o p \in Text /\ Len(u \o <<":">> \o p) = Len(u) + 1 + Len(p)
<1>1. <<":">> \in Text /\ Len(<<":">>) = 1
  <2>1. ":" \in Chars BY AccessAssumption
  <2>2. \A c \in Chars : <<c>> \in Seq(Chars) OBVIOUS
  <2>3. Len(<<":">>) = 1 OBVIOUS
  <2> QED BY <2>1, <2>2, <2>3 DEF Text
<1>2. u \o <<":">> \in Text /\ Len(u \o <<":">>) = Len(u) + 1 BY <1>1, ConcatProperties DEF Text
<1>3. u \o <<":">> \o p \in Text /\ Len(u \o <<":">> \o p) = Len(u \o <<":">>) + Len(p)
  BY <1>2, ConcatProperties DEF Text
<1> QED BY <1>2, <1>3

\* Credentials::verify_header cuts at the first colon: what it accepts is the
\* pair joined by a colon, and all of it when the username has none.
LEMMA CutJoins ==
  ASSUME NEW text \in Text, NEW u \in Text, NEW p \in Text
  PROVE  /\ Colons(text) # {} /\ Cut(text, Min(Colons(text))) = Basic(u, p)
              => text = u \o <<":">> \o p
         /\ text = u \o <<":">> \o p /\ Colons(u) = {}
              => Colons(text) # {} /\ Cut(text, Min(Colons(text))) = Basic(u, p)
<1> DEFINE w == u \o <<":">> \o p
<1>0. Len(text) \in Nat /\ Len(u) \in Nat /\ Len(p) \in Nat /\ Colons(text) \in SUBSET (1..Len(text))
  BY DEF Text, Colons
<1>1. w \in Text /\ Len(w) = Len(u) + 1 + Len(p) BY JoinText
<1>2. /\ \A k \in 1..Len(u) : w[k] = u[k]
      /\ w[Len(u) + 1] = ":"
      /\ \A k \in 1..Len(p) : w[Len(u) + 1 + k] = p[k]
  BY <1>0 DEF Text
<1>3. \A v \in Text : v = w <=> Len(v) = Len(w) /\ \A k \in 1..Len(w) : v[k] = w[k]
  BY <1>1, SeqEqual DEF Text
<1> HIDE DEF w
<1>4. ASSUME Colons(text) # {}, Cut(text, Min(Colons(text))) = Basic(u, p) PROVE text = w
  <2>1. PICK i : i = Min(Colons(text)) OBVIOUS
  <2>2. i \in 1..Len(text) /\ text[i] = ":"
    <3>1. i \in Colons(text) BY <1>0, <1>4, <2>1, MinFirst
    <3> QED BY <1>0, <3>1 DEF Colons
  <2>3. SubSeq(text, 1, i - 1) = u /\ SubSeq(text, i + 1, Len(text)) = p
    BY <1>4, <2>1 DEF Cut, Basic
  <2>4. Len(u) = i - 1 /\ \A k \in 1..(i - 1) : u[k] = text[k]
    BY <1>0, <2>2, <2>3, SubSeqProperties DEF Text
  <2>5. Len(p) = Len(text) - i /\ \A k \in 1..(Len(text) - i) : p[k] = text[i + k]
    BY <1>0, <2>2, <2>3, SubSeqProperties DEF Text
  <2>6. Len(text) = Len(w) BY <1>0, <1>1, <2>2, <2>4, <2>5
  <2>7. ASSUME NEW k \in 1..Len(w) PROVE text[k] = w[k]
    <3>1. CASE k < i BY <1>0, <1>2, <2>2, <2>4, <3>1
    <3>2. CASE k = i BY <1>0, <1>2, <2>2, <2>4, <3>2
    <3>3. CASE k > i
      <4>1. k - i \in 1..Len(p) /\ k = Len(u) + 1 + (k - i) BY <1>0, <2>2, <2>4, <2>5, <2>6, <3>3
      <4>2. w[k] = p[k - i] BY <1>2, <4>1
      <4>3. p[k - i] = text[k] BY <2>2, <2>5, <4>1
      <4> QED BY <4>2, <4>3
    <3> QED BY <1>0, <2>2, <3>1, <3>2, <3>3
  <2> QED BY <1>3, <2>6, <2>7
<1>5. ASSUME text = w, Colons(u) = {}
      PROVE  Colons(text) # {} /\ Cut(text, Min(Colons(text))) = Basic(u, p)
  <2> DEFINE n == Len(u) + 1
  <2>1. n \in 1..Len(text) /\ n \in Colons(text) BY <1>0, <1>1, <1>2, <1>5 DEF Colons, Text
  <2>2. ASSUME NEW k \in Colons(text), k < n PROVE FALSE
    <3>1. k \in 1..Len(u) /\ u[k] = ":" BY <1>0, <1>2, <1>5, <2>2 DEF Colons
    <3> QED BY <1>5, <3>1 DEF Colons, Text
  <2>3. Min(Colons(text)) = n
    <3>1. Min(Colons(text)) \in Colons(text) /\ Min(Colons(text)) <= n BY <1>0, <2>1, MinFirst
    <3>2. Min(Colons(text)) \in Nat BY <1>0, <3>1
    <3>3. ~(Min(Colons(text)) < n) BY <2>2, <3>1
    <3> QED BY <2>1, <3>1, <3>2, <3>3
  <2>4. SubSeq(text, 1, n - 1) = u
    <3>1. /\ SubSeq(text, 1, n - 1) \in Text /\ Len(SubSeq(text, 1, n - 1)) = Len(u)
          /\ \A k \in 1..Len(u) : SubSeq(text, 1, n - 1)[k] = u[k]
      BY <1>0, <1>1, <1>2, <1>5, SubSeqProperties DEF Text
    <3> QED BY <3>1, SeqEqual DEF Text
  <2>5. SubSeq(text, n + 1, Len(text)) = p
    <3>1. /\ SubSeq(text, n + 1, Len(text)) \in Text /\ Len(SubSeq(text, n + 1, Len(text))) = Len(p)
          /\ \A k \in 1..Len(p) : SubSeq(text, n + 1, Len(text))[k] = p[k]
      BY <1>0, <1>1, <1>2, <1>5, SubSeqProperties DEF Text
    <3> QED BY <3>1, SeqEqual DEF Text
  <2> QED BY <2>1, <2>3, <2>4, <2>5 DEF Cut, Basic
<1> QED BY <1>4, <1>5 DEF w

LEMMA AccessInitIInv == AccessInit => AccessIInv
<1> SUFFICES ASSUME AccessInit PROVE AccessIInv OBVIOUS
<1>1. served = Absent /\ month = 0 /\ tokens = [s \in Secrets |-> Absent] BY DEF AccessInit
<1>2. usage = [s \in Secrets |-> [m \in 0..MaxMonth |-> 0]] BY DEF AccessInit
<1>3. MaxMonth \in Nat BY AccessAssumption
<1>4. usage \in [Secrets -> [0..MaxMonth -> Nat]] BY <1>2
<1>5. \A s \in Secrets : \A m \in 0..MaxMonth : usage[s][m] = 0 BY <1>2
<1>6. tokens \in [Secrets -> TokenRows \cup {Absent}] BY <1>1
<1>7. month \in 0..MaxMonth BY <1>1, <1>3
<1> QED BY <1>1, <1>4, <1>5, <1>6, <1>7 DEF AccessIInv

\* A budget that from_parts admits is one.
LEMMA BudgetType ==
  ASSUME NEW form \in Forms, Parses(form), BudgetOf(form.kind, form.amount) # Absent
  PROVE  BudgetOf(form.kind, form.amount)
           \in [kind : {"monthly", "total", "unlimited"}, limit : Int]
<1>1. CASE form.kind = "unlimited" BY <1>1 DEF BudgetOf, NoBudget
<1>2. CASE form.kind # "unlimited"
  <2>1. form.amount # Absent /\ form.amount.written = "finite" /\ form.amount.tenths > 0
    BY <1>2 DEF BudgetOf
  <2>2. UsdToMicro(form.amount) \in Int
    <3>1. form.amount.tenths \in Int BY <2>1, AccessAssumption
    <3> QED BY <3>1 DEF UsdToMicro
  <2>3. BudgetOf(form.kind, form.amount) = [kind |-> form.kind, limit |-> UsdToMicro(form.amount)]
    BY <1>2, <2>1 DEF BudgetOf
  <2> QED BY <2>2, <2>3 DEF Parses
<1> QED BY <1>1, <1>2

LEMMA AccessNextIInv == AccessIInv /\ [AccessNext]_accessVars => AccessIInv'
<1> SUFFICES ASSUME AccessIInv, [AccessNext]_accessVars PROVE AccessIInv' OBVIOUS
<1>0. MaxMonth \in Nat /\ MaxSpent \in Nat BY AccessAssumption
<1>1. ASSUME NEW c \in Documents, NEW discovered \in BOOLEAN, Start(c, discovered) PROVE AccessIInv'
  <2>1. (served' = c /\ Admissible(c)) \/ served' = Absent BY <1>1 DEF Start
  <2>2. UNCHANGED <<tokens, usage, month>> BY <1>1 DEF Start
  <2> QED BY <2>1, <2>2 DEF AccessIInv
<1>2. CASE Stop BY <1>2 DEF Stop, AccessIInv
<1>3. ASSUME NEW s \in Secrets, NEW form \in Forms, Create(s, form) \/ CreateByHand(s, form)
      PROVE  AccessIInv'
  <2> DEFINE budget == BudgetOf(form.kind, form.amount)
  <2>1. PICK principal \in {form.principal, Trim(form.principal)} :
          Parses(form) /\ MintToken(s, principal, budget)
    BY <1>3 DEF Create, CreateByHand
  <2>2. principal \in Text BY AccessAssumption, TrimText DEF Text
  <2>3. budget \in [kind : {"monthly", "total", "unlimited"}, limit : Int]
    BY <2>1, BudgetType DEF MintToken
  <2> HIDE DEF budget
  <2>4. Row(principal, budget) \in TokenRows BY <2>2, <2>3 DEF Row, TokenRows
  <2>5. tokens' = [tokens EXCEPT ![s] = Row(principal, budget)] /\ UNCHANGED <<served, usage, month>>
    BY <2>1 DEF MintToken
  <2> QED BY <2>4, <2>5 DEF AccessIInv
<1>4. ASSUME NEW s \in Secrets, RevokeToken(s) PROVE AccessIInv'
  <2>1. tokens[s] \in TokenRows BY <1>4 DEF RevokeToken, Live, AccessIInv
  <2>2. [tokens[s] EXCEPT !.revoked = TRUE] \in TokenRows BY <2>1 DEF TokenRows
  <2>3. tokens' = [tokens EXCEPT ![s] = [tokens[s] EXCEPT !.revoked = TRUE]]
    BY <1>4 DEF RevokeToken
  <2>4. UNCHANGED <<served, usage, month>> BY <1>4 DEF RevokeToken
  <2> QED BY <2>2, <2>3, <2>4 DEF AccessIInv
<1>5. ASSUME NEW r \in Requests, NEW cost \in 1..MaxSpent, Spend(r, cost) PROVE AccessIInv'
  <2>1. PICK s : usage' = [usage EXCEPT ![s][month] = @ + cost]
    BY <1>5 DEF Spend
  <2>2. usage' \in [Secrets -> [0..MaxMonth -> Nat]]
    <3>1. cost \in Nat /\ usage \in [Secrets -> [0..MaxMonth -> Nat]] /\ month \in 0..MaxMonth
      BY <1>0 DEF AccessIInv
    <3>2. CASE s \in Secrets
      <4>0. usage[s] \in [0..MaxMonth -> Nat] BY <3>1, <3>2
      <4>4. usage[s][month] \in Nat BY <3>1, <4>0
      <4>1. usage[s] \in [0..MaxMonth -> Nat] /\ usage[s][month] + cost \in Nat BY <3>1, <4>0, <4>4
      <4>2. [usage[s] EXCEPT ![month] = usage[s][month] + cost] \in [0..MaxMonth -> Nat] BY <3>1, <4>1
      <4>3. usage' = [usage EXCEPT ![s] = [usage[s] EXCEPT ![month] = usage[s][month] + cost]]
        BY <2>1
      <4> QED BY <3>1, <4>2, <4>3
    <3>3. CASE s \notin Secrets
      <4>1. usage' = usage BY <2>1, <3>1, <3>3
      <4> QED BY <3>1, <4>1
    <3> QED BY <3>2, <3>3
  <2>3. \A t \in Secrets : \A m \in 0..MaxMonth : m > month => usage'[t][m] = usage[t][m]
    BY <2>1 DEF AccessIInv
  <2>4. UNCHANGED <<served, tokens, month>> BY <1>5 DEF Spend
  <2> QED BY <2>2, <2>3, <2>4 DEF AccessIInv
<1>6. CASE NextMonth
  <2>1. month' = month + 1 /\ month < MaxMonth /\ UNCHANGED <<served, tokens, usage>>
    BY <1>6 DEF NextMonth
  <2>2. month' \in 0..MaxMonth BY <1>0, <2>1 DEF AccessIInv
  <2>3. \A t \in Secrets : \A m \in 0..MaxMonth : m > month' => usage'[t][m] = 0
    BY <2>1 DEF AccessIInv
  <2> QED BY <2>1, <2>2, <2>3 DEF AccessIInv
<1>7. CASE UNCHANGED accessVars BY <1>7 DEF accessVars, AccessIInv
<1> QED BY <1>1, <1>2, <1>3, <1>4, <1>5, <1>6, <1>7 DEF AccessNext
-----------------------------------------------------------------------------
\* What a scope lets through, and under whose name.
Gate(scope, r) ==
  LET a == Authenticate(scope, r)
  IN /\ a.status \in {200, 302, 401}
     /\ a.status = 200 => Presents(scope, r) /\ (Scheme(scope) # "open" => a.principal = Owner(scope, r))
     /\ Presents(scope, r) /\ Reachable(scope) => a.status = 200
     /\ Scheme(scope) = "tokens" /\ a.status = 200 => a.token = Bearer(r.header) /\ Live(a.token)
     /\ Scheme(scope) # "tokens" => a.token = Absent

\* Scheme::apply keeps the promise of every scope that can be configured.
LEMMA GateHolds ==
  ASSUME AccessIInv, NEW c \in Documents, NEW scope \in {c.admin, c.proxy}, NEW r \in Requests
  PROVE  Gate(scope, r)
<1>1. Scheme(scope) \in {"open", "basic", "oidc", "tokens"} BY DEF Scheme
<1>2. CASE Scheme(scope) = "open"
  BY <1>2, AccessAssumption DEF Gate, Authenticate, Presents, Let
<1>3. CASE Scheme(scope) = "oidc"
  <2>1. Authenticate(scope, r) = IF r.session = Absent THEN Turn(302) ELSE Let(r.session, Absent)
    BY <1>3 DEF Authenticate, LoggedIn
  <2>2. Presents(scope, r) <=> r.session # Absent BY <1>3 DEF Presents
  <2>3. Owner(scope, r) = r.session BY <1>3 DEF Owner
  <2> QED BY <1>3, <2>1, <2>2, <2>3 DEF Gate, Let, Turn
<1>4. CASE Scheme(scope) = "tokens"
  <2>1. Authenticate(scope, r) = Tokened(r) BY <1>4 DEF Authenticate
  <2>2. Presents(scope, r) <=> Live(Bearer(r.header))
    BY <1>4, AccessAssumption DEF Presents, Bearer, Live
  <2>3. Live(Bearer(r.header)) => Bearer(r.header) = r.header.credential
    BY AccessAssumption DEF Bearer, Live
  <2> QED BY <1>4, <2>1, <2>2, <2>3 DEF Gate, Tokened, Owner, Let, Turn
<1>5. CASE Scheme(scope) = "basic"
  <2>1. Authenticate(scope, r) = IF Verifies(scope.basic, r.header) THEN Let(scope.basic.username, Absent)
                                 ELSE Turn(401)
    BY <1>5 DEF Authenticate
  <2>2. PICK u \in Text, p \in Text : scope.basic = [username |-> u, password |-> p]
    <3>1. scope # Absent /\ scope.basic # Absent BY <1>5 DEF Scheme
    <3> QED BY <3>1, AccessAssumption DEF Text
  <2>3. u \o <<":">> \o p \in Text /\ u \o <<":">> \o p # Absent
    BY <2>2, JoinText, AccessAssumption DEF Text
  <2>4. Presents(scope, r) <=>
          /\ r.header # Absent /\ r.header.word \in {"Basic", "basic"}
          /\ r.header.credential = u \o <<":">> \o p
    BY <1>5, <2>2 DEF Presents
  <2>5. Verifies(scope.basic, r.header) => Presents(scope, r)
    <3> SUFFICES ASSUME Verifies(scope.basic, r.header) PROVE Presents(scope, r) OBVIOUS
    <3>1. /\ r.header # Absent /\ r.header.word \in {"Basic", "basic"} /\ r.header.credential # Absent
          /\ Colons(r.header.credential) # {}
          /\ Cut(r.header.credential, Min(Colons(r.header.credential))) = Basic(u, p)
      BY <2>2 DEF Verifies, Basic
    <3>2. r.header.credential \in Text BY <3>1, AccessAssumption DEF Text
    <3> QED BY <2>4, <3>1, <3>2, CutJoins
  <2>6. Presents(scope, r) /\ Reachable(scope) => Verifies(scope.basic, r.header)
    <3> SUFFICES ASSUME Presents(scope, r), Reachable(scope) PROVE Verifies(scope.basic, r.header) OBVIOUS
    <3>1. Colons(u) = {} BY <1>5, <2>2 DEF Reachable
    <3>2. r.header.credential \in Text /\ r.header.credential # Absent BY <2>3, <2>4
    <3>3. Colons(r.header.credential) # {}
          /\ Cut(r.header.credential, Min(Colons(r.header.credential))) = Basic(u, p)
      <4>1. PICK text \in Text : text = r.header.credential BY <3>2
      <4>2. text = u \o <<":">> \o p BY <2>4, <4>1
      <4> QED BY <3>1, <4>1, <4>2, CutJoins
    <3> QED BY <2>2, <2>4, <3>2, <3>3 DEF Verifies, Basic
  <2>7. Owner(scope, r) = scope.basic.username BY <1>5 DEF Owner
  <2> QED BY <1>5, <2>1, <2>5, <2>6, <2>7 DEF Gate, Let, Turn
<1> QED BY <1>1, <1>2, <1>3, <1>4, <1>5

\* A chat that its scope refuses is told so; one that it lets in is refused
\* for its user, then for its budget.
LEMMA ChatAnswers ==
  ASSUME AccessIInv, served # Absent, NEW r \in Requests
  PROVE  LET a == Authenticate(served.proxy, r)
             u == ResolvedUser(served, r, a.principal)
         IN /\ a.status # 200 => Chat(r).status = a.status
            /\ a.status = 200 => u.status \in {200, 400, 403}
            /\ a.status = 200 /\ u.status # 200 => Chat(r).status = u.status
            /\ a.status = 200 /\ u.status = 200 =>
                 IF a.token # Absent /\ Exceeded(a.token) THEN Chat(r).status = 429
                 ELSE Chat(r).status = 200 /\ Chat(r).user = u.user
<1> DEFINE a == Authenticate(served.proxy, r)
           u == ResolvedUser(served, r, a.principal)
<1>1. u.status \in {200, 400, 403} BY DEF ResolvedUser, Answer
<1>2. Chat(r) = CASE a.status # 200 -> Answer(a.status, Absent)
                  [] a.status = 200 /\ u.status # 200 -> u
                  [] a.status = 200 /\ u.status = 200 ->
                       IF a.token # Absent /\ Exceeded(a.token) THEN Answer(429, Absent) ELSE u
  BY DEF Chat
<1> HIDE DEF a, u
<1>3. a.status # 200 => Chat(r) = Answer(a.status, Absent) BY <1>2
<1>4. a.status = 200 /\ u.status # 200 => Chat(r) = u BY <1>2
<1>5. a.status = 200 /\ u.status = 200 =>
        Chat(r) = IF a.token # Absent /\ Exceeded(a.token) THEN Answer(429, Absent) ELSE u
  BY <1>2
<1> QED BY <1>1, <1>3, <1>4, <1>5 DEF a, u, Answer

\* The gates of the chat, of the files and of the studio.
LEMMA DoorsAreHeld == AccessIInv /\ served # Absent => DoorsHold
<1> SUFFICES ASSUME AccessIInv, served # Absent, NEW r \in Requests
             PROVE  LET let(scope, status) ==
                          /\ status \notin {302, 401} => Presents(scope, r)
                          /\ Presents(scope, r) /\ Reachable(scope) => status \notin {302, 401}
                    IN /\ let(served.proxy, Chat(r).status) /\ let(served.proxy, FileApi(r))
                       /\ let(served.admin, Studio(r))
  BY DEF DoorsHold
<1>1. served \in Documents BY DEF AccessIInv
<1>2. Gate(served.proxy, r) /\ Gate(served.admin, r) BY <1>1, GateHolds
<1>3. \A scope \in {served.proxy, served.admin} :
        LET status == Authenticate(scope, r).status
        IN /\ status \notin {302, 401} => Presents(scope, r)
           /\ Presents(scope, r) /\ Reachable(scope) => status \notin {302, 401}
  BY <1>2 DEF Gate
<1>4. Chat(r).status \in {302, 401} <=> Authenticate(served.proxy, r).status \in {302, 401}
  <2>1. Authenticate(served.proxy, r).status \in {200, 302, 401} BY <1>2 DEF Gate
  <2>2. CASE Authenticate(served.proxy, r).status # 200 BY <2>2, ChatAnswers
  <2>3. CASE Authenticate(served.proxy, r).status = 200
    <3>1. Chat(r).status \in {200, 400, 403, 429} BY <2>3, ChatAnswers
    <3> QED BY <2>3, <3>1
  <2> QED BY <2>2, <2>3
<1> QED BY <1>3, <1>4 DEF FileApi, Studio

\* A chat that is answered belongs to whom the configuration says.
LEMMA UsersAreHeld == AccessIInv /\ served # Absent => UsersHold
<1> SUFFICES ASSUME AccessIInv, served # Absent, NEW r \in Requests, Chat(r).status = 200
             PROVE  LET bound == served.proxy # Absent
                             /\ (served.proxy.identity = "from_credential" \/ served.proxy.tokens)
                    IN IF bound THEN /\ Chat(r).user = Owner(served.proxy, r)
                                     /\ UserKey(r) \in {Absent, Chat(r).user}
                                     /\ served.default_user_id = Absent
                       ELSE Chat(r).user = (IF UserKey(r) # Absent THEN UserKey(r)
                                            ELSE served.default_user_id)
  BY DEF UsersHold
<1> DEFINE a == Authenticate(served.proxy, r)
           u == ResolvedUser(served, r, a.principal)
           bound == served.proxy # Absent
                      /\ (served.proxy.identity = "from_credential" \/ served.proxy.tokens)
<1>1. served \in Documents /\ Admissible(served) BY DEF AccessIInv
<1>2. Gate(served.proxy, r) BY <1>1, GateHolds
<1>3. a.status = 200 /\ u.status = 200 /\ Chat(r).user = u.user
  <2>1. a.status = 200 BY <1>2, ChatAnswers DEF Gate
  <2>2. u.status = 200 BY <2>1, ChatAnswers
  <2> QED BY <2>1, <2>2, ChatAnswers
<1>4. bound <=> Mode(served) # "from_request"
  <2>1. served.proxy # Absent => served.proxy.identity \in {"from_request", "from_credential"}
    BY <1>1, AccessAssumption
  <2> QED BY <2>1 DEF Mode
<1>5. CASE ~bound
  <2>1. Mode(served) = "from_request" BY <1>4, <1>5
  <2> QED BY <1>3, <1>5, <2>1 DEF ResolvedUser, Answer
<1>6. CASE bound
  <2>1. a.principal # Absent /\ (UserKey(r) = Absent \/ UserKey(r) = a.principal) /\ u.user = a.principal
    BY <1>3, <1>4, <1>6 DEF ResolvedUser, Answer
  <2>2. Scheme(served.proxy) # "open"
    BY <1>6 DEF Scheme
  <2>3. served.default_user_id = Absent BY <1>1, <1>6 DEF Admissible
  <2>4. a.principal = Owner(served.proxy, r) BY <1>2, <1>3, <2>2 DEF Gate
  <2> QED BY <1>3, <1>6, <2>1, <2>3, <2>4
<1> QED BY <1>5, <1>6

\* spend_since adds up the same window as the studio.
LEMMA WindowsAgree ==
  ASSUME AccessIInv, NEW s \in Secrets, Live(s)
  PROVE  LET since == IF tokens[s].budget.kind = "monthly" THEN month ELSE 0
         IN SumFunctionOnSet(usage[s], since..month) = PeriodSpend(s)
<1>1. PICK w, k, D, T : w = usage[s] /\ k = month /\ D = 0..MaxMonth /\ T = 0..k OBVIOUS
<1>2. /\ IsFiniteSet(D) /\ k \in D /\ T \in SUBSET D /\ D \in SUBSET D
      /\ {k} \in SUBSET D /\ {} \in SUBSET D /\ k..k = {k}
  <2>1. MaxMonth \in Nat /\ k \in 0..MaxMonth BY <1>1, AccessAssumption DEF AccessIInv
  <2>2. k..k = {k} BY <2>1
  <2>3. T \in SUBSET D BY <1>1, <2>1
  <2>4. IsFiniteSet(D)
    <3>1. IsFiniteSet(0..MaxMonth) BY <2>1, FS_Interval
    <3> QED BY <1>1, <3>1
  <2>5. k \in D BY <1>1, <2>1
  <2> QED BY <2>2, <2>3, <2>4, <2>5
<1>10. D \subseteq Nat /\ k \in Nat
  <2>1. MaxMonth \in Nat /\ k \in 0..MaxMonth BY <1>1, AccessAssumption DEF AccessIInv
  <2> QED BY <1>1, <2>1
<1>3. \A m \in D : w[m] \in Nat BY <1>1 DEF AccessIInv
<1>4. \A m \in D \ T : w[m] = 0
  <2> SUFFICES ASSUME NEW m \in D, m \notin T PROVE w[m] = 0 OBVIOUS
  <2>1. m \in Nat /\ k \in Nat BY <1>10
  <2>2. m > month BY <1>1, <2>1
  <2> QED BY <1>1, <2>2 DEF AccessIInv
<1>5. \A S : SumFunctionOnSet(w, S) = SumOver(w, S)
  BY DEF SumFunctionOnSet, FoldFunctionOnSet, MapThenFoldSet, SumOver, Folded, Pick
<1>6. DOMAIN w = D BY <1>1 DEF AccessIInv
<1>7. SumFunction(w) = SumOver(w, D) BY <1>5, <1>6 DEF SumFunction
<1>8. CASE tokens[s].budget.kind = "monthly"
  <2>1. PICK M : M = {k} OBVIOUS
  <2>2. M \in SUBSET D /\ k \in M /\ M \ {k} = {} BY <1>2, <2>1
  <2>3. SumOver(w, M) = w[k] + SumOver(w, M \ {k}) BY <1>2, <1>3, <2>2, SumSplit
  <2>4. SumOver(w, {}) = 0 BY <1>2, SumOfSubsets
  <2>5. SumOver(w, M) = w[k] BY <1>2, <1>3, <2>2, <2>3, <2>4
  <2>6. SumFunctionOnSet(w, k..k) = w[k] BY <1>2, <1>5, <2>1, <2>5
  <2> QED BY <1>1, <1>8, <2>6 DEF PeriodSpend
<1>9. CASE tokens[s].budget.kind # "monthly"
  <2>1. T \subseteq D BY <1>2
  <2>2. SumOver(w, T) = SumOver(w, D) BY <1>2, <1>3, <1>4, <2>1, SumMonotone
  <2>3. SumFunctionOnSet(w, T) = SumFunction(w) BY <1>5, <1>7, <2>2
  <2> QED BY <1>1, <1>9, <2>3 DEF PeriodSpend
<1> QED BY <1>8, <1>9

\* check_budget refuses what the studio shows as spent.
LEMMA BudgetsAreHeld == AccessIInv /\ served # Absent => BudgetsHold
<1> SUFFICES ASSUME AccessIInv, served # Absent, NEW r \in Requests,
                    Scheme(served.proxy) = "tokens", Live(Bearer(r.header)),
                    UserKey(r) \in {Absent, tokens[Bearer(r.header)].principal}
             PROVE  LET s == Bearer(r.header)
                    IN Chat(r).status = 429
                         <=> Capped(tokens[s]) /\ PeriodSpend(s) >= tokens[s].budget.limit
  BY DEF BudgetsHold
<1> DEFINE s == Bearer(r.header)
           a == Authenticate(served.proxy, r)
<1>1. s \in Secrets /\ s # Absent /\ tokens[s] \in TokenRows
  BY AccessAssumption DEF Live, AccessIInv
<1>2. a = Let(tokens[s].principal, s) BY DEF Authenticate, Tokened
<1>3. Mode(served) = "from_credential"
  <2>1. Admissible(served) /\ served.proxy # Absent BY DEF AccessIInv, Scheme
  <2>2. ScopeValid(served.proxy) /\ served.proxy.basic = Absent /\ served.proxy.oidc = Absent
    BY <2>1 DEF Admissible, Scheme
  <2>3. Cardinality(Declared(served.proxy)) = 1 BY <2>2 DEF ScopeValid
  <2>4. ASSUME ~served.proxy.tokens PROVE FALSE
    <3>1. Declared(served.proxy) = {} BY <2>2, <2>4 DEF Declared
    <3> QED BY <2>3, <3>1, FS_EmptySet
  <2> QED BY <2>1, <2>4 DEF Mode
<1>4. tokens[s].principal # Absent BY <1>1, AccessAssumption DEF TokenRows, Text
<1>5. ResolvedUser(served, r, a.principal).status = 200
  BY <1>2, <1>3, <1>4 DEF ResolvedUser, Answer, Let
<1>6. a.status = 200 /\ a.token = s BY <1>2 DEF Let
<1>7. Chat(r).status = 429 <=> Exceeded(s)
  BY <1>1, <1>5, <1>6, ChatAnswers
<1> HIDE DEF s
<1>8. Exceeded(s) <=> Capped(tokens[s]) /\ PeriodSpend(s) >= tokens[s].budget.limit
  BY <1>1, WindowsAgree DEF Exceeded, s
<1> QED BY <1>7, <1>8 DEF s

\* Whatever scopes, tokens, budgets and requests there are: nobody gets past a
\* scope, becomes another user or spends past a budget, and none is refused
\* what the configuration and the tokens grant.
THEOREM AccessIsHeld == AccessSpec => []AccessHolds
<1>1. AccessIInv => AccessHolds BY DoorsAreHeld, UsersAreHeld, BudgetsAreHeld DEF AccessHolds
<1> QED BY <1>1, AccessInitIInv, AccessNextIInv, PTL DEF AccessSpec
=============================================================================
