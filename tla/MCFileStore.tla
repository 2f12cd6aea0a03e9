----------------------------- MODULE MCFileStore -----------------------------
(* FileStore for TLC: f1 and f3 carry the same bytes, f2 and f4 fill the    *)
(* quota together with one of them, f5 exceeds the quota and f6 the limit   *)
(* for a single file.                                                       *)
EXTENDS FileStore, TLC

CONSTANTS f1, f2, f3, f4, f5, f6

Contents == f1 :> "a" @@ f2 :> "b" @@ f3 :> "a" @@ f4 :> "c" @@ f5 :> "d" @@ f6 :> "e"
Bytes    == f1 :> 1 @@ f2 :> 2 @@ f3 :> 1 @@ f4 :> 2 @@ f5 :> 4 @@ f6 :> 5

MCSha  == [f \in Files |-> Contents[f]]
MCSize == [f \in Files |-> Bytes[f]]

\* Contents are only compared: swapping two files of one content, or two
\* contents of one size, changes nothing.
Symmetry == Permutations({f1, f3}) \cup Permutations({f2, f4})
==============================================================================
