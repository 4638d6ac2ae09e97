----------------------------- MODULE MCUploads -----------------------------
(***************************************************************************)
(* Small instances of Uploads: a small and a large file that do not fit    *)
(* the quota together, or files that do.                                   *)
(***************************************************************************)
EXTENDS Uploads, TLC

\* Any one upload of UploadIds is the large one.
MCSizeUnequal == LET large == CHOOSE u \in UploadIds : TRUE
                 IN  [u \in UploadIds |-> IF u = large THEN 2 ELSE 1]
MCSizeEqual   == [u \in UploadIds |-> 1]

Slots    == Permutations(Puts) \cup Permutations(Batches) \cup Permutations(Buckets)
Symmetry == Permutations(UploadIds) \cup Slots
=============================================================================
