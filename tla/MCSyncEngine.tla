---------------------------- MODULE MCSyncEngine ----------------------------
(* Small instances of SyncEngine for TLC: symmetry of the model values.    *)
EXTENDS SyncEngine, TLC

\* Contents are interchangeable within their size class.
ContentSymmetry == Permutations(Contents \ Oversized)
=============================================================================
