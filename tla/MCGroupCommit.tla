--------------------------- MODULE MCGroupCommit ---------------------------
(* Small instances of GroupCommit for TLC.                                  *)
EXTENDS GroupCommit, TLC

Symmetry == Permutations(Threads)
=============================================================================
