--------------------------- MODULE MCSharedPager ---------------------------
(* Small instances of SharedPager for TLC.                                  *)
EXTENDS SharedPager, TLC

Symmetry == Permutations(Procs) \cup Permutations(Keys)
=============================================================================
