-------------------------------- MODULE Sums --------------------------------
(* Running totals.                                                          *)
EXTENDS Integers, Sequences

\* Sums(sizes)[i] is what the first i of sizes take.
Sums(sizes) ==
    LET sum[i \in 0..Len(sizes)] == IF i = 0 THEN 0 ELSE sum[i-1] + sizes[i]
    IN sum
=============================================================================
