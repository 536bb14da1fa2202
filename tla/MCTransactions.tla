--------------------------- MODULE MCTransactions ---------------------------
(* Small instances of Transactions for TLC: in the default collection a     *)
(* document of two values and one of a single value, so that the order of   *)
(* ids and the order of values differ; in a created collection, one.        *)
EXTENDS Transactions

MCUniverse == {<<0, 1, 1>>, <<0, 1, 2>>, <<0, 2, 1>>, <<1, 1, 1>>}
=============================================================================
