------------------------------ MODULE MCBTree ------------------------------
(* Small instances of BTreeScans for TLC.                                  *)
EXTENDS BTreeScans

\* Three of the large entries fill a leaf of 18.  With 2, 3, 4 and 6 in it and
\* 5 put between as a large one, the left half is too long with its slots.
MCValues == [k \in Keys |->
    CASE k \in {2, 3} -> {4} [] k \in {4, 6} -> {5} [] k = 5 -> {4, 6} [] OTHER -> {6}]

\* Long keys at either end, short ones between: a split promotes the last key
\* of a node or, balanced, one before it.
MCKeySize == [k \in Keys |-> IF k \in {2, 3, 8} THEN 8 ELSE 4]
=============================================================================
