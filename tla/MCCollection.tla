---------------------------- MODULE MCCollection ----------------------------
(* Small instances of Documents for TLC. Bytes are 0..15, a varint goes on    *)
(* at 8, an i64 is one byte (-8..7).                                         *)
EXTENDS Documents, TLC

A == <<1>>
B == <<2>>
Text(n) == Str([i \in 1..n |-> 9])

\* Integers of both signs; strings whose order by bytes is not their order by
\* length; a varint of two groups; a key too large for the compound index; every
\* other type of value; a document too large for the tree.
MCDocs == {
    Obj(<< <<A, I64(3)>>, <<B, Text(1)>> >>),
    Obj(<< <<A, I64(-8)>>,
           <<A \o B, Arr(<<Null, Bool(TRUE), Obj(<< <<B, F64(<<12>>)>>, <<A, Blob(<<0, 15>>)>> >>)>>)>> >>),
    Obj(<< <<B, Text(8)>>, <<A, Str(<<4, 4>>)>> >>),
    Obj(<< <<A, Text(1)>>, <<B, Text(40)>> >>) }

MCEntriesFor(def, id, bytes) == IndexEntries(def, id, Decoded(bytes))
MCDefs == {<<A>>, <<A, B>>}
MCIdLists == {<<1, 1>>, <<2, 1, 2, 1>>}
Symm == Permutations(Procs)
=============================================================================
