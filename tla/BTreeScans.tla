----------------------------- MODULE BTreeScans -----------------------------
(***************************************************************************)
(* Iteration over the trees of BTree (btree.zig's Iterator): a stack of    *)
(* frames, each a node and the place in it that is next, an entry of a     *)
(* leaf or a child of an internal node.                                    *)
(***************************************************************************)
EXTENDS BTree

Frame(n, slot) == [node |-> n, slot |-> slot]

\* Fault seeded for TLC: the child already visited is visited again.
ResumeAtSame(i) == i

\* The place after place i.
ResumeAt(i) == i + 1

\* descendTo: from n down to the leaf that k belongs in, at its first key that
\* is not below k.
DescendTo(n, k) ==
    LET way == Descent(n, k)
        depth == Min({i \in Levels : IsLeaf(way[i])})
    IN [d \in 1..depth+1 |->
           LET node == way[d-1] IN
           Frame(node, IF IsLeaf(node) THEN SlotFor(node.keys, k)
                       ELSE ResumeAt(ChildFor(node.keys, k)))]

\* No key is below Start.
Start == 0
DescendToLeftmost(n) == DescendTo(n, Start)

\* View.iteratorFrom, and View.iterator, which has no key.
IteratorFrom(n, k) == IF n = EmptyNode THEN <<>> ELSE DescendTo(n, k)

HasMore(frame) == frame.slot <= Len(IF IsLeaf(frame.node) THEN frame.node.keys ELSE frame.node.kids)

\* One round of Iterator.next: what has no more is popped, then the next entry
\* is handed out or the next child entered.
Round(it) ==
    LET more == {d \in DOMAIN it.stack : HasMore(it.stack[d])}
        top == it.stack[Max(more)]
        rest == Append(SubSeq(it.stack, 1, Max(more) - 1), Frame(top.node, ResumeAt(top.slot)))
    IN IF more = {} THEN [stack |-> <<>>, out |-> it.out]
       ELSE IF IsLeaf(top.node)
         THEN [stack |-> rest, out |-> Append(it.out, <<top.node.keys[top.slot], top.node.vals[top.slot]>>)]
         ELSE [stack |-> rest \o DescendToLeftmost(top.node.kids[top.slot]), out |-> it.out]

\* An iteration from k, called until it ends: two rounds a key at most, one to
\* enter its leaf and one to hand it out, and one that finds the end.
Rounds == 0..2*NumKeys+1

Walk(n, k) ==
    LET after[r \in Rounds] ==
            IF r = 0 THEN [stack |-> IteratorFrom(n, k), out |-> <<>>] ELSE Round(after[r-1])
    IN after[2*NumKeys+1]

-----------------------------------------------------------------------------
(* An iteration from any key on, or from the start, hands out the entries   *)
(* in ascending order, each once and none missing, and ends                 *)
(* (btree.zig:453-456, the test at 1228): this is what index scans and      *)
(* collection scans rest on.                                                *)
WalkIsSorted ==
    \A c \in Trees, k \in Keys \cup {Start} :
       LET walk == Walk(tree[c], k) IN
       /\ walk.stack = <<>>
       /\ \A i, j \in DOMAIN walk.out : i < j => walk.out[i][1] < walk.out[j][1]
       /\ Range(walk.out) = {<<j, stored[c][j]>> : j \in {x \in Keys : x >= k /\ stored[c][x] # Missing}}
=============================================================================
