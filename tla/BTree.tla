------------------------------- MODULE BTree -------------------------------
(***************************************************************************)
(* The B+Trees of one pager (btree.zig): put with the append hint,         *)
(* copy-on-write insertion with its two ways of splitting, delete, get and *)
(* iteration, inside the pager's transactions.  What abort does to a root  *)
(* is SharedPager's business.                                              *)
(*                                                                         *)
(* A page is the node it holds and a child pointer is the child: that      *)
(* copies leave the old pages alone is SharedPager's business, and whether *)
(* a page is copied or, being dirty, rewritten in place makes no           *)
(* difference to the tree.  The hint is a page number in the code, here    *)
(* the first key of the leaf, which leads to it: between the put that sets *)
(* it and its next use nothing in its tree moves.                          *)
(*                                                                         *)
(* Keys are numbers, in the order of mem.order; entries have sizes, and a  *)
(* node holds what fits.  A value is what its entry takes in a page, its   *)
(* slot in the directory included; a balanced split leaves the slots out   *)
(* of the count, and a page refuses what does not fit.  Operators named    *)
(* for a fault are not part of the specification.                          *)
(***************************************************************************)
EXTENDS Sums, SequencesExt

CONSTANTS
    Trees,      \* collection ids
    NumKeys,
    Values,     \* the values each key may have, each what its entry takes in a leaf
    KeySize,    \* what each key takes in an internal node
    SlotSize,   \* what is the slot's of what an entry takes (slot_size)
    LeafCap,    \* what fits in a leaf
    NodeCap,    \* what fits in an internal node
    MaxHeight,  \* bound: levels of a tree; see README
    MaxOps,     \* bound: puts and deletes of a transaction
    AnyOrder    \* bound: FALSE if the hint is only ever offered keys of its leaf

\* An entry is less than a third of a page, a key less than half of one
\* (max_key_size, max_value_size), and a slot no more than what it leads to.
ASSUME ConstantsAssumption ==
    /\ NumKeys \in Nat /\ SlotSize \in Nat
    /\ Values \in [1..NumKeys -> SUBSET (1..LeafCap)]
    /\ LeafCap \in Nat
    /\ \A k \in 1..NumKeys : \A v \in Values[k] : 2 * SlotSize <= v /\ 3 * v <= LeafCap
    /\ KeySize \in [1..NumKeys -> Nat \ {0}]
    /\ NodeCap \in Nat
    /\ \A k \in 1..NumKeys : 2 * SlotSize <= KeySize[k] /\ 2 * KeySize[k] <= NodeCap
    /\ MaxHeight \in Nat \ {0} /\ MaxOps \in Nat
    /\ AnyOrder \in BOOLEAN

VARIABLES
    tree,    \* bTreeRoot: the tree of each collection, in the transaction if there is one
    hint,    \* txn_append_hint
    ops,     \* operations of the running transaction; 0 outside
    stored   \* history: what was put and not deleted

vars == <<tree, hint, ops, stored>>

Missing == 0

Keys == 1..NumKeys

Leaf(keys, vals) == [keys |-> keys, vals |-> vals, kids |-> <<>>]
Inner(keys, kids) == [keys |-> keys, vals |-> <<>>, kids |-> kids]

\* Root 0, and what deleteRec says of a node that has become empty.
EmptyNode == Leaf(<<>>, <<>>)

IsLeaf(n) == n.kids = <<>>

NoHint == [tree |-> Missing, key |-> Missing]

Nothing == [k \in Keys |-> Missing]

Init ==
    /\ tree = [c \in Trees |-> EmptyNode]
    /\ stored = [c \in Trees |-> Nothing]
    /\ hint = NoHint
    /\ ops = 0

-----------------------------------------------------------------------------
(* Searching.                                                               *)

\* The child to follow: the first whose separator to the right is above k.
ChildFor(keys, k) ==
    LET above == {i \in DOMAIN keys : k < keys[i]}
    IN IF above = {} THEN Len(keys) + 1 ELSE Min(above)

\* The place of k in a leaf: the first key that is not below it.
SlotFor(keys, k) ==
    LET notBelow == {i \in DOMAIN keys : k <= keys[i]}
    IN IF notBelow = {} THEN Len(keys) + 1 ELSE Min(notBelow)

Holds(n, k) == SlotFor(n.keys, k) <= Len(n.keys) /\ n.keys[SlotFor(n.keys, k)] = k

Levels == 0..MaxHeight-1

\* The nodes from n down to the leaf that k belongs in, which ends the way.
Descent(n, k) ==
    LET node[i \in Levels] ==
            IF i = 0 THEN n
            ELSE LET above == node[i-1] IN
                 IF IsLeaf(above) THEN above ELSE above.kids[ChildFor(above.keys, k)]
    IN node

LeafFor(n, k) == Descent(n, k)[MaxHeight-1]

\* View.get, getInto.
Get(n, k) ==
    LET leaf == LeafFor(n, k)
    IN IF Holds(leaf, k) THEN leaf.vals[SlotFor(leaf.keys, k)] ELSE Missing

-----------------------------------------------------------------------------
(* Insertion.  The result is the new node and, if it was split, what to     *)
(* promote: a key and the node on its right.                                *)

\* What entries of these sizes take.
Size(sizes) == Sums(sizes)[Len(sizes)]

LeafFits(vals) == Size(vals) <= LeafCap

Whole(n) == [node |-> n, split |-> <<>>]
Halves(left, key, right) == [node |-> left, split |-> <<[key |-> key, right |-> right]>>]

\* leafEntrySize, internalEntrySize: what the entries take without their slots.
EntrySizes(sizes) == [i \in DOMAIN sizes |-> sizes[i] - SlotSize]

\* balancedLeafSplit, balancedInternalSplit: how many make up more than a half.
BalancedSplit(sizes) ==
    LET entries == EntrySizes(sizes)
    IN Min({i \in DOMAIN sizes : Sums(entries)[i] > Size(entries) \div 2})

SplitLeaf(keys, vals, at) ==
    Halves(Leaf(SubSeq(keys, 1, at), SubSeq(vals, 1, at)),
           keys[at + 1],
           Leaf(SubSeq(keys, at + 1, Len(keys)), SubSeq(vals, at + 1, Len(vals))))

\* insertIntoLeafCow, and tryInsertLeafInPlace, which does the same in a dirty
\* page when the key is new and fits.
InsertIntoLeaf(n, k, v) ==
    LET slot == SlotFor(n.keys, k)
        keys == IF Holds(n, k) THEN n.keys ELSE InsertAt(n.keys, slot, k)
        vals == IF Holds(n, k) THEN [n.vals EXCEPT ![slot] = v] ELSE InsertAt(n.vals, slot, v)
    IN IF LeafFits(vals) THEN Whole(Leaf(keys, vals))
       ELSE SplitLeaf(keys, vals, IF slot > Len(n.keys) THEN Len(n.keys) ELSE BalancedSplit(vals))

\* Fault seeded for TLC: the left half is not looked at.
RightHalfFits(result) == \A i \in DOMAIN result.split : LeafFits(result.split[i].right.vals)

\* buildLeaf refuses neither the leaf nor, if it was split, its other half.
LeavesFit(result) ==
    /\ LeafFits(result.node.vals)
    /\ \A i \in DOMAIN result.split : LeafFits(result.split[i].right.vals)

SizesOf(keys) == [i \in DOMAIN keys |-> KeySize[keys[i]]]
NodeFits(keys) == Size(SizesOf(keys)) <= NodeCap

\* The key to promote from an internal node that is too full.
PromotedSlot(keys, atEnd) ==
    IF atEnd THEN Len(keys) ELSE Min({Len(keys), BalancedSplit(SizesOf(keys)) + 1})

\* Fault seeded for TLC: the promoted key's child goes to its left.
InsertIntoInternalLeft(n, i, child) ==
    LET kids == [n.kids EXCEPT ![i] = child.node]
        up == child.split[1]
        slot == ChildFor(n.keys, up.key)
    IN IF child.split = <<>> THEN Whole(Inner(n.keys, kids))
       ELSE Whole(Inner(InsertAt(n.keys, slot, up.key), InsertAt(kids, slot, up.right)))

\* insertIntoInternalCow: child i has become child.node and perhaps a second.
InsertIntoInternal(n, i, child) ==
    LET kids == [n.kids EXCEPT ![i] = child.node]
        up == child.split[1]
        slot == ChildFor(n.keys, up.key)
        newKeys == InsertAt(n.keys, slot, up.key)
        newKids == InsertAt(kids, slot + 1, up.right)
        m == PromotedSlot(newKeys, slot > Len(n.keys))
    IN IF child.split = <<>> THEN Whole(Inner(n.keys, kids))
       ELSE IF NodeFits(newKeys) THEN Whole(Inner(newKeys, newKids))
       ELSE Halves(Inner(SubSeq(newKeys, 1, m - 1), SubSeq(newKids, 1, m)),
                   newKeys[m],
                   Inner(SubSeq(newKeys, m + 1, Len(newKeys)), SubSeq(newKids, m + 1, Len(newKids))))

-----------------------------------------------------------------------------
(* Deletion: deleteRec.  No merging; an empty node is dropped and an        *)
(* internal node with one child left gives way to it.                       *)

DropChild(n, i) ==
    LET keys == RemoveAt(n.keys, IF i = 1 THEN 1 ELSE i - 1)
        kids == RemoveAt(n.kids, i)
    IN IF Len(n.kids) = 1 THEN EmptyNode
       ELSE IF Len(kids) = 1 THEN kids[1] ELSE Inner(keys, kids)

\* deleteRec at a leaf that has k.
RemoveFromLeaf(n, k) ==
    LET slot == SlotFor(n.keys, k)
    IN Leaf(RemoveAt(n.keys, slot), RemoveAt(n.vals, slot))

-----------------------------------------------------------------------------
(* The way back up of insertRec and deleteRec.  An insertion never empties  *)
(* a child and a deletion never splits one.                                 *)

Joined(n, i, child) ==
    IF child.node = EmptyNode THEN Whole(DropChild(n, i)) ELSE InsertIntoInternal(n, i, child)

\* n after the leaf that k belongs in has become leaf, split or not.
Rebuilt(n, k, leaf) ==
    LET way == Descent(n, k)
        up[i \in Levels] ==      \* the node that is i levels above the last one
            LET node == way[MaxHeight-1-i] IN
            IF IsLeaf(node) THEN leaf ELSE Joined(node, ChildFor(node.keys, k), up[i-1])
    IN up[MaxHeight-1]

Insert(n, k, v) == Rebuilt(n, k, InsertIntoLeaf(LeafFor(n, k), k, v))

DeleteFrom(n, k) == Rebuilt(n, k, Whole(RemoveFromLeaf(LeafFor(n, k), k))).node

\* putTxn's descent: a root that was split gets a new root above it.
Grown(result) ==
    IF result.split = <<>> THEN result.node
    ELSE Inner(<<result.split[1].key>>, <<result.node, result.split[1].right>>)

-----------------------------------------------------------------------------
(* The operations, in a transaction of the pager; the first one begins it.  *)

InTxn == ops > 0

HintLeaf == LeafFor(tree[hint.tree], hint.key)

\* The append fast path: the hint's leaf has room, and k is above its keys.
TakesHint(c, k, v) ==
    /\ tree[c] # EmptyNode
    /\ hint # NoHint
    /\ k > Last(HintLeaf.keys)
    /\ LeafFits(Append(HintLeaf.vals, v))

Begun ==
    /\ ops < MaxOps
    /\ ops' = ops + 1

\* What a descent makes of the leaf of k.
LeafWith(c, k, v) == InsertIntoLeaf(LeafFor(tree[c], k), k, v)

\* Any order, or else a key that a descent would bring to the hint's leaf.
MayOffer(c, k, v) ==
    TakesHint(c, k, v) => AnyOrder \/ (hint.tree = c /\ HintLeaf = LeafFor(tree[c], k))

\* putTxn with the hint: the leaf is the hint's, whatever c is.
PutAtHint(c, k, v) ==
    /\ TakesHint(c, k, v)
    /\ LET leaf == Leaf(Append(HintLeaf.keys, k), Append(HintLeaf.vals, v))
       IN tree' = [tree EXCEPT ![hint.tree] = Rebuilt(@, hint.key, Whole(leaf)).node]
    /\ UNCHANGED hint

\* putTxn without it: descend, and remember the leaf unless it was split.
PutByDescent(c, k, v) ==
    /\ ~TakesHint(c, k, v)
    /\ LeavesFit(LeafWith(c, k, v))
    /\ tree' = [tree EXCEPT ![c] = Grown(Insert(@, k, v))]
    /\ \A j \in Keys : IsLeaf(LeafFor(tree'[c], j))       \* no higher than MaxHeight
    /\ LET result == LeafWith(c, k, v)
       IN hint' = IF result.split = <<>>
                  THEN [tree |-> c, key |-> Head(result.node.keys)]
                  ELSE NoHint

\* BTree.put that fails with ValueTooLarge before it has written a page; the
\* transaction goes on.  The hint is forgotten if k was above its leaf's keys.
PutRefused(c, k, v) ==
    /\ Begun
    /\ ~TakesHint(c, k, v)
    /\ ~LeavesFit(LeafWith(c, k, v))
    /\ hint' = IF hint # NoHint /\ k > Last(HintLeaf.keys) THEN NoHint ELSE hint
    /\ UNCHANGED <<tree, stored>>

\* BTree.put.
Put(c, k, v) ==
    /\ Begun
    /\ MayOffer(c, k, v)
    /\ PutAtHint(c, k, v) \/ PutByDescent(c, k, v)
    /\ stored' = [stored EXCEPT ![c][k] = v]

\* BTree.delete of a key that is found.
Delete(c, k) ==
    /\ Begun
    /\ Holds(LeafFor(tree[c], k), k)
    /\ tree' = [tree EXCEPT ![c] = DeleteFrom(@, k)]
    /\ hint' = NoHint
    /\ stored' = [stored EXCEPT ![c][k] = Missing]

\* BTree.delete of a key that is not: the transaction has begun, no more.
DeleteMissing(c, k) ==
    /\ Begun
    /\ ~Holds(LeafFor(tree[c], k), k)
    /\ UNCHANGED <<tree, hint>>
    /\ stored' = [stored EXCEPT ![c][k] = Missing]

\* Pager.applyAndFinalize.
Commit ==
    /\ InTxn
    /\ hint' = NoHint
    /\ ops' = 0
    /\ UNCHANGED <<tree, stored>>

Next ==
    \/ \E c \in Trees, k \in Keys : \E v \in Values[k] : Put(c, k, v) \/ PutRefused(c, k, v)
    \/ \E c \in Trees, k \in Keys : Delete(c, k) \/ DeleteMissing(c, k)
    \/ Commit

Spec == Init /\ [][Next]_vars

-----------------------------------------------------------------------------
(* Properties.                                                              *)

\* What a page can be.
IsNode(n) ==
    \/ /\ IsLeaf(n)
       /\ Len(n.keys) = Len(n.vals) /\ Size(n.vals) <= LeafCap
       /\ \A i \in DOMAIN n.keys : n.keys[i] \in Keys /\ n.vals[i] \in Values[n.keys[i]]
    \/ /\ n.vals = <<>> /\ Len(n.kids) = Len(n.keys) + 1
       /\ Range(n.keys) \subseteq Keys /\ Size(SizesOf(n.keys)) <= NodeCap

(* The types of the variables; every node of a tree fits its page, and each   *)
(* way down ends in a leaf.                                                   *)
TypeOK ==
    /\ \A c \in Trees, k \in Keys :
          /\ \A i \in Levels : IsNode(Descent(tree[c], k)[i])
          /\ IsLeaf(LeafFor(tree[c], k))
          /\ stored[c][k] \in Values[k] \cup {Missing}
    /\ hint # NoHint => hint.tree \in Trees /\ hint.key \in Keys
    /\ ops \in 0..MaxOps

(* A tree is a map: get finds each key that was put, with its last value,   *)
(* and nothing else, through any sequence of splits, drops and collapses    *)
(* (btree.zig:1-6, the tests at 1198-1400).                                 *)
GetIsLookup ==
    \A c \in Trees, k \in Keys : Get(tree[c], k) = stored[c][k]

(* A key and a value within the limits always find a page: when a leaf is    *)
(* full, put splits it (btree.zig:764-767, the test at 1360).  It is not so: *)
(* the halves are made equal without their slots and must fit with them.     *)
PutsFindRoom ==
    \A c \in Trees, k \in Keys : \A v \in Values[k] :
       TakesHint(c, k, v) \/ LeavesFit(LeafWith(c, k, v))
=============================================================================
