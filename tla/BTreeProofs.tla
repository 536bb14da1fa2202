---------------------------- MODULE BTreeProofs ----------------------------
(***************************************************************************)
(* A B+Tree is a map: for any number of keys, any sizes and any heights,   *)
(* through every sequence of puts, splits, deletes and collapses; proved   *)
(* with TLAPS.                                                             *)
(*                                                                         *)
(* SearchTree is what a subtree is, with the bounds its keys keep to and a *)
(* height.  Result says the same of what an operation makes of a subtree:  *)
(* it is empty, or a search tree, or split into two.  A leaf gives a       *)
(* Result, and each level of the way back up turns one into another.       *)
(***************************************************************************)
EXTENDS BTreeScans, NumberTheorems

-----------------------------------------------------------------------------
(* Sequences.                                                               *)

IsSequence(s) == \E S : s \in Seq(S)

(* The values of a sequence may be of any set. *)
LEMMA SequenceShape ==
  ASSUME NEW s, IsSequence(s)
  PROVE  /\ Len(s) \in Nat /\ DOMAIN s = 1..Len(s)
         /\ s = <<>> <=> Len(s) = 0
<1>1. PICK S : s \in Seq(S)
  BY DEF IsSequence
<1>2. Len(s) \in Nat /\ DOMAIN s = 1..Len(s)
  BY <1>1, LenProperties
<1>3. s = <<>> <=> Len(s) = 0
  BY <1>1, EmptySeq
<1> QED
  BY <1>2, <1>3

(* Parts. *)
LEMMA SubSeqIs ==
  ASSUME NEW S, NEW s \in Seq(S), NEW m \in 1..Len(s)+1, NEW n \in 0..Len(s)
  PROVE  /\ SubSeq(s, m, n) \in Seq(S)
         /\ Len(SubSeq(s, m, n)) = IF m <= n THEN n - m + 1 ELSE 0
         /\ \A i \in 1..(n - m + 1) : SubSeq(s, m, n)[i] = s[m + i - 1]
<1>1. \A i \in m..n : s[i] \in S
  BY ElementOfSeq, LenProperties
<1>2. m \in Int /\ n \in Int
  BY LenProperties
<1>3. /\ SubSeq(s, m, n) \in Seq(S)
      /\ Len(SubSeq(s, m, n)) = IF m <= n THEN n - m + 1 ELSE 0
      /\ \A i \in 1..(n - m + 1) : SubSeq(s, m, n)[i] = s[m + i - 1]
  BY <1>1, <1>2, SubSeqProperties
<1> QED
  BY <1>3

\* t is the m elements of s after the first a.
IsPart(t, s, a, m) == Len(t) = m /\ \A i \in 1..m : t[i] = s[a+i]

(* The first m elements, and the others. *)
LEMMA PartsAre ==
  ASSUME NEW S, NEW s \in Seq(S), NEW m \in 0..Len(s)
  PROVE  /\ SubSeq(s, 1, m) \in Seq(S) /\ IsPart(SubSeq(s, 1, m), s, 0, m)
         /\ SubSeq(s, m+1, Len(s)) \in Seq(S) /\ IsPart(SubSeq(s, m+1, Len(s)), s, m, Len(s) - m)
<1> DEFINE L == Len(s)
           a == SubSeq(s, 1, m)
           c == SubSeq(s, m+1, L)
<1>1. L \in Nat /\ m \in Nat /\ m <= L /\ 1 \in 1..L+1 /\ m + 1 \in 1..L+1 /\ L \in 0..L
  BY LenProperties
<1>2. a \in Seq(S) /\ IsPart(a, s, 0, m)
  <2>1. /\ a \in Seq(S) /\ Len(a) = IF 1 <= m THEN m - 1 + 1 ELSE 0
        /\ \A i \in 1..(m - 1 + 1) : a[i] = s[1 + i - 1]
    BY <1>1, SubSeqIs
  <2>2. /\ m = (IF 1 <= m THEN m - 1 + 1 ELSE 0) /\ m - 1 + 1 = m
        /\ \A i \in 1..m : 1 + i - 1 = 0 + i
    BY <1>1
  <2> HIDE DEF a
  <2> QED
    BY <2>1, <2>2 DEF IsPart
<1>3. c \in Seq(S) /\ IsPart(c, s, m, L - m)
  <2>1. /\ c \in Seq(S) /\ Len(c) = IF m+1 <= L THEN L - (m+1) + 1 ELSE 0
        /\ \A i \in 1..(L - (m+1) + 1) : c[i] = s[(m+1) + i - 1]
    BY <1>1, SubSeqIs
  <2>2. /\ L - m = (IF m+1 <= L THEN L - (m+1) + 1 ELSE 0) /\ L - (m+1) + 1 = L - m
        /\ \A i \in 1..(L - m) : (m+1) + i - 1 = m + i
    BY <1>1
  <2> HIDE DEF c
  <2> QED
    BY ZenonT(40), <2>1, <2>2 DEF IsPart
<1> QED
  BY <1>2, <1>3

\* t is s with e put in at p.
IsInserted(t, s, p, e) ==
    /\ Len(t) = Len(s) + 1
    /\ \A i \in 1..Len(s)+1 : t[i] = IF i < p THEN s[i] ELSE IF i = p THEN e ELSE s[i-1]

(* An element more. *)
LEMMA InsertAtIs ==
  ASSUME NEW S, NEW s \in Seq(S), NEW p \in 1..Len(s)+1, NEW e \in S
  PROVE  InsertAt(s, p, e) \in Seq(S) /\ IsInserted(InsertAt(s, p, e), s, p, e)
<1> DEFINE a == SubSeq(s, 1, p-1)
           b == <<e>>
           c == SubSeq(s, p, Len(s))
<1>1. Len(s) \in Nat /\ p \in Nat /\ 1 \in 1..Len(s)+1 /\ p - 1 \in 0..Len(s) /\ Len(s) \in 0..Len(s)
  BY LenProperties
<1>2. /\ a \in Seq(S) /\ Len(a) = p - 1
      /\ \A i \in 1..(p - 1) : a[i] = s[i]
  <2>1. /\ a \in Seq(S) /\ Len(a) = IF 1 <= p-1 THEN (p-1) - 1 + 1 ELSE 0
        /\ \A i \in 1..((p-1) - 1 + 1) : a[i] = s[1 + i - 1]
    BY <1>1, SubSeqIs
  <2>2. p - 1 = IF 1 <= p-1 THEN (p-1) - 1 + 1 ELSE 0
    BY <1>1
  <2>3. (p-1) - 1 + 1 = p - 1 /\ \A i \in 1..(p-1) : 1 + i - 1 = i
    BY <1>1
  <2> HIDE DEF a
  <2> QED
    BY <2>1, <2>2, <2>3
<1>3. b \in Seq(S) /\ Len(b) = 1 /\ b[1] = e
  OBVIOUS
<1>4. /\ c \in Seq(S) /\ Len(c) = Len(s) - p + 1
      /\ \A i \in 1..(Len(s) - p + 1) : c[i] = s[p + i - 1]
  <2>1. /\ c \in Seq(S) /\ Len(c) = IF p <= Len(s) THEN Len(s) - p + 1 ELSE 0
        /\ \A i \in 1..(Len(s) - p + 1) : c[i] = s[p + i - 1]
    BY <1>1, SubSeqIs
  <2>2. Len(s) - p + 1 = IF p <= Len(s) THEN Len(s) - p + 1 ELSE 0
    BY <1>1
  <2> HIDE DEF c
  <2> QED
    BY <2>1, <2>2
<1> HIDE DEF a, b, c
<1>5. /\ a \o b \in Seq(S) /\ Len(a \o b) = p
      /\ \A i \in 1..p : (a \o b)[i] = IF i < p THEN s[i] ELSE e
  <2>1. /\ a \o b \in Seq(S) /\ Len(a \o b) = Len(a) + Len(b)
        /\ \A i \in 1..Len(a)+Len(b) : (a \o b)[i] = IF i <= Len(a) THEN a[i] ELSE b[i-Len(a)]
    BY <1>2, <1>3, ConcatProperties
  <2>2. Len(a) + Len(b) = p
    BY <1>1, <1>2, <1>3
  <2>3. ASSUME NEW i \in 1..p PROVE (a \o b)[i] = IF i < p THEN s[i] ELSE e
    <3>1. (a \o b)[i] = IF i <= p - 1 THEN a[i] ELSE b[i - (p-1)]
      BY <1>2, <2>1, <2>2
    <3>2. CASE i < p
      <4>1. i <= p - 1 /\ i \in 1..(p-1)
        BY <1>1, <3>2
      <4> QED
        BY <1>2, <3>1, <3>2, <4>1
    <3>3. CASE ~(i < p)
      <4>1. ~(i <= p - 1) /\ i - (p - 1) = 1
        BY <1>1, <3>3
      <4> QED
        BY <1>3, <3>1, <3>3, <4>1
    <3> QED
      BY <3>2, <3>3
  <2> QED
    BY <2>1, <2>2, <2>3
<1> DEFINE d == a \o b
<1> HIDE DEF d
<1>6. /\ d \o c \in Seq(S) /\ Len(d \o c) = Len(d) + Len(c)
      /\ \A i \in 1..Len(d)+Len(c) : (d \o c)[i] = IF i <= Len(d) THEN d[i] ELSE c[i-Len(d)]
  <2>1. d \in Seq(S)
    BY <1>5 DEF d
  <2> QED
    BY <1>4, <2>1, ConcatProperties
<1>7. Len(d) + Len(c) = Len(s) + 1 /\ Len(d) = p
  BY <1>1, <1>4, <1>5 DEF d
<1>8. ASSUME NEW i \in 1..Len(s)+1
      PROVE  (d \o c)[i] = IF i < p THEN s[i] ELSE IF i = p THEN e ELSE s[i-1]
  <2>1. (d \o c)[i] = IF i <= p THEN d[i] ELSE c[i-p]
    BY <1>6, <1>7
  <2>2. CASE i <= p
    <3>1. i \in 1..p /\ i \in Nat /\ (~(i < p) => i = p)
      BY <1>1, <2>2
    <3>2. d[i] = IF i < p THEN s[i] ELSE e
      BY <1>5, <3>1 DEF d
    <3> QED
      BY <1>1, <2>1, <2>2, <3>1, <3>2
  <2>3. CASE ~(i <= p)
    <3>1. /\ i - p \in 1..(Len(s) - p + 1) /\ p + (i - p) - 1 = i - 1
          /\ ~(i < p) /\ i # p
      BY <1>1, <2>3
    <3>2. c[i-p] = s[p + (i-p) - 1]
      BY <1>4, <3>1
    <3> QED
      BY <2>1, <2>3, <3>1, <3>2
  <2> QED
    BY <2>2, <2>3
<1>9. InsertAt(s, p, e) = d \o c
  BY DEF InsertAt, a, b, c, d
<1>10. IsInserted(d \o c, s, p, e)
  BY <1>6, <1>7, <1>8 DEF IsInserted
<1> QED
  BY <1>6, <1>9, <1>10

\* t is s without its element at p.
IsRemoved(t, s, p) ==
    /\ Len(t) = Len(s) - 1
    /\ \A i \in 1..Len(s)-1 : t[i] = IF i < p THEN s[i] ELSE s[i+1]

(* An element less. *)
LEMMA RemoveAtIs ==
  ASSUME NEW S, NEW s \in Seq(S), NEW p \in 1..Len(s)
  PROVE  RemoveAt(s, p) \in Seq(S) /\ IsRemoved(RemoveAt(s, p), s, p)
<1> DEFINE a == SubSeq(s, 1, p-1)
           c == SubSeq(s, p+1, Len(s))
<1>1. /\ Len(s) \in Nat /\ p \in Nat /\ 1 \in 1..Len(s)+1 /\ p + 1 \in 1..Len(s)+1
      /\ p - 1 \in 0..Len(s) /\ Len(s) \in 0..Len(s) /\ 1 <= p /\ p <= Len(s)
  BY LenProperties
<1>2. /\ a \in Seq(S) /\ Len(a) = p - 1
      /\ \A i \in 1..(p - 1) : a[i] = s[i]
  <2>1. /\ a \in Seq(S) /\ Len(a) = IF 1 <= p-1 THEN (p-1) - 1 + 1 ELSE 0
        /\ \A i \in 1..((p-1) - 1 + 1) : a[i] = s[1 + i - 1]
    BY <1>1, SubSeqIs
  <2>2. p - 1 = IF 1 <= p-1 THEN (p-1) - 1 + 1 ELSE 0
    BY <1>1
  <2>3. (p-1) - 1 + 1 = p - 1 /\ \A i \in 1..(p-1) : 1 + i - 1 = i
    BY <1>1
  <2> HIDE DEF a
  <2> QED
    BY <2>1, <2>2, <2>3
<1>3. /\ c \in Seq(S) /\ Len(c) = Len(s) - p
      /\ \A i \in 1..(Len(s) - p) : c[i] = s[p + i]
  <2>1. /\ c \in Seq(S) /\ Len(c) = IF p+1 <= Len(s) THEN Len(s) - (p+1) + 1 ELSE 0
        /\ \A i \in 1..(Len(s) - (p+1) + 1) : c[i] = s[(p+1) + i - 1]
    BY <1>1, SubSeqIs
  <2>2. Len(s) - p = IF p+1 <= Len(s) THEN Len(s) - (p+1) + 1 ELSE 0
    BY <1>1
  <2>3. Len(s) - (p+1) + 1 = Len(s) - p /\ \A i \in 1..(Len(s) - p) : (p+1) + i - 1 = p + i
    BY <1>1
  <2> HIDE DEF c
  <2> QED
    BY ZenonT(40), <2>1, <2>2, <2>3
<1> HIDE DEF a, c
<1>4. /\ a \o c \in Seq(S) /\ Len(a \o c) = Len(a) + Len(c)
      /\ \A i \in 1..Len(a)+Len(c) : (a \o c)[i] = IF i <= Len(a) THEN a[i] ELSE c[i-Len(a)]
  BY <1>2, <1>3, ConcatProperties
<1>5. Len(a) + Len(c) = Len(s) - 1
  BY <1>1, <1>2, <1>3
<1>6. ASSUME NEW i \in 1..Len(s)-1
      PROVE  (a \o c)[i] = IF i < p THEN s[i] ELSE s[i+1]
  <2>1. (a \o c)[i] = IF i <= p - 1 THEN a[i] ELSE c[i - (p - 1)]
    BY <1>2, <1>4, <1>5
  <2>2. CASE i < p
    <3>1. i <= p - 1 /\ i \in 1..(p-1)
      BY <1>1, <2>2
    <3> QED
      BY <1>2, <2>1, <2>2, <3>1
  <2>3. CASE ~(i < p)
    <3>1. ~(i <= p - 1) /\ i - (p - 1) \in 1..(Len(s) - p) /\ p + (i - (p - 1)) = i + 1
      BY <1>1, <2>3
    <3> QED
      BY <1>3, <2>1, <2>3, <3>1
  <2> QED
    BY <2>2, <2>3
<1>7. RemoveAt(s, p) = a \o c
  BY DEF RemoveAt, a, c
<1>8. IsRemoved(a \o c, s, p)
  BY <1>4, <1>5, <1>6 DEF IsRemoved
<1> QED
  BY <1>4, <1>7, <1>8
-----------------------------------------------------------------------------
(* Searching in a node.                                                     *)

Ascending(keys) == \A i, j \in 1..Len(keys) : i < j => keys[i] < keys[j]

(* The child to follow has the separators up to k on its left. *)
LEMMA ChildForIs ==
  ASSUME NEW keys \in Seq(Nat), Ascending(keys), NEW k \in Nat
  PROVE  /\ ChildFor(keys, k) \in 1..Len(keys)+1
         /\ \A i \in 1..Len(keys) : i < ChildFor(keys, k) => keys[i] <= k
         /\ \A i \in 1..Len(keys) : ChildFor(keys, k) <= i => k < keys[i]
<1> DEFINE above == {i \in DOMAIN keys : k < keys[i]}
<1>1. Len(keys) \in Nat /\ DOMAIN keys = 1..Len(keys) /\ \A i \in 1..Len(keys) : keys[i] \in Nat
  BY LenProperties, ElementOfSeq
<1>2. CASE above = {}
  <2>1. ChildFor(keys, k) = Len(keys) + 1
    BY <1>2 DEF ChildFor
  <2>2. \A i \in 1..Len(keys) : ~(k < keys[i])
    BY <1>1, <1>2
  <2> QED
    BY <1>1, <2>1, <2>2
<1>3. CASE above # {}
  <2>1. ChildFor(keys, k) = Min(above)
    BY <1>3 DEF ChildFor
  <2>2. above \in SUBSET Nat
    BY <1>1
  <2>3. Min(above) \in above /\ \A i \in above : Min(above) <= i
    <3> HIDE DEF above
    <3> QED
      BY <1>3, <2>2, MinIsLeast
  <2> DEFINE m == Min(above)
  <2>4. m \in 1..Len(keys) /\ k < keys[m]
    BY <1>1, <2>3
  <2>5. ASSUME NEW i \in 1..Len(keys), i < m PROVE ~(k < keys[i])
    <3>1. m \in Nat /\ i \in Nat /\ ~(m <= i)
      BY <1>1, <2>4, <2>5
    <3>2. i \notin above
      BY <2>3, <3>1
    <3> QED
      BY <1>1, <3>2
  <2> HIDE DEF m
  <2>6. ASSUME NEW i \in 1..Len(keys), m <= i PROVE k < keys[i]
    <3>1. CASE m = i
      BY <2>4, <3>1
    <3>2. CASE m < i
      <4>1. keys[m] < keys[i]
        BY <2>4, <3>2 DEF Ascending
      <4> DEFINE x == keys[m]
                 y == keys[i]
      <4>2. x \in Nat /\ y \in Nat /\ k < x /\ x < y
        BY <1>1, <2>4, <4>1
      <4> HIDE DEF x, y
      <4>3. k < y
        BY <4>2
      <4> QED
        BY <4>3 DEF y
    <3> QED
      BY <1>1, <2>4, <2>6, <3>1, <3>2
  <2>7. \A i \in 1..Len(keys) : i < m => keys[i] <= k
    BY <1>1, <2>5
  <2> QED
    BY <1>1, <2>1, <2>4, <2>6, <2>7 DEF m
<1> QED
  BY <1>2, <1>3

(* It is the only one. *)
LEMMA ChildForUnique ==
  ASSUME NEW keys \in Seq(Nat), Ascending(keys), NEW k \in Nat, NEW i \in 1..Len(keys)+1,
         \A j \in 1..Len(keys) : j < i => keys[j] <= k,
         \A j \in 1..Len(keys) : i <= j => k < keys[j]
  PROVE  ChildFor(keys, k) = i
<1> DEFINE c == ChildFor(keys, k)
<1>1. /\ c \in 1..Len(keys)+1
      /\ \A j \in 1..Len(keys) : j < c => keys[j] <= k
      /\ \A j \in 1..Len(keys) : c <= j => k < keys[j]
  BY ChildForIs
<1>2. Len(keys) \in Nat /\ \A j \in 1..Len(keys) : keys[j] \in Nat
  BY LenProperties, ElementOfSeq
<1> HIDE DEF c
<1>3. ASSUME c < i PROVE FALSE
  <2>1. c \in 1..Len(keys) /\ c <= c
    BY <1>1, <1>2, <1>3
  <2>2. keys[c] <= k /\ k < keys[c] /\ keys[c] \in Nat
    BY <1>1, <1>2, <1>3, <2>1
  <2> QED
    BY <2>2
<1>4. ASSUME i < c PROVE FALSE
  <2>1. i \in 1..Len(keys) /\ i <= i
    BY <1>1, <1>2, <1>4
  <2>2. keys[i] <= k /\ k < keys[i] /\ keys[i] \in Nat
    BY <1>1, <1>2, <1>4, <2>1
  <2> QED
    BY <2>2
<1>5. c \in Nat /\ i \in Nat
  BY <1>1, <1>2
<1> QED
  BY <1>3, <1>4, <1>5 DEF c

(* The place of a key in a leaf. *)
LEMMA SlotForIs ==
  ASSUME NEW keys \in Seq(Nat), Ascending(keys), NEW k \in Nat
  PROVE  /\ SlotFor(keys, k) \in 1..Len(keys)+1
         /\ \A i \in 1..Len(keys) : i < SlotFor(keys, k) => keys[i] < k
         /\ \A i \in 1..Len(keys) : SlotFor(keys, k) <= i => k <= keys[i]
<1> DEFINE notBelow == {i \in DOMAIN keys : k <= keys[i]}
<1>1. Len(keys) \in Nat /\ DOMAIN keys = 1..Len(keys) /\ \A i \in 1..Len(keys) : keys[i] \in Nat
  BY LenProperties, ElementOfSeq
<1>2. CASE notBelow = {}
  <2>1. SlotFor(keys, k) = Len(keys) + 1
    BY <1>2 DEF SlotFor
  <2>2. \A i \in 1..Len(keys) : ~(k <= keys[i])
    BY <1>1, <1>2
  <2> QED
    BY <1>1, <2>1, <2>2
<1>3. CASE notBelow # {}
  <2>1. SlotFor(keys, k) = Min(notBelow)
    BY <1>3 DEF SlotFor
  <2>2. notBelow \in SUBSET Nat
    BY <1>1
  <2>3. Min(notBelow) \in notBelow /\ \A i \in notBelow : Min(notBelow) <= i
    <3> HIDE DEF notBelow
    <3> QED
      BY <1>3, <2>2, MinIsLeast
  <2> DEFINE m == Min(notBelow)
  <2>4. m \in 1..Len(keys) /\ k <= keys[m]
    BY <1>1, <2>3
  <2>5. ASSUME NEW i \in 1..Len(keys), i < m PROVE ~(k <= keys[i])
    <3>1. m \in Nat /\ i \in Nat /\ ~(m <= i)
      BY <1>1, <2>4, <2>5
    <3>2. i \notin notBelow
      BY <2>3, <3>1
    <3> QED
      BY <1>1, <3>2
  <2> HIDE DEF m
  <2>6. ASSUME NEW i \in 1..Len(keys), m <= i PROVE k <= keys[i]
    <3>1. CASE m = i
      BY <2>4, <3>1
    <3>2. CASE m < i
      <4>1. keys[m] < keys[i]
        BY <2>4, <3>2 DEF Ascending
      <4> DEFINE x == keys[m]
                 y == keys[i]
      <4>2. x \in Nat /\ y \in Nat /\ k <= x /\ x < y
        BY <1>1, <2>4, <4>1
      <4> HIDE DEF x, y
      <4>3. k <= y
        BY <4>2
      <4> QED
        BY <4>3 DEF y
    <3> QED
      BY <1>1, <2>4, <2>6, <3>1, <3>2
  <2>7. \A i \in 1..Len(keys) : i < m => keys[i] < k
    BY <1>1, <2>5
  <2> QED
    BY <1>1, <2>1, <2>4, <2>6, <2>7 DEF m
<1> QED
  BY <1>2, <1>3

(* A leaf holds the keys it has, each at its slot. *)
LEMMA HoldsIs ==
  ASSUME NEW n, n.keys \in Seq(Nat), Ascending(n.keys), NEW k \in Nat
  PROVE  /\ Holds(n, k) => /\ SlotFor(n.keys, k) \in 1..Len(n.keys)
                           /\ n.keys[SlotFor(n.keys, k)] = k
         /\ \A i \in 1..Len(n.keys) : n.keys[i] = k => Holds(n, k) /\ SlotFor(n.keys, k) = i
<1> DEFINE keys == n.keys
           m == SlotFor(keys, k)
<1>1. /\ m \in 1..Len(keys)+1
      /\ \A i \in 1..Len(keys) : i < m => keys[i] < k
      /\ \A i \in 1..Len(keys) : m <= i => k <= keys[i]
  BY SlotForIs
<1>2. Len(keys) \in Nat /\ \A i \in 1..Len(keys) : keys[i] \in Nat
  BY LenProperties, ElementOfSeq
<1>3. Holds(n, k) <=> m <= Len(keys) /\ keys[m] = k
  BY DEF Holds
<1> HIDE DEF m, keys
<1>4. ASSUME NEW i \in 1..Len(keys), keys[i] = k PROVE m = i
  <2>1. ~(i < m)
    <3> SUFFICES ASSUME i < m PROVE FALSE
      OBVIOUS
    <3>1. keys[i] < k
      BY <1>1
    <3> QED
      BY <1>4, <3>1
  <2>2. ~(m < i)
    <3> SUFFICES ASSUME m < i PROVE FALSE
      OBVIOUS
    <3>1. m \in 1..Len(keys) /\ m <= m
      BY <1>1, <1>2
    <3>2. k <= keys[m] /\ keys[m] < keys[i] /\ keys[m] \in Nat
      BY <1>1, <1>2, <3>1 DEF Ascending, keys
    <3> QED
      BY <1>4, <3>2
  <2> QED
    BY <1>1, <1>2, <2>1, <2>2
<1>5. ASSUME NEW i \in 1..Len(keys), keys[i] = k PROVE Holds(n, k)
  BY <1>2, <1>3, <1>4, <1>5
<1>6. Holds(n, k) => m \in 1..Len(keys) /\ keys[m] = k
  BY <1>1, <1>2, <1>3
<1> QED
  BY <1>4, <1>5, <1>6 DEF m, keys


-----------------------------------------------------------------------------
(* Search trees.                                                            *)

\* A separator is at most a fifth of an internal node (max_key_size is 256).
ShortKeys == \A k \in Keys : 5 * KeySize[k] <= NodeCap

IsBounds(lo, hi) == /\ lo \in Nat /\ hi \in Nat
                    /\ 1 <= lo /\ lo < hi /\ hi <= NumKeys + 1

\* The upper bound of child i of a node with these separators.
Bound(keys, lo, hi, i) == IF i = 0 THEN lo ELSE IF i > Len(keys) THEN hi ELSE keys[i]

\* The values of the keys from lo to below hi are those of f.
LeafShape(n, lo, hi, f) ==
    /\ IsLeaf(n)
    /\ n.keys \in Seq(Nat) /\ n.vals \in Seq(Nat) /\ Len(n.vals) = Len(n.keys)
    /\ Ascending(n.keys)
    /\ \A i \in 1..Len(n.keys) :
          /\ lo <= n.keys[i] /\ n.keys[i] < hi
          /\ n.vals[i] \in Values[n.keys[i]] /\ f[n.keys[i]] = n.vals[i]
    /\ \A j \in Nat : lo <= j /\ j < hi /\ f[j] # Missing => \E i \in 1..Len(n.keys) : n.keys[i] = j

LeafOK(n, lo, hi, f) == LeafShape(n, lo, hi, f) /\ Len(n.keys) # 0 /\ LeafFits(n.vals)

InnerShape(n, lo, hi) ==
    /\ ~IsLeaf(n)
    /\ IsSequence(n.kids) /\ n.keys \in Seq(Nat) /\ n.vals = <<>>
    /\ Len(n.kids) = Len(n.keys) + 1
    /\ Ascending(n.keys)
    /\ \A i \in 1..Len(n.keys) : lo < n.keys[i] /\ n.keys[i] < hi

InnerOK(n, lo, hi) == InnerShape(n, lo, hi) /\ (ShortKeys => NodeFits(n.keys))

\* A set of nodes, each with its bounds and its height, with all nodes below.
Closed(S, f) ==
    \A n, lo, hi, h : <<n, lo, hi, h>> \in S =>
        /\ IsBounds(lo, hi) /\ h \in Nat
        /\ \/ LeafOK(n, lo, hi, f)
           \/ /\ InnerOK(n, lo, hi) /\ h # 0
              /\ \A i \in 1..Len(n.kids) :
                    <<n.kids[i], Bound(n.keys, lo, hi, i-1), Bound(n.keys, lo, hi, i), h-1>> \in S

SearchTree(n, lo, hi, h, f) == \E S : <<n, lo, hi, h>> \in S /\ Closed(S, f)

KidsAre(n, lo, hi, h, f) ==
    \A i \in 1..Len(n.kids) :
        SearchTree(n.kids[i], Bound(n.keys, lo, hi, i-1), Bound(n.keys, lo, hi, i), h, f)

(* What a search tree is made of, ... *)
LEMMA TreeIs ==
  ASSUME NEW n, NEW lo, NEW hi, NEW h, NEW f, SearchTree(n, lo, hi, h, f)
  PROVE  /\ IsBounds(lo, hi) /\ h \in Nat
         /\ \/ LeafOK(n, lo, hi, f)
            \/ InnerOK(n, lo, hi) /\ h # 0 /\ h - 1 \in Nat /\ KidsAre(n, lo, hi, h-1, f)
<1>1. PICK S : <<n, lo, hi, h>> \in S /\ Closed(S, f)
  BY DEF SearchTree
<1>2. /\ IsBounds(lo, hi) /\ h \in Nat
      /\ \/ LeafOK(n, lo, hi, f)
         \/ /\ InnerOK(n, lo, hi) /\ h # 0
            /\ \A i \in 1..Len(n.kids) :
                  <<n.kids[i], Bound(n.keys, lo, hi, i-1), Bound(n.keys, lo, hi, i), h-1>> \in S
  BY <1>1 DEF Closed
<1>3. ASSUME InnerOK(n, lo, hi), h # 0,
             \A i \in 1..Len(n.kids) :
                <<n.kids[i], Bound(n.keys, lo, hi, i-1), Bound(n.keys, lo, hi, i), h-1>> \in S
      PROVE  KidsAre(n, lo, hi, h-1, f)
  BY <1>1, <1>3 DEF KidsAre, SearchTree
<1>4. h # 0 => h - 1 \in Nat
  BY <1>2
<1> QED
  BY <1>2, <1>3, <1>4

(* ... a leaf, ... *)
LEMMA LeafTree ==
  ASSUME NEW n, NEW lo, NEW hi, NEW h \in Nat, NEW f, IsBounds(lo, hi), LeafOK(n, lo, hi, f)
  PROVE  SearchTree(n, lo, hi, h, f)
<1> DEFINE S == {<<n, lo, hi, h>>}
<1>1. Closed(S, f)
  BY DEF Closed
<1>2. <<n, lo, hi, h>> \in S
  OBVIOUS
<1> HIDE DEF S
<1> QED
  BY <1>1, <1>2 DEF SearchTree

(* ... or a node above search trees. *)
LEMMA InnerTree ==
  ASSUME NEW n, NEW lo, NEW hi, NEW h \in Nat, NEW f, IsBounds(lo, hi), InnerOK(n, lo, hi),
         KidsAre(n, lo, hi, h, f)
  PROVE  SearchTree(n, lo, hi, h+1, f)
<1> DEFINE Kid(i) == <<n.kids[i], Bound(n.keys, lo, hi, i-1), Bound(n.keys, lo, hi, i), h>>
           F(i) == CHOOSE S : Kid(i) \in S /\ Closed(S, f)
           T == UNION {F(i) : i \in 1..Len(n.kids)}
           top == <<n, lo, hi, h+1>>
<1>1. ASSUME NEW i \in 1..Len(n.kids) PROVE Kid(i) \in F(i) /\ Closed(F(i), f)
  <2>1. \E S : Kid(i) \in S /\ Closed(S, f)
    BY DEF KidsAre, SearchTree
  <2> HIDE DEF Kid
  <2> QED
    BY <2>1
<1>2. \A i \in 1..Len(n.kids) : Kid(i) \in T
  BY <1>1
<1>3. Closed(T, f)
  <2> SUFFICES ASSUME NEW m, NEW a, NEW b, NEW g, <<m, a, b, g>> \in T
               PROVE  /\ IsBounds(a, b) /\ g \in Nat
                      /\ \/ LeafOK(m, a, b, f)
                         \/ /\ InnerOK(m, a, b) /\ g # 0
                            /\ \A i \in 1..Len(m.kids) :
                                  <<m.kids[i], Bound(m.keys, a, b, i-1), Bound(m.keys, a, b, i), g-1>> \in T
    BY DEF Closed
  <2>1. PICK j \in 1..Len(n.kids) : <<m, a, b, g>> \in F(j)
    OBVIOUS
  <2>2. Closed(F(j), f) /\ F(j) \subseteq T
    BY <1>1
  <2> HIDE DEF F, T
  <2> QED
    BY <2>1, <2>2 DEF Closed
<1> HIDE DEF T, F
<1>4. Closed(T \cup {top}, f)
  <2> SUFFICES ASSUME NEW m, NEW a, NEW b, NEW g, <<m, a, b, g>> \in T \cup {top}
               PROVE  /\ IsBounds(a, b) /\ g \in Nat
                      /\ \/ LeafOK(m, a, b, f)
                         \/ /\ InnerOK(m, a, b) /\ g # 0
                            /\ \A i \in 1..Len(m.kids) :
                                  <<m.kids[i], Bound(m.keys, a, b, i-1), Bound(m.keys, a, b, i), g-1>>
                                     \in T \cup {top}
    BY DEF Closed
  <2>1. CASE <<m, a, b, g>> \in T
    BY <1>3, <2>1 DEF Closed
  <2>2. CASE <<m, a, b, g>> = top
    <3>1. m = n /\ a = lo /\ b = hi /\ g = h + 1
      BY <2>2
    <3>2. g # 0 /\ g \in Nat /\ g - 1 = h
      BY <3>1
    <3>3. \A i \in 1..Len(n.kids) :
             <<n.kids[i], Bound(n.keys, lo, hi, i-1), Bound(n.keys, lo, hi, i), g-1>> \in T
      BY <1>2, <3>2
    <3> QED
      BY <3>1, <3>2, <3>3
  <2> QED
    BY <2>1, <2>2
<1> QED
  BY <1>4 DEF SearchTree

(* The bounds of a node's children, in order. *)
LEMMA KidBounds ==
  ASSUME NEW n, NEW lo, NEW hi, IsBounds(lo, hi), InnerShape(n, lo, hi)
  PROVE  /\ Len(n.keys) \in Nat /\ Len(n.kids) \in Nat /\ 1 <= Len(n.kids)
         /\ DOMAIN n.kids = 1..Len(n.kids)
         /\ Bound(n.keys, lo, hi, 0) = lo
         /\ Bound(n.keys, lo, hi, Len(n.kids)) = hi
         /\ \A i \in 0..Len(n.kids) : /\ Bound(n.keys, lo, hi, i) \in Nat
                                      /\ lo <= Bound(n.keys, lo, hi, i)
                                      /\ Bound(n.keys, lo, hi, i) <= hi
         /\ \A i, j \in 0..Len(n.kids) : i < j => Bound(n.keys, lo, hi, i) < Bound(n.keys, lo, hi, j)
         /\ \A i \in 1..Len(n.keys) : Bound(n.keys, lo, hi, i) = n.keys[i]
<1> DEFINE e == n.keys
           L == Len(e)
           B(i) == Bound(e, lo, hi, i)
<1>1. /\ Len(n.kids) \in Nat /\ DOMAIN n.kids = 1..Len(n.kids) /\ L \in Nat /\ Len(n.kids) = L + 1
      /\ \A i \in 1..L : e[i] \in Nat
  BY SequenceShape, LenProperties, ElementOfSeq DEF InnerShape
<1>2. /\ \A i \in 1..L : lo < e[i] /\ e[i] < hi
      /\ \A i, j \in 1..L : i < j => e[i] < e[j]
  BY DEF InnerShape, Ascending
<1>3. lo \in Nat /\ hi \in Nat /\ lo < hi
  BY DEF IsBounds
<1>4. /\ B(0) = lo /\ B(L+1) = hi
      /\ \A i \in 1..L : B(i) = e[i]
  BY <1>1 DEF Bound
<1>5. \A i \in 0..L+1 : i = 0 \/ i = L+1 \/ i \in 1..L
  BY <1>1
<1> HIDE DEF B, L, e
<1>6. \A i \in 0..L+1 : B(i) \in Nat /\ lo <= B(i) /\ B(i) <= hi
  BY <1>1, <1>2, <1>3, <1>4, <1>5
<1>7. ASSUME NEW i \in 0..L+1, NEW j \in 0..L+1, i < j PROVE B(i) < B(j)
  <2>1. CASE i = 0
    <3>1. j = L + 1 \/ j \in 1..L
      BY <1>1, <1>5, <1>7, <2>1
    <3> QED
      BY <1>2, <1>3, <1>4, <2>1, <3>1
  <2>2. CASE i \in 1..L
    <3>1. j = L + 1 \/ j \in 1..L
      BY <1>1, <1>5, <1>7, <2>2
    <3> QED
      BY <1>2, <1>3, <1>4, <1>7, <2>2, <3>1
  <2>3. CASE i = L + 1
    BY <1>1, <1>7, <2>3
  <2> QED
    BY <1>5, <2>1, <2>2, <2>3
<1> QED
  BY <1>1, <1>4, <1>6, <1>7 DEF B, L, e

(* ChildFor finds the child whose bounds a key is within. *)
LEMMA ChildForBound ==
  ASSUME NEW n, NEW lo, NEW hi, IsBounds(lo, hi), InnerShape(n, lo, hi),
         NEW k \in Nat, lo <= k, k < hi
  PROVE  /\ ChildFor(n.keys, k) \in 1..Len(n.kids)
         /\ Bound(n.keys, lo, hi, ChildFor(n.keys, k) - 1) <= k
         /\ k < Bound(n.keys, lo, hi, ChildFor(n.keys, k))
<1> DEFINE c == ChildFor(n.keys, k)
           L == Len(n.keys)
<1>1. /\ c \in 1..L+1
      /\ \A j \in 1..L : j < c => n.keys[j] <= k
      /\ \A j \in 1..L : c <= j => k < n.keys[j]
  BY ChildForIs DEF InnerShape
<1>2. /\ L \in Nat /\ Len(n.kids) = L + 1
      /\ Bound(n.keys, lo, hi, 0) = lo /\ Bound(n.keys, lo, hi, Len(n.kids)) = hi
      /\ \A j \in 1..L : Bound(n.keys, lo, hi, j) = n.keys[j]
  BY KidBounds DEF InnerShape
<1> HIDE DEF c, L
<1>3. Bound(n.keys, lo, hi, c - 1) <= k
  <2>1. CASE c = 1
    BY <1>2, <2>1
  <2>2. CASE c # 1
    <3>1. c - 1 \in 1..L /\ c - 1 < c
      BY <1>1, <1>2, <2>2
    <3> QED
      BY <1>1, <1>2, <3>1
  <2> QED
    BY <2>1, <2>2
<1>4. k < Bound(n.keys, lo, hi, c)
  <2>1. CASE c = L + 1
    BY <1>2, <2>1
  <2>2. CASE c # L + 1
    <3>1. c \in 1..L /\ c <= c
      BY <1>1, <1>2, <2>2
    <3> QED
      BY <1>1, <1>2, <3>1
  <2> QED
    BY <2>1, <2>2
<1> QED
  BY <1>1, <1>2, <1>3, <1>4 DEF c, L

(* The child whose bounds hold k is the one that ChildFor finds. *)
LEMMA ChildForOnly ==
  ASSUME NEW n, NEW lo, NEW hi, IsBounds(lo, hi), InnerShape(n, lo, hi),
         NEW k \in Nat, NEW i \in 1..Len(n.kids),
         Bound(n.keys, lo, hi, i - 1) <= k, k < Bound(n.keys, lo, hi, i)
  PROVE  ChildFor(n.keys, k) = i
<1> DEFINE B(j) == Bound(n.keys, lo, hi, j)
           L == Len(n.keys)
<1>1. /\ L \in Nat /\ Len(n.kids) = L + 1
      /\ \A j \in 0..L+1 : B(j) \in Nat
      /\ \A j, m \in 0..L+1 : j < m => B(j) < B(m)
      /\ \A j \in 1..L : B(j) = n.keys[j]
  BY SMTT(30), KidBounds DEF InnerShape
<1>2. i \in Nat /\ i - 1 \in 0..L+1 /\ i \in 0..L+1 /\ i \in 1..L+1
  BY <1>1
<1>3. B(i-1) <= k /\ k < B(i)
  OBVIOUS
<1> HIDE DEF B, L
<1>4. ASSUME NEW j \in 1..L, j < i PROVE n.keys[j] <= k
  <2>1. j \in 0..L+1 /\ (j = i - 1 \/ j < i - 1)
    BY <1>1, <1>2, <1>4
  <2>2. B(j) <= B(i-1)
    BY SMTT(30), <1>1, <1>2, <2>1
  <2> QED
    BY <1>1, <1>2, <1>3, <2>1, <2>2
<1>5. ASSUME NEW j \in 1..L, i <= j PROVE k < n.keys[j]
  <2>1. j \in 0..L+1 /\ (j = i \/ i < j)
    BY <1>1, <1>2, <1>5
  <2>2. B(i) <= B(j)
    BY <1>1, <1>2, <2>1
  <2> QED
    BY <1>1, <1>2, <1>3, <2>1, <2>2
<1> QED
  BY <1>2, <1>4, <1>5, ChildForUnique DEF InnerShape, L

\* g says on the wider range what f says on the narrower one, and no more.
Widens(g, a, b, f, lo, hi) ==
    /\ a <= lo /\ hi <= b
    /\ \A j \in Nat : lo <= j /\ j < hi => g[j] = f[j]
    /\ \A j \in Nat : (a <= j /\ j < lo) \/ (hi <= j /\ j < b) => g[j] = Missing

LEMMA LeafWidens ==
  ASSUME NEW n, NEW lo, NEW hi, NEW f, NEW a, NEW b, NEW g,
         IsBounds(lo, hi), IsBounds(a, b), Widens(g, a, b, f, lo, hi), LeafOK(n, lo, hi, f)
  PROVE  LeafOK(n, a, b, g)
<1>1. lo \in Nat /\ hi \in Nat /\ a \in Nat /\ b \in Nat /\ lo < hi /\ a <= lo /\ hi <= b
  BY DEF IsBounds, Widens
<1>2. \A i \in 1..Len(n.keys) : n.keys[i] \in Nat
  BY ElementOfSeq DEF LeafOK, LeafShape
<1>3. ASSUME NEW i \in 1..Len(n.keys)
      PROVE  /\ a <= n.keys[i] /\ n.keys[i] < b
             /\ n.vals[i] \in Values[n.keys[i]] /\ g[n.keys[i]] = n.vals[i]
  <2> DEFINE x == n.keys[i]
  <2>1. /\ x \in Nat /\ lo <= x /\ x < hi
        /\ n.vals[i] \in Values[x] /\ f[x] = n.vals[i]
    BY <1>2 DEF LeafOK, LeafShape
  <2> HIDE DEF x
  <2>2. a <= x /\ x < b
    BY <1>1, <2>1
  <2>3. g[x] = f[x]
    BY <2>1 DEF Widens
  <2> QED
    BY <2>1, <2>2, <2>3 DEF x
<1>4. ASSUME NEW j \in Nat, a <= j, j < b, g[j] # Missing
      PROVE  \E i \in 1..Len(n.keys) : n.keys[i] = j
  <2>1. lo <= j /\ j < hi
    BY <1>1, <1>4 DEF Widens
  <2>2. f[j] # Missing
    BY <1>4, <2>1 DEF Widens
  <2> QED
    BY <2>1, <2>2 DEF LeafOK, LeafShape
<1> QED
  BY <1>3, <1>4 DEF LeafOK, LeafShape

(* A search tree is one for wider bounds in which there is nothing more, for  *)
(* other values outside its bounds, and for a greater height.                 *)
LEMMA TreeWidens ==
  ASSUME NEW n, NEW lo, NEW hi, NEW h, NEW f, NEW a, NEW b, NEW d \in Nat, NEW g,
         IsBounds(a, b), Widens(g, a, b, f, lo, hi), SearchTree(n, lo, hi, h, f)
  PROVE  SearchTree(n, a, b, h + d, g)
<1>1. PICK S : <<n, lo, hi, h>> \in S /\ Closed(S, f)
  BY DEF SearchTree
<1> DEFINE Wide(m, x, y, z, u, v, w) ==
              /\ IsBounds(x, y) /\ Widens(g, x, y, f, u, v) /\ z = w + d
              /\ <<m, u, v, w>> \in S
           U == {e[1] : e \in S}
           T == {e \in U \X Nat \X Nat \X Nat :
                    \E u \in Nat, v \in Nat, w \in Nat : Wide(e[1], e[2], e[3], e[4], u, v, w)}
<1>2. ASSUME NEW m, NEW x, NEW y, NEW z, NEW u, NEW v, NEW w, Wide(m, x, y, z, u, v, w)
      PROVE  <<m, x, y, z>> \in T
  <2>1. IsBounds(u, v) /\ w \in Nat
    BY <1>1, <1>2 DEF Closed
  <2>2. u \in Nat /\ v \in Nat /\ w \in Nat /\ x \in Nat /\ y \in Nat /\ z \in Nat
    BY <1>2, <2>1 DEF IsBounds
  <2>3. m \in U
    BY <1>2
  <2> HIDE DEF Wide
  <2> QED
    BY <1>2, <2>2, <2>3
<1>3. ASSUME NEW m, NEW x, NEW y, NEW z, <<m, x, y, z>> \in T
      PROVE  \E u, v, w : Wide(m, x, y, z, u, v, w)
  <2> HIDE DEF Wide
  <2> QED
    BY <1>3
<1> HIDE DEF T
<1>4. ASSUME NEW m, NEW x, NEW y, NEW z, NEW u, NEW v, NEW w, Wide(m, x, y, z, u, v, w)
      PROVE  /\ IsBounds(x, y) /\ z \in Nat
             /\ \/ LeafOK(m, x, y, g)
                \/ /\ InnerOK(m, x, y) /\ z # 0
                   /\ \A i \in 1..Len(m.kids) :
                         <<m.kids[i], Bound(m.keys, x, y, i-1), Bound(m.keys, x, y, i), z-1>> \in T
  <2>1. IsBounds(x, y) /\ Widens(g, x, y, f, u, v) /\ z = w + d /\ <<m, u, v, w>> \in S
    BY <1>4
  <2>2. /\ IsBounds(u, v) /\ w \in Nat
        /\ \/ LeafOK(m, u, v, f)
           \/ /\ InnerOK(m, u, v) /\ w # 0
              /\ \A i \in 1..Len(m.kids) :
                    <<m.kids[i], Bound(m.keys, u, v, i-1), Bound(m.keys, u, v, i), w-1>> \in S
    BY <1>1, <2>1 DEF Closed
  <2>3. z \in Nat
    BY <2>1, <2>2
  <2>4. CASE LeafOK(m, u, v, f)
    BY <2>1, <2>2, <2>3, <2>4, LeafWidens
  <2>5. CASE /\ InnerOK(m, u, v) /\ w # 0
             /\ \A i \in 1..Len(m.kids) :
                   <<m.kids[i], Bound(m.keys, u, v, i-1), Bound(m.keys, u, v, i), w-1>> \in S
    <3>1. /\ u \in Nat /\ v \in Nat /\ x \in Nat /\ y \in Nat /\ x <= u /\ v <= y
          /\ 1 <= x /\ y <= NumKeys + 1
      BY <2>1, <2>2 DEF IsBounds, Widens
    <3>2. InnerOK(m, x, y)
      <4>1. \A i \in 1..Len(m.keys) : m.keys[i] \in Nat
        BY <2>5, ElementOfSeq DEF InnerOK, InnerShape
      <4>2. ASSUME NEW i \in 1..Len(m.keys) PROVE x < m.keys[i] /\ m.keys[i] < y
        <5> DEFINE c == m.keys[i]
        <5>1. c \in Nat /\ u < c /\ c < v
          BY <2>5, <4>1 DEF InnerOK, InnerShape
        <5> HIDE DEF c
        <5>2. x < c /\ c < y
          BY <3>1, <5>1
        <5> QED
          BY <5>2 DEF c
      <4> QED
        BY <2>5, <4>2 DEF InnerOK, InnerShape
    <3>3. z # 0 /\ z - 1 = (w - 1) + d
      BY <2>1, <2>2, <2>5
    <3>4. ASSUME NEW i \in 1..Len(m.kids)
          PROVE  <<m.kids[i], Bound(m.keys, x, y, i-1), Bound(m.keys, x, y, i), z-1>> \in T
      <4> DEFINE B(j) == Bound(m.keys, u, v, j)
                 C(j) == Bound(m.keys, x, y, j)
                 L == Len(m.keys)
      <4>1. /\ L \in Nat /\ Len(m.kids) = L + 1
            /\ B(0) = u /\ B(L+1) = v /\ \A j \in 1..L : B(j) = m.keys[j]
            /\ \A j \in 0..L+1 : B(j) \in Nat /\ u <= B(j) /\ B(j) <= v
            /\ \A j, k \in 0..L+1 : j < k => B(j) < B(k)
        BY <2>2, <2>5, KidBounds DEF InnerOK, InnerShape
      <4>2. C(0) = x /\ C(L+1) = y /\ \A j \in 1..L : C(j) = m.keys[j]
        BY <2>1, <3>2, <4>1, KidBounds DEF InnerOK
      <4>3. <<m.kids[i], B(i-1), B(i), w-1>> \in S
        BY <2>5
      <4>4. i \in Nat /\ i - 1 \in 0..L+1 /\ i \in 0..L+1 /\ i - 1 < i
        BY <4>1
      <4> HIDE DEF B, C, L
      <4>5. \/ i - 1 = 0 /\ C(i-1) = x /\ B(i-1) = u
            \/ C(i-1) = B(i-1)
        <5>1. i - 1 = 0 \/ i - 1 \in 1..L
          BY <4>1, <4>4
        <5> QED
          BY <4>1, <4>2, <5>1
      <4>6. \/ C(i) = y /\ B(i) = v
            \/ C(i) = B(i)
        <5>1. i = L + 1 \/ i \in 1..L
          BY <4>1, <4>4
        <5> QED
          BY <4>1, <4>2, <5>1
      <4> DEFINE b1 == B(i-1)
                 b2 == B(i)
                 c1 == C(i-1)
                 c2 == C(i)
      <4>7. /\ b1 \in Nat /\ b2 \in Nat /\ u <= b1 /\ b1 < b2 /\ b2 <= v
            /\ (c1 = x /\ b1 = u) \/ c1 = b1
            /\ (c2 = y /\ b2 = v) \/ c2 = b2
        BY <4>1, <4>4, <4>5, <4>6
      <4> HIDE DEF b1, b2, c1, c2
      <4>8. c1 \in Nat /\ c2 \in Nat /\ x <= c1 /\ c1 <= b1 /\ b2 <= c2 /\ c2 <= y /\ c1 < c2
        BY <3>1, <4>7
      <4>9. IsBounds(c1, c2)
        <5>1. NumKeys \in Nat
          BY ConstantsAssumption
        <5>2. 1 <= c1 /\ c2 <= NumKeys + 1
          BY <3>1, <4>8, <5>1
        <5> QED
          BY <4>8, <5>2 DEF IsBounds
      <4>10. Widens(g, c1, c2, f, b1, b2)
        <5>1. ASSUME NEW j \in Nat, b1 <= j, j < b2 PROVE g[j] = f[j]
          <6>1. u <= j /\ j < v
            BY <3>1, <4>7, <5>1
          <6> QED
            BY <2>1, <6>1 DEF Widens
        <5>2. ASSUME NEW j \in Nat, (c1 <= j /\ j < b1) \/ (b2 <= j /\ j < c2)
              PROVE  g[j] = Missing
          <6>1. (x <= j /\ j < u) \/ (v <= j /\ j < y)
            BY <3>1, <4>7, <4>8, <5>2
          <6> QED
            BY <2>1, <6>1 DEF Widens
        <5> QED
          BY <4>8, <5>1, <5>2 DEF Widens
      <4>11. Wide(m.kids[i], c1, c2, z-1, b1, b2, w-1)
        BY <3>3, <4>3, <4>9, <4>10 DEF b1, b2
      <4>12. <<m.kids[i], c1, c2, z-1>> \in T
        <5> HIDE DEF Wide
        <5> QED
          BY <1>2, <4>11
      <4> QED
        BY <4>12 DEF c1, c2, C
    <3> QED
      BY <2>1, <2>3, <3>2, <3>3, <3>4
  <2> QED
    BY <2>2, <2>4, <2>5
<1>5. Closed(T, g)
  <2> HIDE DEF Wide
  <2> QED
    BY <1>3, <1>4 DEF Closed
<1>6. Wide(n, a, b, h + d, lo, hi, h)
  BY <1>1
<1>7. <<n, a, b, h + d>> \in T
  <2> HIDE DEF Wide
  <2> QED
    BY <1>2, <1>6
<1> QED
  BY <1>5, <1>7 DEF SearchTree

(* The values of keys outside the bounds of a subtree do not matter to it. *)
LEMMA TreeElsewhere ==
  ASSUME NEW n, NEW lo, NEW hi, NEW h, NEW f, NEW g,
         SearchTree(n, lo, hi, h, f),
         \A j \in Nat : lo <= j /\ j < hi => g[j] = f[j]
  PROVE  SearchTree(n, lo, hi, h, g)
<1>1. IsBounds(lo, hi) /\ h \in Nat /\ h + 0 = h
  BY TreeIs
<1>2. Widens(g, lo, hi, f, lo, hi)
  BY <1>1 DEF IsBounds, Widens
<1>3. SearchTree(n, lo, hi, h + 0, g)
  <2>1. 0 \in Nat
    OBVIOUS
  <2> QED
    BY <1>1, <1>2, <2>1, TreeWidens
<1> QED
  BY <1>1, <1>3

-----------------------------------------------------------------------------
(* The way down.                                                            *)

Below(n, k) == IF IsLeaf(n) THEN n ELSE n.kids[ChildFor(n.keys, k)]

(* Descent is defined by its recursion. *)
LEMMA DescentIs ==
  ASSUME NEW n, NEW k
  PROVE  /\ Descent(n, k)[0] = n
         /\ \A i \in Levels : i # 0 => Descent(n, k)[i] = Below(Descent(n, k)[i-1], k)
<1> DEFINE Solves(g, l) ==
              /\ g = [i \in 0..l |-> g[i]] /\ g[0] = n
              /\ \A i \in 1..l : g[i] = Below(g[i-1], k)
           Good == {l \in Nat : \E g : Solves(g, l)}
           Step(g) == [i \in Levels |->
                          IF i = 0 THEN n
                          ELSE LET above == g[i-1] IN
                               IF IsLeaf(above) THEN above ELSE above.kids[ChildFor(above.keys, k)]]
<1>1. 0 \in Good
  <2>1. Solves([i \in 0..0 |-> n], 0)
    OBVIOUS
  <2> HIDE DEF Solves
  <2> QED
    BY <2>1
<1>2. ASSUME NEW l \in Good PROVE l + 1 \in Good
  <2>1. l \in Nat
    OBVIOUS
  <2>2. PICK g : Solves(g, l)
    OBVIOUS
  <2> DEFINE h == [i \in 0..l+1 |-> IF i <= l THEN g[i] ELSE Below(g[l], k)]
  <2>3. h = [i \in 0..l+1 |-> h[i]]
    OBVIOUS
  <2>4. h[0] = n
    BY <2>1, <2>2
  <2>5. ASSUME NEW i \in 1..l+1 PROVE h[i] = Below(h[i-1], k)
    <3>1. i \in 0..l+1 /\ i - 1 \in 0..l+1 /\ i - 1 <= l
      BY <2>1
    <3>2. h[i-1] = g[i-1]
      BY <3>1
    <3>3. CASE i <= l
      <4>1. h[i] = g[i] /\ i \in 1..l
        BY <2>1, <3>1, <3>3
      <4>2. g[i] = Below(g[i-1], k)
        BY <2>2, <4>1
      <4> HIDE DEF h
      <4> QED
        BY <3>2, <4>1, <4>2
    <3>4. CASE ~(i <= l)
      <4>1. i - 1 = l
        BY <2>1, <3>4
      <4>2. h[i] = Below(g[l], k)
        BY <3>1, <3>4
      <4> HIDE DEF h
      <4> QED
        BY <3>2, <4>1, <4>2
    <3> QED
      BY <3>3, <3>4
  <2>6. Solves(h, l + 1)
    <3> HIDE DEF h
    <3> QED
      BY <2>3, <2>4, <2>5
  <2>7. l + 1 \in Nat /\ \E e : Solves(e, l + 1)
    <3> HIDE DEF Solves, h
    <3> QED
      BY <2>1, <2>6
  <2> HIDE DEF Solves
  <2> QED
    BY <2>7
<1>3. Good = Nat
  <2> HIDE DEF Good
  <2>1. Good \in SUBSET Nat
    BY DEF Good
  <2> QED
    BY <1>1, <1>2, <2>1, Induction
<1>4. MaxHeight \in Nat /\ MaxHeight - 1 \in Nat
  BY ConstantsAssumption
<1>5. PICK g : Solves(g, MaxHeight-1)
  <2> HIDE DEF Solves
  <2> QED
    BY <1>3, <1>4
<1>6. g = Step(g)
  <2>1. ASSUME NEW i \in Levels
        PROVE  g[i] = IF i = 0 THEN n
                      ELSE LET above == g[i-1] IN
                           IF IsLeaf(above) THEN above ELSE above.kids[ChildFor(above.keys, k)]
    <3>1. i = 0 \/ (i # 0 /\ i \in 1..MaxHeight-1)
      BY <1>4 DEF Levels
    <3> QED
      BY <1>5, <3>1 DEF Below
  <2>2. g = [i \in Levels |-> g[i]]
    BY <1>5 DEF Levels
  <2>3. [i \in Levels |-> g[i]] = Step(g)
    BY <2>1
  <2> HIDE DEF Step
  <2> QED
    BY <2>2, <2>3
<1>7. Descent(n, k) = CHOOSE e : e = Step(e)
  BY DEF Descent
<1> DEFINE e == Descent(n, k)
<1>8. e = Step(e)
  <2> HIDE DEF Step
  <2> QED
    BY <1>6, <1>7
<1> HIDE DEF e
<1>9. e[0] = n
  <2>1. 0 \in Levels
    BY <1>4 DEF Levels
  <2> QED
    BY <1>8, <2>1
<1>10. ASSUME NEW i \in Levels, i # 0 PROVE e[i] = Below(e[i-1], k)
  <2>1. Step(e)[i] = LET above == e[i-1] IN
                     IF IsLeaf(above) THEN above ELSE above.kids[ChildFor(above.keys, k)]
    BY <1>10
  <2> HIDE DEF Step
  <2> QED
    BY <1>8, <2>1 DEF Below
<1> QED
  BY <1>9, <1>10 DEF e

(* The way down from a node is the way down from the node below, ... *)
LEMMA DescentBelow ==
  ASSUME NEW n, NEW k, NEW i \in Nat, i + 1 \in Levels
  PROVE  Descent(n, k)[i+1] = Descent(Below(n, k), k)[i]
<1> DEFINE d == Descent(n, k)
           e == Descent(Below(n, k), k)
           S == {j \in Nat : j + 1 \in Levels => d[j+1] = e[j]}
<1>1. MaxHeight \in Nat /\ MaxHeight - 1 \in Nat
  BY ConstantsAssumption
<1>2. /\ d[0] = n /\ \A j \in Levels : j # 0 => d[j] = Below(d[j-1], k)
      /\ e[0] = Below(n, k) /\ \A j \in Levels : j # 0 => e[j] = Below(e[j-1], k)
  BY DescentIs
<1> HIDE DEF d, e
<1>3. 0 \in S
  <2>1. ASSUME 0 + 1 \in Levels PROVE d[0+1] = e[0]
    <3>1. 0 + 1 = 1 /\ 1 # 0 /\ 1 - 1 = 0 /\ 1 \in Levels
      BY <2>1
    <3>2. d[1] = Below(d[1-1], k)
      BY <1>2, <3>1
    <3> QED
      BY <1>2, <3>1, <3>2
  <2> QED
    BY <2>1
<1>4. ASSUME NEW j \in S PROVE j + 1 \in S
  <2> SUFFICES ASSUME (j + 1) + 1 \in Levels PROVE d[(j+1)+1] = e[j+1]
    OBVIOUS
  <2>1. /\ j + 1 \in Levels /\ j + 1 # 0 /\ (j + 1) - 1 = j
        /\ (j + 1) + 1 # 0 /\ ((j + 1) + 1) - 1 = j + 1
    BY <1>1 DEF Levels
  <2>2. d[j+1] = e[j]
    BY <2>1
  <2>3. d[(j+1)+1] = Below(d[j+1], k)
    <3>1. d[(j+1)+1] = Below(d[((j+1)+1) - 1], k)
      BY <1>2, <2>1
    <3> QED
      BY <2>1, <3>1
  <2>4. e[j+1] = Below(e[j], k)
    <3>1. e[j+1] = Below(e[(j+1) - 1], k)
      BY <1>2, <2>1
    <3> QED
      BY <2>1, <3>1
  <2> QED
    BY <2>2, <2>3, <2>4
<1>5. S = Nat
  <2> HIDE DEF S
  <2>1. S \in SUBSET Nat
    BY DEF S
  <2> QED
    BY <1>3, <1>4, <2>1, Induction
<1>6. i \in S
  BY <1>5
<1> QED
  BY <1>6 DEF d, e

(* ... and no further than a leaf. *)
LEMMA DescentOfLeaf ==
  ASSUME NEW n, IsLeaf(n), NEW k, NEW i \in Levels
  PROVE  Descent(n, k)[i] = n
<1> DEFINE d == Descent(n, k)
           S == {j \in Nat : j \in Levels => d[j] = n}
<1>1. MaxHeight \in Nat /\ MaxHeight - 1 \in Nat
  BY ConstantsAssumption
<1>2. /\ d[0] = n /\ \A j \in Levels : j # 0 => d[j] = Below(d[j-1], k)
  BY DescentIs
<1> HIDE DEF d
<1>3. 0 \in S
  BY <1>2
<1>4. ASSUME NEW j \in S PROVE j + 1 \in S
  <2> SUFFICES ASSUME j + 1 \in Levels PROVE d[j+1] = n
    OBVIOUS
  <2>1. j \in Levels /\ j + 1 # 0 /\ (j + 1) - 1 = j
    BY <1>1 DEF Levels
  <2>2. d[j+1] = Below(d[(j+1)-1], k)
    BY <1>2, <2>1
  <2>3. d[j] = n
    BY <2>1
  <2> QED
    BY <2>1, <2>2, <2>3 DEF Below
<1>5. S = Nat
  <2> HIDE DEF S
  <2>1. S \in SUBSET Nat
    BY DEF S
  <2> QED
    BY <1>3, <1>4, <2>1, Induction
<1>6. i \in S /\ i \in Levels
  BY <1>1, <1>5 DEF Levels
<1> QED
  BY <1>6 DEF d

(* On the way down a search tree each node is a search tree, and lower. *)
LEMMA Path ==
  ASSUME NEW n, NEW lo, NEW hi, NEW h, NEW f, SearchTree(n, lo, hi, h, f),
         NEW k \in Nat, lo <= k, k < hi, NEW i \in Levels
  PROVE  \E a, b, g : /\ SearchTree(Descent(n, k)[i], a, b, g, f)
                      /\ lo <= a /\ a <= k /\ k < b /\ b <= hi
                      /\ IsLeaf(Descent(n, k)[i]) \/ g + i <= h
<1> DEFINE d == Descent(n, k)
           At(m, a, b, g, j) == /\ SearchTree(m, a, b, g, f)
                                /\ lo <= a /\ a <= k /\ k < b /\ b <= hi
                                /\ IsLeaf(m) \/ g + j <= h
           S == {j \in Nat : j \in Levels => \E a, b, g : At(d[j], a, b, g, j)}
<1>1. MaxHeight \in Nat /\ MaxHeight - 1 \in Nat
  BY ConstantsAssumption
<1>2. /\ d[0] = n /\ \A j \in Levels : j # 0 => d[j] = Below(d[j-1], k)
  BY DescentIs
<1>3. IsBounds(lo, hi) /\ h \in Nat /\ lo \in Nat /\ hi \in Nat
  BY TreeIs DEF IsBounds
<1> HIDE DEF d
<1>4. 0 \in S
  <2>1. At(d[0], lo, hi, h, 0)
    BY <1>2, <1>3
  <2> HIDE DEF At
  <2> QED
    BY <2>1
<1>5. ASSUME NEW j \in S PROVE j + 1 \in S
  <2> SUFFICES ASSUME j + 1 \in Levels PROVE \E a, b, g : At(d[j+1], a, b, g, j+1)
    <3> HIDE DEF At
    <3> QED
      OBVIOUS
  <2>1. j \in Nat /\ j \in Levels /\ j + 1 # 0 /\ (j + 1) - 1 = j
    BY <1>1 DEF Levels
  <2>2. d[j+1] = Below(d[j], k)
    <3>1. d[j+1] = Below(d[(j+1)-1], k)
      BY <1>2, <2>1
    <3> QED
      BY <2>1, <3>1
  <2> DEFINE m == d[j]
  <2>3. \E a, b, g : At(m, a, b, g, j)
    <3> HIDE DEF At
    <3> QED
      BY <2>1
  <2>4. PICK a, b, g : At(m, a, b, g, j)
    <3> HIDE DEF At
    <3> QED
      BY <2>3
  <2> HIDE DEF m
  <2>5. CASE IsLeaf(m)
    <3>1. At(Below(m, k), a, b, g, j+1)
      BY <2>4, <2>5 DEF Below
    <3> HIDE DEF At
    <3> QED
      BY <2>2, <3>1 DEF m
  <2>6. CASE ~IsLeaf(m)
    <3> DEFINE c == ChildFor(m.keys, k)
               B(x) == Bound(m.keys, a, b, x)
    <3>1. /\ IsBounds(a, b) /\ g \in Nat
          /\ InnerOK(m, a, b) /\ g # 0 /\ g - 1 \in Nat /\ KidsAre(m, a, b, g-1, f)
      BY <2>4, <2>6, TreeIs DEF LeafOK, LeafShape
    <3>2. c \in 1..Len(m.kids) /\ B(c-1) <= k /\ k < B(c)
      BY <2>4, <3>1, ChildForBound DEF InnerOK
    <3>3. Below(m, k) = m.kids[c]
      BY <2>6 DEF Below
    <3>4. SearchTree(m.kids[c], B(c-1), B(c), g-1, f)
      BY <3>1, <3>2 DEF KidsAre
    <3>5. /\ Len(m.kids) \in Nat
          /\ \A x \in 0..Len(m.kids) : B(x) \in Nat /\ a <= B(x) /\ B(x) <= b
      BY <3>1, KidBounds DEF InnerOK
    <3>6. c - 1 \in 0..Len(m.kids) /\ c \in 0..Len(m.kids)
      BY <3>2, <3>5
    <3> HIDE DEF B, c
    <3>7. lo <= B(c-1) /\ B(c) <= hi
      <4>1. a \in Nat /\ b \in Nat /\ lo <= a /\ b <= hi
        BY <2>4, <3>1 DEF IsBounds
      <4>2. a <= B(c-1) /\ B(c) <= b /\ B(c-1) \in Nat /\ B(c) \in Nat
        BY <3>5, <3>6
      <4> QED
        BY <1>3, <4>1, <4>2
    <3>8. (g - 1) + (j + 1) <= h
      BY <1>3, <2>1, <2>4, <2>6, <3>1
    <3>9. At(Below(m, k), B(c-1), B(c), g-1, j+1)
      BY <3>2, <3>3, <3>4, <3>7, <3>8
    <3> HIDE DEF At
    <3> QED
      BY <2>2, <3>9 DEF m
  <2> QED
    BY <2>5, <2>6
<1>6. S = Nat
  <2> HIDE DEF S
  <2>1. S \in SUBSET Nat
    BY DEF S
  <2> QED
    BY <1>4, <1>5, <2>1, Induction
<1>7. i \in S /\ i \in Levels
  BY <1>1, <1>6 DEF Levels
<1>8. \E a, b, g : At(d[i], a, b, g, i)
  <2> HIDE DEF At
  <2> QED
    BY <1>7
<1> QED
  BY <1>8 DEF d

(* The way down a search tree no higher than MaxHeight allows ends in a leaf. *)
LEMMA Reaches ==
  ASSUME NEW n, NEW lo, NEW hi, NEW h, NEW f, SearchTree(n, lo, hi, h, f), h <= MaxHeight - 1,
         NEW k \in Nat, lo <= k, k < hi
  PROVE  \E a, b : /\ LeafOK(LeafFor(n, k), a, b, f)
                   /\ IsBounds(a, b) /\ lo <= a /\ a <= k /\ k < b /\ b <= hi
<1> DEFINE leaf == LeafFor(n, k)
<1>1. MaxHeight \in Nat /\ MaxHeight - 1 \in Nat /\ MaxHeight - 1 \in Levels
  BY ConstantsAssumption DEF Levels
<1>2. h \in Nat
  BY TreeIs
<1>3. PICK a, b, g : /\ SearchTree(leaf, a, b, g, f)
                     /\ lo <= a /\ a <= k /\ k < b /\ b <= hi
                     /\ IsLeaf(leaf) \/ g + (MaxHeight - 1) <= h
  BY <1>1, Path DEF LeafFor
<1> HIDE DEF leaf
<1>4. /\ IsBounds(a, b) /\ g \in Nat
      /\ \/ LeafOK(leaf, a, b, f)
         \/ InnerOK(leaf, a, b) /\ g # 0
  BY <1>3, TreeIs
<1>5. CASE InnerOK(leaf, a, b) /\ g # 0
  <2>1. ~IsLeaf(leaf)
    BY <1>5 DEF InnerOK, InnerShape
  <2>2. g + (MaxHeight - 1) <= h
    BY <1>3, <2>1
  <2> QED
    BY <1>1, <1>2, <1>4, <1>5, <2>2
<1> QED
  BY <1>3, <1>4, <1>5 DEF leaf

(* Get finds the values that a search tree is said to have. *)
LEMMA GetIs ==
  ASSUME NEW n, NEW lo, NEW hi, NEW h, NEW f, SearchTree(n, lo, hi, h, f), h <= MaxHeight - 1,
         NEW k \in Nat, lo <= k, k < hi
  PROVE  Get(n, k) = f[k]
<1> DEFINE leaf == LeafFor(n, k)
           s == SlotFor(leaf.keys, k)
<1>1. PICK a, b : LeafOK(leaf, a, b, f) /\ a <= k /\ k < b
  BY Reaches
<1>2. Get(n, k) = IF Holds(leaf, k) THEN leaf.vals[s] ELSE Missing
  BY DEF Get
<1> HIDE DEF leaf
<1>3. /\ Holds(leaf, k) => s \in 1..Len(leaf.keys) /\ leaf.keys[s] = k
      /\ \A i \in 1..Len(leaf.keys) : leaf.keys[i] = k => Holds(leaf, k) /\ s = i
  BY <1>1, HoldsIs DEF LeafOK, LeafShape
<1> HIDE DEF s
<1>4. CASE Holds(leaf, k)
  BY <1>1, <1>2, <1>3, <1>4 DEF LeafOK, LeafShape
<1>5. CASE ~Holds(leaf, k)
  <2>1. ~(f[k] # Missing)
    BY <1>1, <1>3, <1>5 DEF LeafOK, LeafShape
  <2> QED
    BY <1>2, <1>5, <2>1
<1> QED
  BY <1>4, <1>5

-----------------------------------------------------------------------------
(* Sizes.                                                                   *)

\* The m entries of s after the first a are those of t after the first b.
Alike(s, t, a, b, m) == \A i \in 1..m : s[a+i] = t[b+i]

(* Stretches with the same sizes take the same. *)
LEMMA SumsAlike ==
  ASSUME NEW s \in Seq(Nat), NEW t \in Seq(Nat), NEW a \in Nat, NEW b \in Nat, NEW m \in Nat,
         NEW c \in 0..Len(s), NEW d \in 0..Len(t), c = a + m, d = b + m,
         Alike(s, t, a, b, m)
  PROVE  Sums(s)[c] - Sums(s)[a] = Sums(t)[d] - Sums(t)[b]
<1> DEFINE e == Sums(s)
           g == Sums(t)
           S == {j \in Nat : j <= m => e[a+j] - e[a] = g[b+j] - g[b]}
<1>1. /\ \A n \in 1..Len(s) : e[n] = e[n-1] + s[n]
      /\ \A n \in 0..Len(s) : e[n] \in Nat
      /\ \A n \in 1..Len(t) : g[n] = g[n-1] + t[n]
      /\ \A n \in 0..Len(t) : g[n] \in Nat
  BY SumsType
<1>2. /\ Len(s) \in Nat /\ Len(t) \in Nat /\ a \in 0..Len(s) /\ b \in 0..Len(t)
      /\ a + m <= Len(s) /\ b + m <= Len(t)
  BY LenProperties
<1>3. \A n \in 1..Len(s) : s[n] \in Nat
  BY ElementOfSeq
<1> HIDE DEF e, g
<1>4. 0 \in S
  <2>1. e[a+0] - e[a] = g[b+0] - g[b]
    <3>1. a + 0 = a /\ b + 0 = b /\ e[a] \in Nat /\ g[b] \in Nat
      BY <1>1, <1>2
    <3> QED
      BY <3>1
  <2> QED
    BY <2>1
<1>5. ASSUME NEW j \in S PROVE j + 1 \in S
  <2> SUFFICES ASSUME j + 1 <= m PROVE e[a+(j+1)] - e[a] = g[b+(j+1)] - g[b]
    OBVIOUS
  <2>1. j \in Nat
    OBVIOUS
  <2>2. /\ a + (j+1) \in 1..Len(s) /\ (a + (j+1)) - 1 = a + j /\ a + j \in 0..Len(s)
        /\ b + (j+1) \in 1..Len(t) /\ (b + (j+1)) - 1 = b + j /\ b + j \in 0..Len(t)
        /\ j + 1 \in 1..m /\ j <= m
    BY SMTT(30), <1>2, <2>1
  <2>3. e[a+j] - e[a] = g[b+j] - g[b]
    BY <2>2
  <2>4. /\ e[a+(j+1)] = e[a+j] + s[a+(j+1)]
        /\ g[b+(j+1)] = g[b+j] + s[a+(j+1)]
    <3>1. s[a+(j+1)] = t[b+(j+1)]
      BY <2>2 DEF Alike
    <3>2. e[a+(j+1)] = e[(a + (j+1)) - 1] + s[a+(j+1)]
      BY <1>1, <2>2
    <3>3. g[b+(j+1)] = g[(b + (j+1)) - 1] + t[b+(j+1)]
      BY <1>1, <2>2
    <3> QED
      BY <2>2, <3>1, <3>2, <3>3
  <2> DEFINE x == e[a+j]
             y == e[a]
             z == g[b+j]
             w == g[b]
             q == s[a+(j+1)]
  <2>5. /\ x \in Nat /\ y \in Nat /\ z \in Nat /\ w \in Nat /\ q \in Nat
        /\ x - y = z - w
    BY <1>1, <1>2, <1>3, <2>2, <2>3
  <2> HIDE DEF x, y, z, w, q
  <2>6. (x + q) - y = (z + q) - w
    BY <2>5
  <2> QED
    BY <2>4, <2>6 DEF x, y, z, w, q
<1>6. S = Nat
  <2> HIDE DEF S
  <2>1. S \in SUBSET Nat
    BY DEF S
  <2> QED
    BY <1>4, <1>5, <2>1, Induction
<1>7. m \in S /\ m <= m
  <2> HIDE DEF S
  <2> QED
    BY <1>6
<1> QED
  BY <1>7 DEF e, g

\* What the entries after the first i take.
After(s, i) == Size(s) - Sums(s)[i]

LEMMA SizeIs ==
  ASSUME NEW s \in Seq(Nat)
  PROVE  /\ Len(s) \in Nat /\ Size(s) \in Nat
         /\ \A i \in 0..Len(s) : Sums(s)[i] \in Nat /\ Sums(s)[i] <= Size(s)
         /\ \A i \in 1..Len(s) : /\ s[i] \in Nat
                                 /\ Sums(s)[i] = Sums(s)[i-1] + s[i]
                                 /\ Size(s) = Sums(s)[i-1] + s[i] + After(s, i)
         /\ Sums(s)[0] = 0 /\ Sums(s)[Len(s)] = Size(s)
<1> DEFINE e == Sums(s)
           L == Len(s)
<1>1. /\ e[0] = 0 /\ \A i \in 1..L : e[i] = e[i-1] + s[i] /\ s[i] \in Nat
      /\ \A i \in 0..L : e[i] \in Nat
  BY SumsType, ElementOfSeq
<1>2. L \in Nat /\ L \in 0..L
  BY LenProperties
<1>3. \A i \in 0..L : e[i] <= e[L]
  BY <1>2, SumsMonotone
<1>4. Size(s) = e[L] /\ \A i : After(s, i) = e[L] - e[i]
  BY DEF Size, After
<1> HIDE DEF e, L
<1>5. ASSUME NEW i \in 1..L PROVE e[L] = e[i-1] + s[i] + (e[L] - e[i])
  <2>1. i \in 0..L /\ i - 1 \in 0..L
    BY <1>2
  <2> DEFINE x == e[i-1]
             y == s[i]
             z == e[L]
             w == e[i]
  <2>2. x \in Nat /\ y \in Nat /\ z \in Nat /\ w = x + y
    BY <1>1, <1>2, <2>1
  <2> HIDE DEF x, y, z, w
  <2>3. z = x + y + (z - w)
    BY <2>2
  <2> QED
    BY <2>3 DEF x, y, z, w
<1> QED
  BY <1>1, <1>2, <1>3, <1>4, <1>5 DEF e, L

(* The first entries of two sequences, and the last. *)
LEMMA SumsPrefix ==
  ASSUME NEW s \in Seq(Nat), NEW t \in Seq(Nat), NEW m \in Nat,
         m <= Len(s), m <= Len(t), \A i \in 1..m : s[i] = t[i]
  PROVE  Sums(s)[m] = Sums(t)[m]
<1> DEFINE z == 0
<1>1. /\ z \in Nat /\ z + m = m /\ \A i \in 1..m : z + i = i
      /\ z \in 0..Len(s) /\ m \in 0..Len(s) /\ m \in 0..Len(t)
  BY LenProperties
<1>2. Sums(s)[z] = 0 /\ Sums(t)[z] = 0
  BY SizeIs
<1> HIDE DEF z
<1>3. Sums(s)[z+m] - Sums(s)[z] = Sums(t)[z+m] - Sums(t)[z]
  <2>1. Alike(s, t, z, z, m)
    BY <1>1 DEF Alike
  <2>2. Sums(s)[m] - Sums(s)[z] = Sums(t)[m] - Sums(t)[z]
    BY <1>1, <2>1, SumsAlike
  <2> QED
    BY <1>1, <2>2
<1>4. Sums(s)[m] \in Nat /\ Sums(t)[m] \in Nat
  BY <1>1, SizeIs
<1> DEFINE x == Sums(s)[m]
           y == Sums(t)[m]
<1>5. x \in Nat /\ y \in Nat /\ x - 0 = y - 0
  BY <1>1, <1>2, <1>3, <1>4
<1> HIDE DEF x, y
<1>6. x = y
  BY <1>5
<1> QED
  BY <1>6 DEF x, y

LEMMA SumsSuffix ==
  ASSUME NEW s \in Seq(Nat), NEW t \in Seq(Nat), NEW a \in Nat, NEW b \in Nat,
         a <= Len(s), b <= Len(t), Len(s) - a = Len(t) - b,
         Alike(s, t, a, b, Len(s) - a)
  PROVE  After(s, a) = After(t, b)
<1> DEFINE m == Len(s) - a
<1>1. m \in Nat /\ a + m = Len(s) /\ b + m = Len(t) /\ a + m <= Len(s) /\ b + m <= Len(t)
  BY LenProperties
<1>2. Alike(s, t, a, b, m)
  OBVIOUS
<1> HIDE DEF m
<1> DEFINE c == Len(s)
           d == Len(t)
<1>3. c \in 0..Len(s) /\ d \in 0..Len(t) /\ c = a + m /\ d = b + m
  BY <1>1, LenProperties
<1> HIDE DEF c, d
<1>4. Sums(s)[c] - Sums(s)[a] = Sums(t)[d] - Sums(t)[b]
  BY <1>1, <1>2, <1>3, SumsAlike
<1> QED
  BY <1>4 DEF After, Size, c, d

(* An entry more, an entry less, an entry changed, and the two parts. *)
LEMMA SizeInserted ==
  ASSUME NEW s \in Seq(Nat), NEW p \in 1..Len(s)+1, NEW e \in Nat,
         NEW t \in Seq(Nat), IsInserted(t, s, p, e)
  PROVE  Size(t) = Size(s) + e
<1> DEFINE L == Len(s)
<1>1. /\ t \in Seq(Nat) /\ Len(t) = L + 1
      /\ \A i \in 1..L+1 : t[i] = IF i < p THEN s[i] ELSE IF i = p THEN e ELSE s[i-1]
  BY DEF IsInserted
<1>2. L \in Nat /\ p \in Nat /\ p - 1 \in Nat /\ p - 1 <= L /\ 1 <= p /\ p <= L + 1 /\ p \in 1..Len(t)
  BY <1>1, LenProperties
<1>3. Sums(t)[p-1] = Sums(s)[p-1]
  <2>1. \A i \in 1..(p-1) : t[i] = s[i]
    BY SMTT(30), <1>1, <1>2
  <2>2. p - 1 <= Len(t) /\ p - 1 <= Len(s)
    BY <1>1, <1>2
  <2> QED
    BY <1>1, <1>2, <2>1, <2>2, SumsPrefix
<1>4. After(t, p) = After(s, p-1)
  <2>1. ASSUME NEW i \in 1..(Len(t) - p) PROVE t[p+i] = s[(p-1)+i]
    <3>1. p + i \in 1..L+1 /\ ~(p + i < p) /\ p + i # p /\ (p + i) - 1 = (p - 1) + i
      BY <1>1, <1>2
    <3> QED
      BY <1>1, <3>1
  <2>2. p <= Len(t) /\ p - 1 <= Len(s) /\ Len(t) - p = Len(s) - (p - 1)
    BY <1>1, <1>2
  <2> QED
    BY ZenonT(40), <1>1, <1>2, <2>1, <2>2, SumsSuffix DEF Alike
<1>5. Size(t) = Sums(t)[p-1] + t[p] + After(t, p) /\ t[p] = e
  <2>1. Size(t) = Sums(t)[p-1] + t[p] + After(t, p)
    BY <1>1, <1>2, SizeIs
  <2>2. p \in 1..L+1 /\ ~(p < p)
    BY <1>2
  <2> QED
    BY <1>1, <2>1, <2>2
<1> DEFINE x == Sums(s)[p-1]
           z == Size(s)
<1>6. x \in Nat /\ z \in Nat
  BY <1>2, SizeIs
<1>7. Size(t) = x + e + (z - x)
  BY <1>3, <1>4, <1>5 DEF After
<1> HIDE DEF x, z
<1>8. x + e + (z - x) = z + e
  BY <1>6
<1> QED
  BY <1>7, <1>8 DEF z

LEMMA SizeRemoved ==
  ASSUME NEW s \in Seq(Nat), NEW p \in 1..Len(s), NEW t \in Seq(Nat), IsRemoved(t, s, p)
  PROVE  Size(t) <= Size(s)
<1> DEFINE L == Len(s)
<1>1. /\ t \in Seq(Nat) /\ Len(t) = L - 1
      /\ \A i \in 1..L-1 : t[i] = IF i < p THEN s[i] ELSE s[i+1]
  BY DEF IsRemoved
<1>2. L \in Nat /\ p \in Nat /\ p - 1 \in Nat /\ p - 1 <= L - 1 /\ 1 <= p /\ p <= L
  BY LenProperties
<1>3. Sums(t)[p-1] = Sums(s)[p-1]
  <2>1. ASSUME NEW i \in 1..(p-1) PROVE t[i] = s[i]
    <3>1. i \in 1..L-1 /\ i < p
      BY <1>2
    <3> QED
      BY <1>1, <3>1
  <2>2. p - 1 <= Len(t) /\ p - 1 <= Len(s)
    BY <1>1, <1>2
  <2> QED
    BY <1>1, <1>2, <2>1, <2>2, SumsPrefix
<1>4. After(t, p-1) = After(s, p)
  <2>1. ASSUME NEW i \in 1..(Len(t) - (p-1)) PROVE t[(p-1)+i] = s[p+i]
    <3>1. (p - 1) + i \in 1..L-1 /\ ~((p - 1) + i < p) /\ ((p - 1) + i) + 1 = p + i
      BY <1>1, <1>2
    <3> QED
      BY <1>1, <3>1
  <2>2. p - 1 <= Len(t) /\ p <= Len(s) /\ Len(t) - (p - 1) = Len(s) - p
    BY <1>1, <1>2
  <2> QED
    BY ZenonT(40), <1>1, <1>2, <2>1, <2>2, SumsSuffix DEF Alike
<1>5. Size(s) = Sums(s)[p-1] + s[p] + After(s, p) /\ s[p] \in Nat
  BY SizeIs
<1>6. Sums(t)[p-1] \in Nat /\ Size(t) \in Nat /\ Size(s) \in Nat
  BY <1>1, <1>2, SizeIs
<1> DEFINE x == Sums(t)[p-1]
           y == Size(t)
           z == Size(s)
           w == s[p]
<1>7. x \in Nat /\ y \in Nat /\ z \in Nat /\ w \in Nat /\ z = x + w + (y - x)
  BY <1>3, <1>4, <1>5, <1>6 DEF After
<1> HIDE DEF x, y, z, w
<1>8. y <= z
  BY <1>7
<1> QED
  BY <1>8 DEF y, z

LEMMA SizeExcept ==
  ASSUME NEW s \in Seq(Nat), NEW p \in 1..Len(s), NEW e \in Nat
  PROVE  /\ [s EXCEPT ![p] = e] \in Seq(Nat) /\ Len([s EXCEPT ![p] = e]) = Len(s)
         /\ Size([s EXCEPT ![p] = e]) <= Size(s) + e
<1> DEFINE t == [s EXCEPT ![p] = e]
           L == Len(s)
<1>1. /\ t \in Seq(Nat) /\ Len(t) = L
      /\ \A i \in 1..L : t[i] = IF i = p THEN e ELSE s[i]
  BY ExceptSeq
<1>2. L \in Nat /\ p \in Nat /\ p - 1 \in Nat /\ p - 1 <= L /\ 1 <= p /\ p <= L /\ p \in 1..Len(t)
  BY <1>1, LenProperties
<1> HIDE DEF t
<1>3. Sums(t)[p-1] = Sums(s)[p-1]
  <2>1. \A i \in 1..(p-1) : t[i] = s[i]
    BY <1>1, <1>2
  <2>2. p - 1 <= Len(t) /\ p - 1 <= Len(s)
    BY <1>1, <1>2
  <2> QED
    BY <1>1, <1>2, <2>1, <2>2, SumsPrefix
<1>4. After(t, p) = After(s, p)
  <2>1. ASSUME NEW i \in 1..(Len(t) - p) PROVE t[p+i] = s[p+i]
    <3>1. p + i \in 1..L /\ p + i # p
      BY <1>1, <1>2
    <3> QED
      BY <1>1, <3>1
  <2>2. p <= Len(t) /\ p <= Len(s) /\ Len(t) - p = Len(s) - p
    BY <1>1, <1>2
  <2> QED
    BY ZenonT(40), <1>1, <1>2, <2>1, <2>2, SumsSuffix DEF Alike
<1>5. /\ Size(s) = Sums(s)[p-1] + s[p] + After(s, p) /\ s[p] \in Nat
      /\ Size(t) = Sums(t)[p-1] + t[p] + After(t, p) /\ t[p] = e
  BY <1>1, <1>2, SizeIs
<1>6. Sums(s)[p-1] \in Nat /\ Sums(s)[p] \in Nat /\ Size(s) \in Nat
  BY <1>2, SizeIs
<1> DEFINE x == Sums(s)[p-1]
           y == Sums(s)[p]
           z == Size(s)
           w == s[p]
<1>7. x \in Nat /\ y \in Nat /\ z \in Nat /\ w \in Nat /\ z = x + w + (z - y)
  BY <1>5, <1>6 DEF After
<1>8. Size(t) = x + e + (z - y)
  BY <1>3, <1>4, <1>5 DEF After
<1> HIDE DEF x, y, z, w
<1>9. x + e + (z - y) <= z + e
  BY <1>7
<1>10. Size(t) <= Size(s) + e
  BY <1>8, <1>9 DEF z
<1> QED
  BY <1>1, <1>10 DEF t

LEMMA SizeOfParts ==
  ASSUME NEW s \in Seq(Nat), NEW m \in 0..Len(s),
         NEW a \in Seq(Nat), IsPart(a, s, 0, m),
         NEW c \in Seq(Nat), IsPart(c, s, m, Len(s) - m)
  PROVE  Size(a) = Sums(s)[m] /\ Size(c) = After(s, m)
<1>1. Len(s) \in Nat /\ m \in Nat /\ m <= Len(s)
  BY LenProperties
<1>2. /\ a \in Seq(Nat) /\ IsPart(a, s, 0, m)
      /\ c \in Seq(Nat) /\ IsPart(c, s, m, Len(s) - m)
  OBVIOUS
<1>4. Size(a) = Sums(s)[m]
  <2>1. m <= Len(a) /\ m <= Len(s) /\ Len(a) = m
    BY <1>1, <1>2 DEF IsPart
  <2>2. \A i \in 1..m : a[i] = s[i]
    BY <1>1, <1>2 DEF IsPart
  <2>3. Sums(a)[m] = Sums(s)[m]
    BY <1>1, <1>2, <2>1, <2>2, SumsPrefix
  <2> QED
    BY <2>1, <2>3 DEF Size
<1>5. Size(c) = After(s, m)
  <2>1. /\ 0 \in Nat /\ 0 <= Len(c) /\ m <= Len(s) /\ Len(c) - 0 = Len(s) - m
        /\ \A i \in 1..(Len(c) - 0) : 0 + i = i /\ c[i] = s[m+i]
    BY SMTT(30), <1>1, <1>2 DEF IsPart
  <2>2. After(c, 0) = After(s, m)
    <3>1. Alike(c, s, 0, m, Len(c) - 0)
      BY <2>1 DEF Alike
    <3> QED
      BY ZenonT(40), <1>1, <1>2, <2>1, <3>1, SumsSuffix
  <2>3. Sums(c)[0] = 0 /\ Size(c) \in Nat
    BY <1>2, SizeIs
  <2>4. After(c, 0) = Size(c)
    BY <2>3 DEF After
  <2> QED
    BY <2>2, <2>4
<1> QED
  BY <1>4, <1>5

(* What entries take without their slots is at least half of what they      *)
(* take, in every stretch of them.                                          *)

\* A slot is no more than what it leads to.
SmallSlots(s) == \A i \in 1..Len(s) : 2 * SlotSize <= s[i]

LEMMA EntrySizesAre ==
  ASSUME NEW s \in Seq(Nat), SmallSlots(s)
  PROVE  /\ EntrySizes(s) \in Seq(Nat) /\ Len(EntrySizes(s)) = Len(s)
         /\ \A i \in 1..Len(s) : EntrySizes(s)[i] = s[i] - SlotSize
<1> DEFINE e == EntrySizes(s)
<1>1. Len(s) \in Nat /\ DOMAIN s = 1..Len(s) /\ SlotSize \in Nat
  BY LenProperties, ConstantsAssumption
<1>2. e = [i \in 1..Len(s) |-> s[i] - SlotSize]
  BY <1>1 DEF EntrySizes
<1>3. ASSUME NEW i \in 1..Len(s) PROVE s[i] - SlotSize \in Nat
  <2>1. s[i] \in Nat /\ 2 * SlotSize <= s[i]
    BY ElementOfSeq DEF SmallSlots
  <2> QED
    BY <1>1, <2>1
<1> HIDE DEF e
<1>4. e \in [1..Len(s) -> Nat]
  BY <1>2, <1>3
<1>5. e \in Seq(Nat) /\ Len(e) = Len(s)
  BY <1>1, <1>4, LenProperties, SequenceShape
<1> QED
  BY <1>2, <1>5 DEF e

LEMMA EntriesAreMost ==
  ASSUME NEW s \in Seq(Nat), SmallSlots(s), NEW a \in 0..Len(s), NEW c \in 0..Len(s), a <= c
  PROVE  LET d == Sums(EntrySizes(s))[c] - Sums(EntrySizes(s))[a]
         IN /\ d \in Nat
            /\ d <= Sums(s)[c] - Sums(s)[a]
            /\ Sums(s)[c] - Sums(s)[a] <= 2 * d
<1> DEFINE t == EntrySizes(s)
           e == Sums(s)
           g == Sums(t)
           m == c - a
           Between(j) == /\ g[a] <= g[a+j] /\ g[a+j] - g[a] <= e[a+j] - e[a]
                         /\ e[a+j] - e[a] <= 2 * (g[a+j] - g[a])
           S == {j \in Nat : j <= m => Between(j)}
<1>1. /\ t \in Seq(Nat) /\ Len(t) = Len(s)
      /\ \A i \in 1..Len(s) : t[i] = s[i] - SlotSize
  BY EntrySizesAre
<1>2. Len(s) \in Nat /\ a \in Nat /\ m \in Nat /\ a + m = c /\ a + m <= Len(s) /\ SlotSize \in Nat
  BY LenProperties, ConstantsAssumption
<1> HIDE DEF t, m
<1>3. /\ \A n \in 1..Len(s) : e[n] = e[n-1] + s[n]
      /\ \A n \in 0..Len(s) : e[n] \in Nat
      /\ \A n \in 1..Len(s) : g[n] = g[n-1] + t[n]
      /\ \A n \in 0..Len(s) : g[n] \in Nat
  BY <1>1, SumsType
<1>4. \A n \in 1..Len(s) : s[n] \in Nat /\ t[n] \in Nat /\ 2 * SlotSize <= s[n]
  BY <1>1, ElementOfSeq DEF SmallSlots
<1> HIDE DEF e, g
<1>5. 0 \in S
  <2>1. a + 0 = a /\ e[a] \in Nat /\ g[a] \in Nat
    BY <1>2, <1>3
  <2>2. Between(0)
    BY <2>1
  <2> QED
    BY <2>2
<1>6. ASSUME NEW j \in S PROVE j + 1 \in S
  <2> SUFFICES ASSUME j + 1 <= m PROVE Between(j+1)
    OBVIOUS
  <2>1. j \in Nat
    OBVIOUS
  <2>2. /\ a + (j+1) \in 1..Len(s) /\ (a + (j+1)) - 1 = a + j /\ a + j \in 0..Len(s)
        /\ a \in 0..Len(s) /\ j <= m
    BY SMTT(30), <1>2, <2>1
  <2>3. Between(j)
    BY <2>2
  <2> DEFINE x == e[a+j]
             y == e[a]
             z == g[a+j]
             w == g[a]
             q == s[a+(j+1)]
             p == t[a+(j+1)]
  <2>4. /\ x \in Nat /\ y \in Nat /\ z \in Nat /\ w \in Nat
        /\ w <= z /\ z - w <= x - y /\ x - y <= 2 * (z - w)
    BY <1>3, <2>2, <2>3
  <2>5. q \in Nat /\ p \in Nat /\ p = q - SlotSize /\ 2 * SlotSize <= q
    BY <1>1, <1>4, <2>2
  <2>6. e[a+(j+1)] = x + q /\ g[a+(j+1)] = z + p
    <3>1. e[a+(j+1)] = e[(a + (j+1)) - 1] + s[a+(j+1)]
      BY <1>3, <2>2
    <3>2. g[a+(j+1)] = g[(a + (j+1)) - 1] + t[a+(j+1)]
      BY <1>3, <2>2
    <3> QED
      BY <2>2, <3>1, <3>2
  <2> HIDE DEF x, z, q, p
  <2>7. w <= z + p /\ (z + p) - w <= (x + q) - y /\ (x + q) - y <= 2 * ((z + p) - w)
    <3> HIDE DEF y, w
    <3> QED
      BY <1>2, <2>4, <2>5
  <2> QED
    BY <2>6, <2>7
<1>7. S = Nat
  <2> HIDE DEF S
  <2>1. S \in SUBSET Nat
    BY DEF S
  <2> QED
    BY <1>5, <1>6, <2>1, Induction
<1>8. m \in S /\ m <= m
  <2> HIDE DEF S
  <2> QED
    BY <1>2, <1>7
<1>9. Between(m)
  BY <1>8
<1>10. e[c] \in Nat /\ e[a] \in Nat /\ g[c] \in Nat /\ g[a] \in Nat
  BY <1>3
<1> DEFINE x == e[c]
           y == e[a]
           z == g[c]
           w == g[a]
<1>11. w <= z /\ z - w <= x - y /\ x - y <= 2 * (z - w)
  BY <1>2, <1>9
<1> HIDE DEF x, y, z, w
<1>12. z - w \in Nat
  BY <1>10, <1>11 DEF z, w
<1> QED
  BY <1>11, <1>12 DEF x, y, z, w, e, g, t

(* The balanced cut: the entries before it are not more than half, ... *)
LEMMA BalancedIs ==
  ASSUME NEW s \in Seq(Nat), SmallSlots(s), Size(s) # 0
  PROVE  LET e == EntrySizes(s)
         IN /\ BalancedSplit(s) \in 1..Len(s)
            /\ Size(e) \div 2 < Sums(e)[BalancedSplit(s)]
            /\ Sums(e)[BalancedSplit(s) - 1] <= Size(e) \div 2
<1> DEFINE e == EntrySizes(s)
           T == Size(e)
           q == T \div 2
           over == {i \in DOMAIN s : Sums(e)[i] > q}
           c == BalancedSplit(s)
<1>0. e \in Seq(Nat) /\ Len(e) = Len(s) /\ Len(s) \in Nat /\ DOMAIN s = 1..Len(s)
  BY EntrySizesAre, LenProperties
<1>1. /\ T \in Nat
      /\ \A i \in 0..Len(s) : Sums(e)[i] \in Nat
      /\ Sums(e)[0] = 0 /\ Sums(e)[Len(s)] = T
  BY <1>0, SizeIs
<1>2. q \in Nat /\ q < T
  <2> DEFINE z == Size(s)
  <2>1. z \in Nat /\ z # 0 /\ z - 0 <= 2 * (T - 0)
    <3>1. 0 \in 0..Len(s) /\ Len(s) \in 0..Len(s) /\ 0 <= Len(s)
      BY <1>0
    <3>2. Sums(s)[Len(s)] - Sums(s)[0] <= 2 * (Sums(e)[Len(s)] - Sums(e)[0])
      BY <3>1, EntriesAreMost
    <3>3. Sums(s)[Len(s)] = z /\ Sums(s)[0] = 0 /\ z \in Nat
      BY SizeIs
    <3> QED
      BY <1>1, <3>2, <3>3
  <2> HIDE DEF T, z
  <2> QED
    BY <1>1, <2>1 DEF T
<1> HIDE DEF e, T, q
<1>3. Len(s) # 0
  BY <1>1, <1>2
<1>4. Len(s) \in over
  BY <1>0, <1>1, <1>2, <1>3
<1>5. over \in SUBSET Nat
  BY <1>0
<1>6. c = Min(over)
  BY DEF BalancedSplit, q, T, e
<1>7. c \in over /\ \A i \in over : c <= i
  <2> HIDE DEF over
  <2>1. over # {}
    BY <1>4
  <2> QED
    BY <1>5, <1>6, <2>1, MinIsLeast
<1> HIDE DEF c
<1>8. c \in 1..Len(s) /\ q < Sums(e)[c]
  BY <1>0, <1>1, <1>2, <1>7
<1>9. Sums(e)[c-1] <= q
  <2>1. CASE c = 1
    <3>1. c - 1 = 0
      BY <2>1
    <3> QED
      BY <1>1, <1>2, <3>1
  <2>2. CASE c # 1
    <3>1. c - 1 \in 1..Len(s) /\ c - 1 \in 0..Len(s) /\ ~(c <= c - 1)
      BY <1>0, <1>8, <2>2
    <3>2. c - 1 \notin over
      BY <1>7, <3>1
    <3>3. ~(Sums(e)[c-1] > q)
      BY <1>0, <3>1, <3>2
    <3> DEFINE x == Sums(e)[c-1]
    <3>4. x \in Nat /\ ~(x > q)
      BY <1>1, <3>1, <3>3
    <3> HIDE DEF x
    <3>5. x <= q
      BY <1>2, <3>4
    <3> QED
      BY <3>5 DEF x
  <2> QED
    BY <2>1, <2>2
<1> QED
  BY <1>8, <1>9 DEF c, q, T, e

(* ... so that what is before it, the entry there and what is after it are  *)
(* x, y and z, of which x and z are at most two thirds.                     *)
LEMMA BalancedParts ==
  ASSUME NEW s \in Seq(Nat), SmallSlots(s), Size(s) # 0
  PROVE  LET c == BalancedSplit(s)
             x == Sums(s)[c-1]
             y == s[c]
             z == After(s, c)
         IN /\ c \in 1..Len(s) /\ x \in Nat /\ y \in Nat /\ z \in Nat
            /\ Size(s) = x + y + z /\ Sums(s)[c] = x + y
            /\ x <= 2 * (y + z) /\ z <= 2 * (x + y)
            /\ c = Len(s) => z = 0 /\ x + SlotSize <= 2 * y
<1> DEFINE e == EntrySizes(s)
           c == BalancedSplit(s)
           L == Len(s)
           x == Sums(s)[c-1]
           y == s[c]
           z == After(s, c)
           x0 == Sums(e)[c-1]
           y0 == e[c]
           z0 == After(e, c)
           T == Size(e)
           q == T \div 2
<1>1. e \in Seq(Nat) /\ Len(e) = L /\ L \in Nat
  BY EntrySizesAre, LenProperties
<1>2. c \in 1..L /\ q < Sums(e)[c] /\ x0 <= q
  BY BalancedIs
<1>3. c - 1 \in 0..L /\ c \in 0..L /\ 0 \in 0..L /\ L \in 0..L /\ 0 <= c - 1 /\ c <= L /\ c - 1 <= c
  BY <1>1, <1>2
<1> HIDE DEF e, c, L
<1>4. /\ x \in Nat /\ y \in Nat /\ Size(s) \in Nat /\ Sums(s)[c] \in Nat
      /\ Sums(s)[c] = x + y /\ Size(s) = x + y + z
      /\ Sums(s)[0] = 0 /\ Sums(s)[L] = Size(s) /\ Sums(s)[c] <= Size(s)
  BY <1>2, <1>3, SizeIs DEF L
<1>5. /\ x0 \in Nat /\ y0 \in Nat /\ T \in Nat /\ Sums(e)[c] \in Nat
      /\ Sums(e)[c] = x0 + y0 /\ T = x0 + y0 + z0
      /\ Sums(e)[0] = 0 /\ Sums(e)[L] = T
  BY <1>1, <1>2, <1>3, SizeIs
<1>6. z = Size(s) - Sums(s)[c] /\ z0 = T - Sums(e)[c]
  BY DEF After
<1>7. y0 = y - SlotSize /\ SlotSize \in Nat /\ 2 * SlotSize <= y
  BY <1>2, EntrySizesAre, ConstantsAssumption DEF e, L, SmallSlots
<1>8. x - 0 <= 2 * (x0 - 0)
  <2>1. Sums(s)[c-1] - Sums(s)[0] <= 2 * (Sums(e)[c-1] - Sums(e)[0])
    BY <1>3, EntriesAreMost DEF e, L
  <2> QED
    BY <1>4, <1>5, <2>1
<1>9. z <= 2 * z0 /\ z0 <= z
  <2>1. /\ Sums(e)[L] - Sums(e)[c] <= Sums(s)[L] - Sums(s)[c]
        /\ Sums(s)[L] - Sums(s)[c] <= 2 * (Sums(e)[L] - Sums(e)[c])
    BY <1>3, EntriesAreMost DEF e, L
  <2> QED
    BY <1>4, <1>5, <1>6, <2>1
<1>10. x0 - 0 <= x - 0
  <2>1. Sums(e)[c-1] - Sums(e)[0] <= Sums(s)[c-1] - Sums(s)[0]
    BY <1>3, EntriesAreMost DEF e, L
  <2> QED
    BY <1>4, <1>5, <2>1
<1>11. q \in Nat /\ 2 * q <= T /\ T <= 2 * q + 1
  <2> HIDE DEF T
  <2> QED
    BY <1>5
<1>12. c = L => z = 0 /\ z0 = 0
  <2>1. c = L => Sums(s)[c] = Size(s) /\ Sums(e)[c] = T
    BY <1>4, <1>5
  <2> DEFINE a == Size(s)
  <2>2. a \in Nat /\ T \in Nat
    BY <1>4, <1>5
  <2> HIDE DEF a, T
  <2> QED
    BY <1>6, <2>1, <2>2 DEF a
<1>13. q < x0 + y0
  BY <1>2, <1>5
<1> DEFINE N == Size(s)
           b == Sums(s)[c]
<1>14. /\ N \in Nat /\ b \in Nat /\ b = x + y /\ N = x + y + z /\ b <= N /\ z = N - b
  BY <1>4, <1>6
<1> HIDE DEF N, b, x, y, z, x0, y0, z0, T, q
<1>15. z \in Nat
  BY <1>4, <1>14
<1>16. z0 \in Int
  <2> DEFINE d == Sums(e)[c]
  <2>1. d \in Nat /\ T \in Nat /\ z0 = T - d
    BY <1>5, <1>6
  <2> HIDE DEF d
  <2> QED
    BY <2>1
<1>17. x <= 2 * (y + z) /\ z <= 2 * (x + y)
  <2>1. x0 <= y0 + z0 /\ z0 <= x0 + y0
    BY <1>2, <1>5, <1>11, <1>13, <1>16
  <2>2. y0 <= y
    BY <1>4, <1>5, <1>7
  <2> QED
    BY <1>4, <1>5, <1>8, <1>9, <1>10, <1>15, <1>16, <2>1, <2>2
<1>18. c = L => z = 0 /\ x + SlotSize <= 2 * y
  <2> SUFFICES ASSUME c = L PROVE z = 0 /\ x + SlotSize <= 2 * y
    OBVIOUS
  <2>1. z = 0 /\ z0 = 0
    BY <1>12
  <2>2. x0 <= y0
    BY <1>2, <1>5, <1>11, <2>1
  <2> QED
    BY <1>4, <1>5, <1>7, <1>8, <2>1, <2>2
<1> QED
  BY <1>2, <1>4, <1>14, <1>15, <1>17, <1>18 DEF N, b, x, y, z, c, L

(* A page that is too full is not all before the cut, if an entry is at     *)
(* most a third of it; ...                                                  *)
LEMMA BalancedCuts ==
  ASSUME NEW s \in Seq(Nat), SmallSlots(s), NEW cap \in Nat,
         \A i \in 1..Len(s) : 3 * s[i] <= cap, cap < Size(s)
  PROVE  BalancedSplit(s) \in 1..Len(s) /\ BalancedSplit(s) < Len(s)
<1> DEFINE c == BalancedSplit(s)
           L == Len(s)
           x == Sums(s)[c-1]
           y == s[c]
           z == After(s, c)
           N == Size(s)
<1>1. N \in Nat /\ N # 0 /\ L \in Nat /\ cap < N
  <2>1. N \in Nat /\ cap < N
    BY SizeIs
  <2> HIDE DEF N
  <2> QED
    BY <2>1, LenProperties
<1>2. /\ c \in 1..L /\ x \in Nat /\ y \in Nat /\ N = x + y + z
      /\ c = L => z = 0 /\ x + SlotSize <= 2 * y
  BY <1>1, BalancedParts
<1>3. 3 * y <= cap /\ SlotSize \in Nat
  BY <1>2, ConstantsAssumption
<1> HIDE DEF c, L, x, y, z, N
<1>4. c # L
  BY <1>1, <1>2, <1>3
<1> QED
  BY <1>1, <1>2, <1>4 DEF c, L

(* ... and both parts fit, if it is at most a fifth. *)
LEMMA BalancedFits ==
  ASSUME NEW s \in Seq(Nat), SmallSlots(s), NEW cap \in Nat, NEW v \in Nat, 5 * v <= cap,
         \A i \in 1..Len(s) : 5 * s[i] <= cap,
         cap < Size(s), Size(s) <= cap + v
  PROVE  /\ BalancedSplit(s) \in 1..Len(s) /\ BalancedSplit(s) < Len(s)
         /\ Sums(s)[BalancedSplit(s)] <= cap
         /\ After(s, BalancedSplit(s)) <= cap
<1> DEFINE c == BalancedSplit(s)
           x == Sums(s)[c-1]
           y == s[c]
           z == After(s, c)
           N == Size(s)
<1>1. N \in Nat /\ N # 0 /\ cap < N /\ N <= cap + v
  <2>1. N \in Nat /\ cap < N /\ N <= cap + v
    BY SizeIs
  <2> HIDE DEF N
  <2> QED
    BY <2>1
<1>2. \A i \in 1..Len(s) : 3 * s[i] <= cap
  <2> TAKE i \in 1..Len(s)
  <2>1. s[i] \in Nat /\ 5 * s[i] <= cap
    BY ElementOfSeq
  <2> QED
    BY <2>1
<1>3. c \in 1..Len(s) /\ c < Len(s)
  BY <1>1, <1>2, BalancedCuts
<1>4. /\ x \in Nat /\ y \in Nat /\ z \in Nat /\ N = x + y + z /\ Sums(s)[c] = x + y
      /\ x <= 2 * (y + z) /\ z <= 2 * (x + y)
  BY <1>1, BalancedParts
<1>5. 5 * y <= cap
  BY <1>3
<1> HIDE DEF c, x, y, z, N
<1>6. x + y <= cap
  <2>1. 3 * x <= 2 * (cap + v)
    BY <1>1, <1>4
  <2> QED
    BY <1>4, <1>5, <2>1
<1>7. z <= cap
  <2>1. 3 * z <= 2 * (cap + v)
    BY <1>1, <1>4
  <2> QED
    BY <1>4, <2>1
<1> QED
  BY <1>3, <1>4, <1>6, <1>7 DEF c, z

-----------------------------------------------------------------------------
(* What an operation makes of a leaf.                                       *)

\* g is f but for the value of k, which is v.
Sets(g, f, k, v) == g[k] = v /\ \A j \in Keys : j # k => g[j] = f[j]

\* r is empty, or a search tree, or two side by side.
Result(r, lo, hi, h, f) ==
    \/ /\ r.split = <<>> /\ r.node = EmptyNode
       /\ \A j \in Nat : lo <= j /\ j < hi => f[j] = Missing
    \/ r.split = <<>> /\ SearchTree(r.node, lo, hi, h, f)
    \/ /\ r.split # <<>>
       /\ r.split[1].key \in Nat /\ lo < r.split[1].key /\ r.split[1].key < hi
       /\ SearchTree(r.node, lo, r.split[1].key, h, f)
       /\ SearchTree(r.split[1].right, r.split[1].key, hi, h, f)

LEMMA InBounds ==
  ASSUME NEW lo, NEW hi, IsBounds(lo, hi), NEW k \in Nat, lo <= k, k < hi
  PROVE  k \in Keys
<1>1. NumKeys \in Nat
  BY ConstantsAssumption
<1> QED
  BY <1>1 DEF IsBounds, Keys

LEMMA ValueIs ==
  ASSUME NEW k \in Keys, NEW v \in Values[k]
  PROVE  v \in Nat /\ v # Missing /\ 3 * v <= LeafCap /\ 2 * SlotSize <= v
<1>1. Values[k] \subseteq 1..LeafCap /\ LeafCap \in Nat
  BY ConstantsAssumption DEF Keys
<1>2. 3 * v <= LeafCap /\ 2 * SlotSize <= v
  BY ConstantsAssumption DEF Keys
<1> QED
  BY <1>1, <1>2 DEF Missing

(* A key put in at its place leaves the keys in order. *)
LEMMA AscendingInsert ==
  ASSUME NEW s \in Seq(Nat), Ascending(s), NEW k \in Nat, NEW p \in 1..Len(s)+1,
         \A i \in 1..Len(s) : i < p => s[i] < k,
         \A i \in 1..Len(s) : p <= i => k < s[i],
         NEW t, IsInserted(t, s, p, k)
  PROVE  Ascending(t)
<1>1. /\ Len(t) = Len(s) + 1 /\ Len(s) \in Nat /\ p \in Nat
      /\ \A i \in 1..Len(s) : s[i] \in Nat
  BY LenProperties, ElementOfSeq DEF IsInserted
<1>2. \A i \in 1..Len(s)+1 : t[i] = IF i < p THEN s[i] ELSE IF i = p THEN k ELSE s[i-1]
  BY DEF IsInserted
<1>3. \A i, j \in 1..Len(s) : i < j => s[i] < s[j]
  BY DEF Ascending
<1> SUFFICES ASSUME NEW i \in 1..Len(s)+1, NEW j \in 1..Len(s)+1, i < j PROVE t[i] < t[j]
  BY <1>1 DEF Ascending
<1>4. i \in Nat /\ j \in Nat /\ i - 1 \in Nat /\ j - 1 \in Nat
  BY <1>1
<1>5. CASE j < p
  <2>1. i < p /\ i \in 1..Len(s) /\ j \in 1..Len(s)
    BY <1>1, <1>4, <1>5
  <2>2. t[i] = s[i] /\ t[j] = s[j]
    BY <1>2, <1>5, <2>1
  <2> QED
    BY <1>3, <2>1, <2>2
<1>6. CASE j = p
  <2>1. i < p /\ i \in 1..Len(s) /\ ~(j < p)
    BY <1>1, <1>4, <1>6
  <2>2. t[i] = s[i] /\ t[j] = k
    BY <1>2, <1>6, <2>1
  <2> QED
    BY <2>1, <2>2
<1>7. CASE p < j
  <2>1. j - 1 \in 1..Len(s) /\ p <= j - 1 /\ ~(j < p) /\ j # p
    BY <1>1, <1>4, <1>7
  <2>2. t[j] = s[j-1]
    BY <1>2, <2>1
  <2>3. CASE i < p
    <3>1. i \in 1..Len(s) /\ i < j - 1
      BY <1>1, <1>4, <1>7, <2>3
    <3>2. t[i] = s[i]
      BY <1>2, <2>3
    <3> QED
      BY <1>3, <2>1, <2>2, <3>1, <3>2
  <2>4. CASE i = p
    <3>1. t[i] = k
      BY <1>2, <2>4
    <3> QED
      BY <2>1, <2>2, <3>1
  <2>5. CASE p < i
    <3>1. i - 1 \in 1..Len(s) /\ i - 1 < j - 1 /\ ~(i < p) /\ i # p
      BY <1>1, <1>4, <2>5
    <3>2. t[i] = s[i-1]
      BY <1>2, <3>1
    <3> QED
      BY <1>3, <2>1, <2>2, <3>1, <3>2
  <2> QED
    BY <1>1, <1>4, <2>3, <2>4, <2>5
<1> QED
  BY <1>1, <1>4, <1>5, <1>6, <1>7

(* A leaf with a new key, ... *)
LEMMA LeafGains ==
  ASSUME NEW n, NEW lo, NEW hi, NEW f, IsBounds(lo, hi), LeafShape(n, lo, hi, f),
         NEW k \in Nat, lo <= k, k < hi, NEW v \in Values[k], NEW g, Sets(g, f, k, v),
         NEW p \in 1..Len(n.keys)+1,
         \A i \in 1..Len(n.keys) : i < p => n.keys[i] < k,
         \A i \in 1..Len(n.keys) : p <= i => k < n.keys[i],
         NEW keys \in Seq(Nat), IsInserted(keys, n.keys, p, k),
         NEW vals \in Seq(Nat), IsInserted(vals, n.vals, p, v)
  PROVE  LeafShape(Leaf(keys, vals), lo, hi, g)
<1> DEFINE s == n.keys
           w == n.vals
           L == Len(s)
<1>1. /\ s \in Seq(Nat) /\ w \in Seq(Nat) /\ Len(w) = L /\ Ascending(s)
      /\ \A i \in 1..L : lo <= s[i] /\ s[i] < hi /\ w[i] \in Values[s[i]] /\ f[s[i]] = w[i]
      /\ \A j \in Nat : lo <= j /\ j < hi /\ f[j] # Missing => \E i \in 1..L : s[i] = j
  BY DEF LeafShape
<1>2. /\ Len(keys) = L + 1 /\ Len(vals) = L + 1 /\ L \in Nat
      /\ \A i \in 1..L+1 : keys[i] = IF i < p THEN s[i] ELSE IF i = p THEN k ELSE s[i-1]
      /\ \A i \in 1..L+1 : vals[i] = IF i < p THEN w[i] ELSE IF i = p THEN v ELSE w[i-1]
  BY <1>1, LenProperties DEF IsInserted
<1>3. Ascending(keys)
  BY <1>1, AscendingInsert
<1>4. /\ p \in 1..L+1
      /\ \A i \in 1..L : i < p => s[i] < k
      /\ \A i \in 1..L : p <= i => k < s[i]
  OBVIOUS
<1>5. \A i \in 1..L : s[i] \in Nat /\ s[i] \in Keys
  <2>1. \A i \in 1..L : s[i] \in Nat
    BY <1>1, ElementOfSeq
  <2> QED
    BY <1>1, <2>1, InBounds
<1> HIDE DEF s, w, L
<1>6. \A i \in 1..L : g[s[i]] = w[i]
  <2> TAKE i \in 1..L
  <2>1. s[i] # k
    <3> DEFINE x == s[i]
    <3>1. x \in Nat /\ (i < p => x < k) /\ (p <= i => k < x)
      BY <1>4, <1>5
    <3>2. i < p \/ p <= i
      BY <1>2, <1>4
    <3> HIDE DEF x
    <3>3. x # k
      BY <3>1, <3>2
    <3> QED
      BY <3>3 DEF x
  <2> QED
    BY <1>1, <1>5, <2>1 DEF Sets
<1>7. ASSUME NEW i \in 1..L+1
      PROVE  lo <= keys[i] /\ keys[i] < hi /\ vals[i] \in Values[keys[i]] /\ g[keys[i]] = vals[i]
  <2>1. CASE i < p
    <3>1. i \in 1..L
      BY <1>2, <1>4, <2>1
    <3>2. keys[i] = s[i] /\ vals[i] = w[i]
      BY <1>2, <2>1
    <3> QED
      BY <1>1, <1>6, <3>1, <3>2
  <2>2. CASE i = p
    <3>1. keys[i] = k /\ vals[i] = v
      BY <1>2, <2>2
    <3> QED
      BY <3>1 DEF Sets
  <2>3. CASE p < i
    <3>1. i - 1 \in 1..L /\ ~(i < p) /\ i # p
      BY SMTT(30), <1>2, <1>4, <2>3
    <3>2. keys[i] = s[i-1] /\ vals[i] = w[i-1]
      BY <1>2, <3>1
    <3> QED
      BY ZenonT(40), <1>1, <1>6, <3>1, <3>2
  <2> QED
    BY <1>2, <1>4, <2>1, <2>2, <2>3
<1>8. ASSUME NEW j \in Nat, lo <= j, j < hi, g[j] # Missing
      PROVE  \E i \in 1..L+1 : keys[i] = j
  <2>1. CASE j = k
    <3>1. keys[p] = k
      BY <1>2, <1>4
    <3> QED
      BY <1>4, <2>1, <3>1
  <2>2. CASE j # k
    <3>1. j \in Keys
      BY <1>8, InBounds
    <3>2. f[j] # Missing
      BY <1>8, <2>2, <3>1 DEF Sets
    <3>3. PICK i \in 1..L : s[i] = j
      BY <1>1, <1>8, <3>2
    <3>4. CASE i < p
      <4>1. keys[i] = s[i] /\ i \in 1..L+1
        BY SMTT(30), <1>2, <3>4
      <4> QED
        BY <3>3, <4>1
    <3>5. CASE p <= i
      <4>1. i + 1 \in 1..L+1 /\ ~(i + 1 < p) /\ i + 1 # p /\ (i + 1) - 1 = i
        BY <1>2, <1>4, <3>5
      <4>2. keys[i+1] = s[(i+1)-1]
        BY <1>2, <4>1
      <4> QED
        BY <3>3, <4>1, <4>2
    <3> QED
      BY <1>2, <1>4, <3>4, <3>5
  <2> QED
    BY <2>1, <2>2
<1> QED
  BY <1>2, <1>3, <1>7, <1>8 DEF LeafShape, Leaf, IsLeaf

(* ... a new value for a key it has, ... *)
LEMMA LeafChanges ==
  ASSUME NEW n, NEW lo, NEW hi, NEW f, IsBounds(lo, hi), LeafShape(n, lo, hi, f),
         NEW k \in Nat, NEW v \in Values[k], v \in Nat, NEW g, Sets(g, f, k, v),
         NEW p \in 1..Len(n.keys), n.keys[p] = k
  PROVE  LeafShape(Leaf(n.keys, [n.vals EXCEPT ![p] = v]), lo, hi, g)
<1> DEFINE s == n.keys
           w == n.vals
           L == Len(s)
           vals == [w EXCEPT ![p] = v]
<1>1. /\ s \in Seq(Nat) /\ w \in Seq(Nat) /\ Len(w) = L /\ Ascending(s)
      /\ \A i \in 1..L : lo <= s[i] /\ s[i] < hi /\ w[i] \in Values[s[i]] /\ f[s[i]] = w[i]
      /\ \A j \in Nat : lo <= j /\ j < hi /\ f[j] # Missing => \E i \in 1..L : s[i] = j
  BY DEF LeafShape
<1>2. /\ vals \in Seq(Nat) /\ Len(vals) = L
      /\ \A i \in 1..L : vals[i] = IF i = p THEN v ELSE w[i]
  BY SMTT(30), <1>1, ExceptSeq
<1>3. \A i \in 1..L : s[i] \in Nat /\ s[i] \in Keys
  <2>1. \A i \in 1..L : s[i] \in Nat
    BY <1>1, ElementOfSeq
  <2> QED
    BY <1>1, <2>1, InBounds
<1>4. p \in 1..L /\ s[p] = k /\ L \in Nat
  BY <1>1, LenProperties
<1> HIDE DEF s, w, L, vals
<1>5. ASSUME NEW i \in 1..L, i # p PROVE s[i] # k
  <2>1. i < p \/ p < i
    BY <1>4, <1>5
  <2>2. s[i] < s[p] \/ s[p] < s[i]
    BY <1>1, <1>4, <2>1 DEF Ascending, L
  <2> QED
    BY <1>3, <1>4, <2>2
<1>6. ASSUME NEW i \in 1..L PROVE vals[i] \in Values[s[i]] /\ g[s[i]] = vals[i]
  <2>1. CASE i = p
    BY <1>2, <1>4, <2>1 DEF Sets
  <2>2. CASE i # p
    BY <1>1, <1>2, <1>3, <1>5, <2>2 DEF Sets
  <2> QED
    BY <2>1, <2>2
<1>7. ASSUME NEW j \in Nat, lo <= j, j < hi, g[j] # Missing
      PROVE  \E i \in 1..L : s[i] = j
  <2>1. CASE j = k
    BY <1>4, <2>1
  <2>2. CASE j # k
    <3>1. j \in Keys
      BY <1>7, InBounds
    <3>2. f[j] # Missing
      BY <1>7, <2>2, <3>1 DEF Sets
    <3> QED
      BY <1>1, <1>7, <3>2
  <2> QED
    BY <2>1, <2>2
<1>8. LeafShape(Leaf(s, vals), lo, hi, g)
  BY <1>1, <1>2, <1>6, <1>7 DEF LeafShape, Leaf, IsLeaf, L
<1> QED
  BY <1>8 DEF s, w, vals

(* ... or without a key that it had. *)
LEMMA LeafLoses ==
  ASSUME NEW n, NEW lo, NEW hi, NEW f, IsBounds(lo, hi), LeafShape(n, lo, hi, f),
         NEW k \in Nat, NEW g, Sets(g, f, k, Missing),
         NEW p \in 1..Len(n.keys), n.keys[p] = k,
         NEW keys \in Seq(Nat), IsRemoved(keys, n.keys, p),
         NEW vals \in Seq(Nat), IsRemoved(vals, n.vals, p)
  PROVE  LeafShape(Leaf(keys, vals), lo, hi, g)
<1> DEFINE s == n.keys
           w == n.vals
           L == Len(s)
<1>1. /\ s \in Seq(Nat) /\ w \in Seq(Nat) /\ Len(w) = L
      /\ \A i, j \in 1..L : i < j => s[i] < s[j]
      /\ \A i \in 1..L : lo <= s[i] /\ s[i] < hi /\ w[i] \in Values[s[i]] /\ f[s[i]] = w[i]
      /\ \A j \in Nat : lo <= j /\ j < hi /\ f[j] # Missing => \E i \in 1..L : s[i] = j
  BY DEF LeafShape, Ascending
<1>2. /\ Len(keys) = L - 1 /\ Len(vals) = L - 1 /\ L \in Nat /\ L - 1 \in Nat
      /\ \A i \in 1..L-1 : keys[i] = IF i < p THEN s[i] ELSE s[i+1]
      /\ \A i \in 1..L-1 : vals[i] = IF i < p THEN w[i] ELSE w[i+1]
  BY ZenonT(40), <1>1, LenProperties DEF IsRemoved
<1>3. \A i \in 1..L : s[i] \in Nat /\ s[i] \in Keys
  <2>1. \A i \in 1..L : s[i] \in Nat
    BY <1>1, ElementOfSeq
  <2> QED
    BY <1>1, <2>1, InBounds
<1>4. p \in 1..L /\ s[p] = k
  OBVIOUS
<1> HIDE DEF s, w, L
<1>5. ASSUME NEW i \in 1..L, i # p PROVE s[i] # k
  <2>1. i < p \/ p < i
    BY <1>2, <1>4, <1>5
  <2>2. s[i] < s[p] \/ s[p] < s[i]
    BY <1>1, <1>4, <2>1
  <2> QED
    BY <1>3, <1>4, <2>2
<1>6. \A i \in 1..L : i # p => g[s[i]] = w[i]
  <2> TAKE i \in 1..L
  <2> HAVE i # p
  <2>1. s[i] # k /\ s[i] \in Keys
    BY <1>3, <1>5
  <2> QED
    BY <1>1, <2>1 DEF Sets
<1>7. ASSUME NEW i \in 1..L-1
      PROVE  \E x \in 1..L : /\ x # p /\ keys[i] = s[x] /\ vals[i] = w[x]
                             /\ x = IF i < p THEN i ELSE i + 1
  <2>1. CASE i < p
    <3>1. i \in 1..L /\ i # p
      BY SMTT(30), <1>2, <1>4, <2>1
    <3> QED
      BY <1>2, <2>1, <3>1
  <2>2. CASE ~(i < p)
    <3>1. i + 1 \in 1..L /\ i + 1 # p
      BY SMTT(30), <1>2, <1>4, <2>2
    <3> QED
      BY <1>2, <2>2, <3>1
  <2> QED
    BY <2>1, <2>2
<1>8. Ascending(keys)
  <2> SUFFICES ASSUME NEW i \in 1..L-1, NEW j \in 1..L-1, i < j PROVE keys[i] < keys[j]
    BY <1>2 DEF Ascending
  <2>1. PICK x \in 1..L : keys[i] = s[x] /\ x = IF i < p THEN i ELSE i + 1
    BY <1>7
  <2>2. PICK y \in 1..L : keys[j] = s[y] /\ y = IF j < p THEN j ELSE j + 1
    BY <1>7
  <2>3. x < y
    <3>1. i \in Nat /\ j \in Nat /\ p \in Nat
      BY <1>2, <1>4
    <3>2. x = (IF i < p THEN i ELSE i + 1) /\ y = (IF j < p THEN j ELSE j + 1)
      BY <2>1, <2>2
    <3> QED
      BY <3>1, <3>2
  <2> QED
    BY ZenonT(40), <1>1, <2>1, <2>2, <2>3
<1>9. \A i \in 1..L-1 : /\ lo <= keys[i] /\ keys[i] < hi
                        /\ vals[i] \in Values[keys[i]] /\ g[keys[i]] = vals[i]
  <2> TAKE i \in 1..L-1
  <2>1. PICK x \in 1..L : x # p /\ keys[i] = s[x] /\ vals[i] = w[x]
    BY <1>7
  <2>2. lo <= s[x] /\ s[x] < hi /\ w[x] \in Values[s[x]] /\ g[s[x]] = w[x]
    BY <1>1, <1>6, <2>1
  <2> QED
    BY <2>1, <2>2
<1>10. ASSUME NEW j \in Nat, lo <= j, j < hi, g[j] # Missing
       PROVE  \E i \in 1..L-1 : keys[i] = j
  <2>1. j # k /\ j \in Keys
    BY <1>10, InBounds DEF Sets
  <2>2. f[j] # Missing
    BY <1>10, <2>1 DEF Sets
  <2>3. PICK i \in 1..L : s[i] = j
    BY <1>1, <1>10, <2>2
  <2>4. i # p
    BY <1>4, <2>1, <2>3
  <2>5. CASE i < p
    <3>1. i \in 1..L-1
      BY <1>2, <1>4, <2>5
    <3> QED
      BY <1>2, <2>3, <2>5, <3>1
  <2>6. CASE p < i
    <3>1. i - 1 \in 1..L-1 /\ ~(i - 1 < p) /\ (i - 1) + 1 = i
      BY <1>2, <1>4, <2>6
    <3>2. keys[i-1] = s[(i-1)+1]
      BY <1>2, <3>1
    <3> QED
      BY <2>3, <3>1, <3>2
  <2> QED
    BY <1>2, <1>4, <2>4, <2>5, <2>6
<1> QED
  BY <1>2, <1>8, <1>9, <1>10 DEF LeafShape, Leaf, IsLeaf

(* The two parts of a leaf. *)
LEMMA LeafCuts ==
  ASSUME NEW n, NEW lo, NEW hi, NEW f, IsBounds(lo, hi), LeafShape(n, lo, hi, f),
         NEW at \in Nat, at # 0, at < Len(n.keys),
         NEW k1 \in Seq(Nat), IsPart(k1, n.keys, 0, at),
         NEW v1 \in Seq(Nat), IsPart(v1, n.vals, 0, at),
         NEW k2 \in Seq(Nat), IsPart(k2, n.keys, at, Len(n.keys) - at),
         NEW v2 \in Seq(Nat), IsPart(v2, n.vals, at, Len(n.keys) - at)
  PROVE  LET mid == n.keys[at+1]
         IN /\ mid \in Nat /\ lo < mid /\ mid < hi
            /\ LeafShape(Leaf(k1, v1), lo, mid, f) /\ LeafShape(Leaf(k2, v2), mid, hi, f)
<1> DEFINE s == n.keys
           w == n.vals
           L == Len(s)
           mid == s[at+1]
<1>1. /\ s \in Seq(Nat) /\ w \in Seq(Nat) /\ Len(w) = L
      /\ \A i, j \in 1..L : i < j => s[i] < s[j]
      /\ \A i \in 1..L : lo <= s[i] /\ s[i] < hi /\ w[i] \in Values[s[i]] /\ f[s[i]] = w[i]
      /\ \A j \in Nat : lo <= j /\ j < hi /\ f[j] # Missing => \E i \in 1..L : s[i] = j
  BY DEF LeafShape, Ascending
<1>2. /\ Len(k1) = at /\ Len(v1) = at /\ Len(k2) = L - at /\ Len(v2) = L - at /\ L \in Nat
      /\ \A i \in 1..at : k1[i] = s[i] /\ v1[i] = w[i]
      /\ \A i \in 1..(L - at) : k2[i] = s[at+i] /\ v2[i] = w[at+i]
  <2>1. \A i \in 1..at : 0 + i = i
    OBVIOUS
  <2>2. L \in Nat
    BY <1>1, LenProperties
  <2> QED
    BY <2>1, <2>2 DEF IsPart
<1>3. at < L /\ at + 1 \in 1..L /\ 1 \in 1..L /\ 1 < at + 1
  <2>1. at < L /\ L \in Nat
    BY <1>2
  <2> HIDE DEF L
  <2> QED
    BY <2>1
<1>4. \A i \in 1..L : s[i] \in Nat
  BY <1>1, ElementOfSeq
<1>5. lo \in Nat /\ hi \in Nat
  BY DEF IsBounds
<1> HIDE DEF s, w, L
<1>6. mid \in Nat /\ lo < mid /\ mid < hi
  <2>1. lo <= s[1] /\ s[1] < mid /\ mid < hi /\ s[1] \in Nat /\ mid \in Nat
    BY <1>1, <1>3, <1>4
  <2> QED
    BY <1>5, <2>1
<1>7. ASSUME NEW i \in 1..at PROVE i \in 1..L /\ s[i] < mid
  <2>1. i \in 1..L /\ i < at + 1
    BY <1>2, <1>3
  <2> QED
    BY <1>1, <1>3, <2>1
<1>8. ASSUME NEW i \in 1..(L - at) PROVE at + i \in 1..L /\ mid <= s[at+i]
  <2>1. at + i \in 1..L /\ (at + i = at + 1 \/ at + 1 < at + i)
    BY <1>2, <1>3
  <2> DEFINE x == s[at+i]
  <2>2. x = mid \/ mid < x
    BY <1>1, <1>3, <2>1
  <2>3. x \in Nat
    BY <1>4, <2>1
  <2> HIDE DEF x, mid
  <2>4. mid <= x
    BY <1>6, <2>2, <2>3
  <2> QED
    BY <2>1, <2>4 DEF x
<1> HIDE DEF mid
<1>9. LeafShape(Leaf(k1, v1), lo, mid, f)
  <2>1. \A i \in 1..at : /\ lo <= k1[i] /\ k1[i] < mid
                         /\ v1[i] \in Values[k1[i]] /\ f[k1[i]] = v1[i]
    BY ZenonT(40), <1>1, <1>2, <1>7
  <2>2. \A i, j \in 1..at : i < j => k1[i] < k1[j]
    BY <1>1, <1>2, <1>7
  <2>3. ASSUME NEW j \in Nat, lo <= j, j < mid, f[j] # Missing PROVE \E i \in 1..at : k1[i] = j
    <3>1. j < hi
      BY <1>5, <1>6, <2>3
    <3>2. PICK i \in 1..L : s[i] = j
      BY <1>1, <2>3, <3>1
    <3>3. i <= at
      <4> SUFFICES ASSUME ~(i <= at) PROVE FALSE
        OBVIOUS
      <4>1. i - at \in 1..(L - at) /\ at + (i - at) = i
        BY <1>2
      <4>2. mid <= s[at + (i - at)]
        BY <1>8, <4>1
      <4>3. mid <= j
        BY <3>2, <4>1, <4>2
      <4> QED
        BY <1>6, <2>3, <4>3
    <3>4. i \in 1..at
      BY <3>3
    <3> QED
      BY <1>2, <3>2, <3>4
  <2> QED
    BY <1>2, <2>1, <2>2, <2>3 DEF LeafShape, Leaf, IsLeaf, Ascending
<1>10. LeafShape(Leaf(k2, v2), mid, hi, f)
  <2>1. ASSUME NEW i \in 1..(L - at)
        PROVE  /\ mid <= k2[i] /\ k2[i] < hi
               /\ v2[i] \in Values[k2[i]] /\ f[k2[i]] = v2[i]
    <3>1. at + i \in 1..L /\ mid <= s[at+i] /\ k2[i] = s[at+i] /\ v2[i] = w[at+i]
      BY <1>2, <1>8
    <3> QED
      BY <1>1, <3>1
  <2>2. ASSUME NEW i \in 1..(L - at), NEW j \in 1..(L - at), i < j PROVE k2[i] < k2[j]
    <3>1. /\ at + i \in 1..L /\ at + j \in 1..L /\ at + i < at + j
          /\ k2[i] = s[at+i] /\ k2[j] = s[at+j]
      BY SMTT(30), <1>2, <1>8, <2>2
    <3> QED
      BY <1>1, <3>1
  <2>3. ASSUME NEW j \in Nat, mid <= j, j < hi, f[j] # Missing
        PROVE  \E i \in 1..(L - at) : k2[i] = j
    <3>1. lo <= j
      BY <1>5, <1>6, <2>3
    <3>2. PICK i \in 1..L : s[i] = j
      BY <1>1, <2>3, <3>1
    <3>3. ~(i <= at)
      <4> SUFFICES ASSUME i <= at PROVE FALSE
        OBVIOUS
      <4>1. i \in 1..at
        BY <1>2
      <4>2. j < mid
        BY <1>7, <3>2, <4>1
      <4> QED
        BY <1>6, <2>3, <4>2
    <3>4. i - at \in 1..(L - at) /\ at + (i - at) = i
      BY <1>2, <3>3
    <3>5. k2[i-at] = s[at + (i - at)]
      BY <1>2, <3>4
    <3> QED
      BY <3>2, <3>4, <3>5
  <2> QED
    BY <1>2, <2>1, <2>2, <2>3 DEF LeafShape, Leaf, IsLeaf, Ascending
<1> QED
  BY <1>6, <1>9, <1>10 DEF mid, s

LEMMA LeafFields ==
  ASSUME NEW keys, NEW vals
  PROVE  Leaf(keys, vals).keys = keys /\ Leaf(keys, vals).vals = vals /\ IsLeaf(Leaf(keys, vals))
BY DEF Leaf, IsLeaf

(* A leaf that is too full is cut, and its parts are put in pages that have *)
(* room for them, ...                                                       *)
LEMMA SplitLeafIs ==
  ASSUME NEW lo, NEW hi, NEW f, NEW h \in Nat, IsBounds(lo, hi),
         NEW keys \in Seq(Nat), NEW vals \in Seq(Nat), LeafShape(Leaf(keys, vals), lo, hi, f),
         NEW at \in Nat, at # 0, at < Len(keys), LeavesFit(SplitLeaf(keys, vals, at))
  PROVE  Result(SplitLeaf(keys, vals, at), lo, hi, h, f) /\ SplitLeaf(keys, vals, at).split # <<>>
<1> DEFINE n == Leaf(keys, vals)
           k1 == SubSeq(keys, 1, at)
           v1 == SubSeq(vals, 1, at)
           k2 == SubSeq(keys, at + 1, Len(keys))
           v2 == SubSeq(vals, at + 1, Len(vals))
           mid == keys[at+1]
<1>1. n.keys = keys /\ n.vals = vals /\ Len(vals) = Len(keys)
  BY LeafFields DEF LeafShape
<1>2. Len(keys) \in Nat /\ at \in 0..Len(keys) /\ at \in 0..Len(vals)
  BY <1>1, LenProperties
<1>3. /\ k1 \in Seq(Nat) /\ IsPart(k1, keys, 0, at)
      /\ k2 \in Seq(Nat) /\ IsPart(k2, keys, at, Len(keys) - at)
  BY <1>2, PartsAre
<1>4. /\ v1 \in Seq(Nat) /\ IsPart(v1, vals, 0, at)
      /\ v2 \in Seq(Nat) /\ IsPart(v2, vals, at, Len(keys) - at)
  BY <1>1, <1>2, PartsAre
<1>6. SplitLeaf(keys, vals, at) = Halves(Leaf(k1, v1), mid, Leaf(k2, v2))
  BY DEF SplitLeaf
<1> HIDE DEF n, k1, v1, k2, v2
<1>5. LeafFits(v1) /\ LeafFits(v2)
  <2> DEFINE h1 == Leaf(k1, v1)
             h2 == Leaf(k2, v2)
  <2>1. h1.vals = v1 /\ h2.vals = v2
    BY LeafFields
  <2> HIDE DEF h1, h2
  <2>2. LeavesFit(Halves(h1, mid, h2))
    BY <1>6 DEF h1, h2
  <2>3. /\ Halves(h1, mid, h2).node = h1 /\ Halves(h1, mid, h2).split[1].right = h2
        /\ 1 \in DOMAIN Halves(h1, mid, h2).split
    BY DEF Halves
  <2> QED
    BY <2>1, <2>2, <2>3 DEF LeavesFit
<1>7. /\ mid \in Nat /\ lo < mid /\ mid < hi
      /\ LeafShape(Leaf(k1, v1), lo, mid, f) /\ LeafShape(Leaf(k2, v2), mid, hi, f)
  <2>1. LeafShape(n, lo, hi, f)
    BY DEF n
  <2> QED
    BY ZenonT(40), <1>1, <1>3, <1>4, <2>1, LeafCuts
<1> HIDE DEF mid
<1>8. Len(k1) # 0 /\ Len(k2) # 0
  BY <1>2, <1>3 DEF IsPart
<1>9. LeafOK(Leaf(k1, v1), lo, mid, f) /\ LeafOK(Leaf(k2, v2), mid, hi, f)
  BY <1>5, <1>7, <1>8, LeafFields DEF LeafOK
<1>10. IsBounds(lo, mid) /\ IsBounds(mid, hi)
  BY <1>7, ConstantsAssumption DEF IsBounds
<1>11. SearchTree(Leaf(k1, v1), lo, mid, h, f) /\ SearchTree(Leaf(k2, v2), mid, hi, h, f)
  BY <1>9, <1>10, LeafTree
<1> DEFINE a == Leaf(k1, v1)
           b == Leaf(k2, v2)
<1> HIDE DEF a, b
<1>12. /\ Halves(a, mid, b).node = a /\ Halves(a, mid, b).split # <<>>
       /\ Halves(a, mid, b).split[1].key = mid /\ Halves(a, mid, b).split[1].right = b
  BY DEF Halves
<1> QED
  BY <1>6, <1>7, <1>11, <1>12 DEF Result, a, b

LEMMA WholeFields ==
  ASSUME NEW n
  PROVE  Whole(n).node = n /\ Whole(n).split = <<>>
BY DEF Whole

(* ... so that an insertion gives one search tree or two. *)
LEMMA InsertIntoLeafIs ==
  ASSUME NEW n, NEW lo, NEW hi, NEW f, NEW h \in Nat, IsBounds(lo, hi),
         LeafShape(n, lo, hi, f), LeafFits(n.vals),
         NEW k \in Nat, lo <= k, k < hi, NEW v \in Values[k], NEW g, Sets(g, f, k, v),
         LeavesFit(InsertIntoLeaf(n, k, v))
  PROVE  /\ Result(InsertIntoLeaf(n, k, v), lo, hi, h, g)
         /\ InsertIntoLeaf(n, k, v).split = <<>> => LeafOK(InsertIntoLeaf(n, k, v).node, lo, hi, g)
<1> DEFINE slot == SlotFor(n.keys, k)
           keys == IF Holds(n, k) THEN n.keys ELSE InsertAt(n.keys, slot, k)
           vals == IF Holds(n, k) THEN [n.vals EXCEPT ![slot] = v] ELSE InsertAt(n.vals, slot, v)
           at == IF slot > Len(n.keys) THEN Len(n.keys) ELSE BalancedSplit(vals)
           r == InsertIntoLeaf(n, k, v)
<1>1. r = IF LeafFits(vals) THEN Whole(Leaf(keys, vals)) ELSE SplitLeaf(keys, vals, at)
  BY DEF InsertIntoLeaf
<1>2. /\ n.keys \in Seq(Nat) /\ n.vals \in Seq(Nat) /\ Len(n.vals) = Len(n.keys)
      /\ Ascending(n.keys) /\ Len(n.keys) \in Nat
  BY LenProperties DEF LeafShape
<1>3. k \in Keys /\ v \in Nat /\ 3 * v <= LeafCap /\ LeafCap \in Nat
  BY InBounds, ValueIs, ConstantsAssumption
<1>4. /\ slot \in 1..Len(n.keys)+1
      /\ \A i \in 1..Len(n.keys) : i < slot => n.keys[i] < k
      /\ \A i \in 1..Len(n.keys) : slot <= i => k <= n.keys[i]
      /\ Holds(n, k) => slot \in 1..Len(n.keys) /\ n.keys[slot] = k
      /\ \A i \in 1..Len(n.keys) : n.keys[i] = k => Holds(n, k)
  BY <1>2, SlotForIs, HoldsIs
<1> HIDE DEF slot
<1>5. /\ keys \in Seq(Nat) /\ vals \in Seq(Nat) /\ LeafShape(Leaf(keys, vals), lo, hi, g)
      /\ Len(keys) = Len(vals) /\ Len(keys) # 0
      /\ Len(keys) \in Nat
      /\ slot > Len(n.keys) => Size(vals) = Size(n.vals) + v /\ Len(keys) = Len(n.keys) + 1
  <2>1. CASE Holds(n, k)
    <3>1. slot \in 1..Len(n.keys) /\ n.keys[slot] = k /\ ~(slot > Len(n.keys)) /\ slot \in 1..Len(n.vals)
      BY <1>2, <1>4, <2>1
    <3>2. keys = n.keys /\ vals = [n.vals EXCEPT ![slot] = v]
      BY <2>1
    <3>3. LeafShape(Leaf(n.keys, [n.vals EXCEPT ![slot] = v]), lo, hi, g)
      BY <1>3, <3>1, LeafChanges
    <3>4. /\ [n.vals EXCEPT ![slot] = v] \in Seq(Nat)
          /\ Len([n.vals EXCEPT ![slot] = v]) = Len(n.vals)
      BY <1>2, <1>3, <3>1, SizeExcept
    <3> HIDE DEF keys, vals
    <3> QED
      BY <1>2, <3>1, <3>2, <3>3, <3>4
  <2>2. CASE ~Holds(n, k)
    <3>1. keys = InsertAt(n.keys, slot, k) /\ vals = InsertAt(n.vals, slot, v)
      BY <2>2
    <3>2. slot \in 1..Len(n.vals)+1
      BY <1>2, <1>4
    <3> HIDE DEF keys, vals
    <3>3. /\ keys \in Seq(Nat) /\ IsInserted(keys, n.keys, slot, k)
          /\ vals \in Seq(Nat) /\ IsInserted(vals, n.vals, slot, v)
      BY <1>2, <1>3, <1>4, <3>1, <3>2, InsertAtIs
    <3>4. ASSUME NEW i \in 1..Len(n.keys), slot <= i PROVE k < n.keys[i]
      <4> DEFINE x == n.keys[i]
      <4>1. x \in Nat /\ k <= x /\ x # k
        BY <1>2, <1>4, <2>2, <3>4, ElementOfSeq
      <4> HIDE DEF x
      <4>2. k < x
        BY <4>1
      <4> QED
        BY <4>2 DEF x
    <3>5. LeafShape(Leaf(keys, vals), lo, hi, g)
      BY <1>4, <3>3, <3>4, LeafGains
    <3>6. Size(vals) = Size(n.vals) + v
      BY <1>2, <1>3, <3>2, <3>3, SizeInserted
    <3>7. Len(keys) = Len(n.keys) + 1 /\ Len(vals) = Len(n.keys) + 1
      BY <1>2, <3>3 DEF IsInserted
    <3>10. Len(keys) = Len(vals) /\ Len(keys) # 0 /\ Len(keys) \in Nat
      BY <1>2, <3>7
    <3> QED
      BY <3>3, <3>5, <3>6, <3>7, <3>10
  <2> QED
    BY <2>1, <2>2
<1> HIDE DEF keys, vals
<1>6. CASE LeafFits(vals)
  <2>1. LeafOK(Leaf(keys, vals), lo, hi, g)
    BY <1>5, <1>6, LeafFields DEF LeafOK
  <2>2. SearchTree(Leaf(keys, vals), lo, hi, h, g)
    BY <2>1, LeafTree
  <2>3. r = Whole(Leaf(keys, vals))
    BY <1>1, <1>6
  <2> DEFINE a == Leaf(keys, vals)
  <2> HIDE DEF a
  <2>4. r.node = a /\ r.split = <<>>
    BY <2>3, WholeFields DEF a
  <2> HIDE DEF r
  <2> QED
    BY <2>1, <2>2, <2>4 DEF Result, a, r
<1>7. CASE ~LeafFits(vals)
  <2>1. r = SplitLeaf(keys, vals, at)
    BY <1>1, <1>7
  <2>2. LeafCap < Size(vals) /\ Size(n.vals) <= LeafCap
    <3>1. Size(vals) \in Nat
      BY <1>5, SizeIs
    <3> QED
      BY <1>3, <1>7, <3>1 DEF LeafFits
  <2>3. Size(vals) \in Nat /\ Size(n.vals) \in Nat
    BY <1>2, <1>5, SizeIs
  <2>4. at \in Nat /\ at # 0 /\ at < Len(keys)
    <3>1. CASE slot > Len(n.keys)
      <4>1. at = Len(n.keys)
        BY <3>1
      <4>2. Len(n.keys) # 0
        <5> SUFFICES ASSUME Len(n.keys) = 0 PROVE FALSE
          OBVIOUS
        <5>1. Sums(n.vals)[0] = 0
          BY <1>2, SizeIs
        <5>2. Size(n.vals) = 0
          BY <1>2, <5>1 DEF Size
        <5> QED
          BY <1>3, <1>5, <2>2, <2>3, <3>1, <5>2
      <4>3. Len(keys) = Len(n.keys) + 1
        BY <1>5, <3>1
      <4> HIDE DEF at
      <4> QED
        BY <1>2, <4>1, <4>2, <4>3
    <3>2. CASE ~(slot > Len(n.keys))
      <4>1. at = BalancedSplit(vals)
        BY <3>2
      <4>2. \A i \in 1..Len(vals) : 3 * vals[i] <= LeafCap /\ 2 * SlotSize <= vals[i]
        <5> DEFINE m == Leaf(keys, vals)
        <5>1. m.keys = keys /\ m.vals = vals /\ LeafShape(m, lo, hi, g)
          BY <1>5, LeafFields
        <5> HIDE DEF m
        <5> TAKE i \in 1..Len(vals)
        <5>2. i \in 1..Len(keys) /\ keys[i] \in Nat
          BY <1>5, ElementOfSeq
        <5>3. lo <= keys[i] /\ keys[i] < hi /\ vals[i] \in Values[keys[i]]
          BY <5>1, <5>2 DEF LeafShape
        <5>4. keys[i] \in Keys
          BY <5>2, <5>3, InBounds
        <5> QED
          BY <5>3, <5>4, ValueIs
      <4>3. BalancedSplit(vals) \in 1..Len(vals) /\ BalancedSplit(vals) < Len(vals)
        BY <1>3, <1>5, <2>2, <4>2, BalancedCuts DEF SmallSlots
      <4> HIDE DEF at
      <4> QED
        BY <1>5, <4>1, <4>3
    <3> QED
      BY <3>1, <3>2
  <2> HIDE DEF at
  <2>5. Result(SplitLeaf(keys, vals, at), lo, hi, h, g) /\ SplitLeaf(keys, vals, at).split # <<>>
    BY <1>5, <2>1, <2>4, SplitLeafIs
  <2> HIDE DEF r
  <2> QED
    BY <2>1, <2>5 DEF r
<1> QED
  BY <1>6, <1>7

(* A deletion gives one, or nothing. *)
LEMMA RemoveFromLeafIs ==
  ASSUME NEW n, NEW lo, NEW hi, NEW f, NEW h \in Nat, IsBounds(lo, hi), LeafOK(n, lo, hi, f),
         NEW k \in Nat, lo <= k, k < hi, Holds(n, k), NEW g, Sets(g, f, k, Missing)
  PROVE  Result(Whole(RemoveFromLeaf(n, k)), lo, hi, h, g)
<1> DEFINE slot == SlotFor(n.keys, k)
           keys == RemoveAt(n.keys, slot)
           vals == RemoveAt(n.vals, slot)
<1>1. RemoveFromLeaf(n, k) = Leaf(keys, vals)
  BY DEF RemoveFromLeaf
<1>2. /\ n.keys \in Seq(Nat) /\ n.vals \in Seq(Nat) /\ Len(n.vals) = Len(n.keys)
      /\ Ascending(n.keys) /\ Len(n.keys) \in Nat /\ LeafShape(n, lo, hi, f)
      /\ Size(n.vals) <= LeafCap
  BY LenProperties DEF LeafOK, LeafShape, LeafFits
<1>3. slot \in 1..Len(n.keys) /\ n.keys[slot] = k /\ slot \in 1..Len(n.vals)
  BY <1>2, HoldsIs
<1> HIDE DEF slot
<1>4. /\ keys \in Seq(Nat) /\ IsRemoved(keys, n.keys, slot)
      /\ vals \in Seq(Nat) /\ IsRemoved(vals, n.vals, slot)
  BY <1>2, <1>3, RemoveAtIs
<1>5. Size(vals) <= LeafCap
  <2>1. Size(vals) <= Size(n.vals)
    BY <1>2, <1>3, <1>4, SizeRemoved
  <2>2. Size(vals) \in Nat /\ Size(n.vals) \in Nat /\ LeafCap \in Nat
    BY <1>2, <1>4, SizeIs, ConstantsAssumption
  <2> QED
    BY <1>2, <2>1, <2>2
<1> HIDE DEF keys, vals
<1>6. LeafShape(Leaf(keys, vals), lo, hi, g)
  BY <1>2, <1>3, <1>4, LeafLoses
<1>7. /\ Len(keys) = Len(n.keys) - 1 /\ Len(vals) = Len(n.keys) - 1 /\ Len(keys) \in Nat
  BY <1>2, <1>4, LenProperties DEF IsRemoved
<1> DEFINE a == Leaf(keys, vals)
<1>8. a.keys = keys /\ a.vals = vals
  BY LeafFields
<1>9. CASE Len(keys) = 0
  <2>1. keys = <<>> /\ vals = <<>>
    BY <1>4, <1>7, <1>9, EmptySeq
  <2>2. a = EmptyNode
    BY <2>1 DEF EmptyNode
  <2> HIDE DEF a
  <2>3. LeafShape(a, lo, hi, g)
    BY <1>6 DEF a
  <2>4. \A j \in Nat : lo <= j /\ j < hi => g[j] = Missing
    BY <1>8, <1>9, <2>3 DEF LeafShape
  <2> QED
    BY <1>1, <2>2, <2>4, WholeFields DEF Result, a
<1>10. CASE Len(keys) # 0
  <2> HIDE DEF a
  <2>1. LeafOK(a, lo, hi, g)
    BY <1>5, <1>6, <1>8, <1>10 DEF LeafOK, LeafFits, a
  <2>2. SearchTree(a, lo, hi, h, g)
    BY <2>1, LeafTree
  <2> QED
    BY <1>1, <2>2, WholeFields DEF Result, a
<1> QED
  BY <1>9, <1>10

-----------------------------------------------------------------------------
(* What an operation below makes of an internal node.                       *)

LEMMA InnerFields ==
  ASSUME NEW keys, NEW kids
  PROVE  /\ Inner(keys, kids).keys = keys /\ Inner(keys, kids).kids = kids
         /\ Inner(keys, kids).vals = <<>>
BY DEF Inner

LEMMA SequenceGrows ==
  ASSUME NEW S, NEW s \in Seq(S), NEW e
  PROVE  s \in Seq(S \cup {e})
<1>1. s \in [1..Len(s) -> S] /\ Len(s) \in Nat
  BY LenProperties, SeqDef
<1>2. s \in [1..Len(s) -> S \cup {e}]
  BY <1>1
<1> QED
  BY <1>1, <1>2, SeqDef

\* The subtree in which k is has become another: i is its place.
KidHas(n, lo, hi, i, k) ==
    /\ i \in 1..Len(n.kids)
    /\ Bound(n.keys, lo, hi, i-1) <= k /\ k < Bound(n.keys, lo, hi, i)

(* The other children stay what they were. *)
LEMMA OtherKids ==
  ASSUME NEW n, NEW lo, NEW hi, IsBounds(lo, hi), InnerShape(n, lo, hi),
         NEW h, NEW f, KidsAre(n, lo, hi, h, f), NEW k \in Nat, NEW i, KidHas(n, lo, hi, i, k),
         NEW g, NEW v, Sets(g, f, k, v), NEW j \in 1..Len(n.kids), j # i
  PROVE  SearchTree(n.kids[j], Bound(n.keys, lo, hi, j-1), Bound(n.keys, lo, hi, j), h, g)
<1> DEFINE B(x) == Bound(n.keys, lo, hi, x)
           K == Len(n.kids)
<1>1. /\ K \in Nat
      /\ \A x \in 0..K : B(x) \in Nat /\ lo <= B(x) /\ B(x) <= hi
      /\ \A x, y \in 0..K : x < y => B(x) < B(y)
  BY KidBounds
<1>2. /\ SearchTree(n.kids[j], B(j-1), B(j), h, f)
      /\ i \in 1..K /\ j \in 1..K /\ B(i-1) <= k /\ k < B(i)
  BY DEF KidsAre, KidHas
<1> HIDE DEF B, K
<1>3. j - 1 \in 0..K /\ j \in 0..K /\ i - 1 \in 0..K /\ i \in 0..K
  BY <1>1, <1>2
<1> DEFINE a == B(j-1)
           b == B(j)
<1>4. a \in Nat /\ b \in Nat /\ lo <= a /\ b <= hi /\ (b <= k \/ k < a)
  <2>1. CASE j < i
    <3>1. j = i - 1 \/ j < i - 1
      BY <1>1, <1>2, <2>1
    <3>2. B(j) <= B(i-1)
      BY <1>1, <1>3, <3>1
    <3>3. B(j) <= k
      BY <1>1, <1>2, <1>3, <3>2
    <3> QED
      BY <1>1, <1>3, <3>3
  <2>2. CASE i < j
    <3>1. i = j - 1 \/ i < j - 1
      BY <1>1, <1>2, <2>2
    <3>2. B(i) <= B(j-1)
      BY <1>1, <1>3, <3>1
    <3>3. k < B(j-1)
      BY <1>1, <1>2, <1>3, <3>2
    <3> QED
      BY <1>1, <1>3, <3>3
  <2> QED
    BY <1>1, <1>2, <2>1, <2>2
<1> HIDE DEF a, b
<1>5. lo \in Nat /\ hi \in Nat
  BY DEF IsBounds
<1>6. ASSUME NEW x \in Nat, a <= x, x < b PROVE g[x] = f[x]
  <2>1. x # k /\ lo <= x /\ x < hi
    BY <1>4, <1>5, <1>6
  <2>2. x \in Keys
    BY <2>1, InBounds
  <2> QED
    BY <2>1, <2>2 DEF Sets
<1>7. SearchTree(n.kids[j], a, b, h, g)
  BY <1>2, <1>6, TreeElsewhere DEF a, b
<1> QED
  BY <1>7 DEF a, b, B

(* A child replaced. *)
LEMMA KidReplaced ==
  ASSUME NEW n, NEW lo, NEW hi, IsBounds(lo, hi), InnerOK(n, lo, hi),
         NEW h, NEW f, KidsAre(n, lo, hi, h, f), NEW k \in Nat, NEW i, KidHas(n, lo, hi, i, k),
         NEW g, NEW v, Sets(g, f, k, v), NEW c,
         SearchTree(c, Bound(n.keys, lo, hi, i-1), Bound(n.keys, lo, hi, i), h, g)
  PROVE  LET m == Inner(n.keys, [n.kids EXCEPT ![i] = c])
         IN InnerOK(m, lo, hi) /\ KidsAre(m, lo, hi, h, g)
<1> DEFINE kids == [n.kids EXCEPT ![i] = c]
           m == Inner(n.keys, kids)
<1>1. PICK S : n.kids \in Seq(S)
  BY DEF InnerOK, InnerShape, IsSequence
<1>2. i \in 1..Len(n.kids) /\ InnerShape(n, lo, hi)
  BY DEF KidHas, InnerOK
<1>3. /\ kids \in Seq(S \cup {c}) /\ Len(kids) = Len(n.kids)
      /\ \A j \in 1..Len(n.kids) : kids[j] = IF j = i THEN c ELSE n.kids[j]
  <2>1. n.kids \in Seq(S \cup {c})
    BY <1>1, SequenceGrows
  <2> QED
    BY <1>2, <2>1, ExceptSeq
<1> HIDE DEF kids
<1>4. m.keys = n.keys /\ m.kids = kids /\ m.vals = <<>>
  BY InnerFields
<1> HIDE DEF m
<1>5. IsSequence(kids) /\ kids # <<>>
  <2>1. IsSequence(kids)
    BY <1>3 DEF IsSequence
  <2>2. Len(kids) # 0
    BY <1>2, <1>3, KidBounds
  <2> QED
    BY <2>1, <2>2, SequenceShape
<1>6. InnerOK(m, lo, hi)
  BY <1>3, <1>4, <1>5 DEF InnerOK, InnerShape, IsLeaf
<1>7. KidsAre(m, lo, hi, h, g)
  <2> SUFFICES ASSUME NEW j \in 1..Len(n.kids)
               PROVE  SearchTree(kids[j], Bound(n.keys, lo, hi, j-1), Bound(n.keys, lo, hi, j), h, g)
    BY <1>3, <1>4 DEF KidsAre
  <2>1. CASE j = i
    BY <1>3, <2>1
  <2>2. CASE j # i
    <3>1. SearchTree(n.kids[j], Bound(n.keys, lo, hi, j-1), Bound(n.keys, lo, hi, j), h, g)
      BY <1>2, <2>2, OtherKids
    <3> QED
      BY <1>3, <2>2, <3>1
  <2> QED
    BY <2>1, <2>2
<1> QED
  BY <1>6, <1>7 DEF m, kids

(* A child that has become two: what the node would be if everything fit. *)
LEMMA KidDoubled ==
  ASSUME NEW n, NEW lo, NEW hi, IsBounds(lo, hi), InnerShape(n, lo, hi),
         NEW h, NEW f, KidsAre(n, lo, hi, h, f), NEW k \in Nat, NEW i, KidHas(n, lo, hi, i, k),
         NEW g, NEW v, Sets(g, f, k, v), NEW c, NEW d, NEW mid \in Nat,
         Bound(n.keys, lo, hi, i-1) < mid, mid < Bound(n.keys, lo, hi, i),
         SearchTree(c, Bound(n.keys, lo, hi, i-1), mid, h, g),
         SearchTree(d, mid, Bound(n.keys, lo, hi, i), h, g),
         NEW keys \in Seq(Nat), IsInserted(keys, n.keys, i, mid),
         NEW kids, IsSequence(kids), IsInserted(kids, [n.kids EXCEPT ![i] = c], i + 1, d)
  PROVE  InnerShape(Inner(keys, kids), lo, hi) /\ KidsAre(Inner(keys, kids), lo, hi, h, g)
<1> DEFINE s == n.keys
           L == Len(s)
           w == n.kids
           B(x) == Bound(s, lo, hi, x)
           m == Inner(keys, kids)
           C(x) == Bound(keys, lo, hi, x)
<1>1. /\ L \in Nat /\ Len(w) = L + 1 /\ DOMAIN w = 1..Len(w) /\ s \in Seq(Nat)
      /\ B(0) = lo /\ B(L+1) = hi
      /\ \A x \in 0..L+1 : B(x) \in Nat /\ lo <= B(x) /\ B(x) <= hi
      /\ \A x, y \in 0..L+1 : x < y => B(x) < B(y)
      /\ \A x \in 1..L : B(x) = s[x]
      /\ \A x \in 1..L : s[x] \in Nat /\ lo < s[x] /\ s[x] < hi
      /\ Ascending(s)
  <2>1. /\ s \in Seq(Nat) /\ Ascending(s) /\ Len(w) = L + 1
        /\ \A x \in 1..L : lo < s[x] /\ s[x] < hi
    BY DEF InnerShape
  <2>2. \A x \in 1..L : s[x] \in Nat
    BY <2>1, ElementOfSeq
  <2>3. /\ L \in Nat /\ DOMAIN w = 1..Len(w) /\ B(0) = lo /\ B(Len(w)) = hi
        /\ \A x \in 0..Len(w) : B(x) \in Nat /\ lo <= B(x) /\ B(x) <= hi
        /\ \A x, y \in 0..Len(w) : x < y => B(x) < B(y)
        /\ \A x \in 1..L : B(x) = s[x]
    BY KidBounds
  <2> HIDE DEF s, w, L, B
  <2> QED
    BY <2>1, <2>2, <2>3
<1>2. /\ i \in 1..L+1 /\ B(i-1) < mid /\ mid < B(i)
      /\ SearchTree(c, B(i-1), mid, h, g) /\ SearchTree(d, mid, B(i), h, g)
  BY <1>1 DEF KidHas
<1>3. i - 1 \in 0..L+1 /\ i \in 0..L+1 /\ i \in Nat
  BY <1>1, <1>2
<1>4. \A x \in 1..L+1 : x # i => SearchTree(w[x], B(x-1), B(x), h, g)
  BY <1>1, OtherKids
<1>5. /\ Len(keys) = L + 1 /\ Len(kids) = L + 2
      /\ \A x \in 1..L+1 : keys[x] = IF x < i THEN s[x] ELSE IF x = i THEN mid ELSE s[x-1]
      /\ \A x \in 1..L+2 : kids[x] = IF x < i THEN w[x] ELSE IF x = i THEN c
                                     ELSE IF x = i + 1 THEN d ELSE w[x-1]
  <2>1. /\ Len(keys) = L + 1
        /\ \A x \in 1..L+1 : keys[x] = IF x < i THEN s[x] ELSE IF x = i THEN mid ELSE s[x-1]
    BY DEF IsInserted
  <2> DEFINE u == [w EXCEPT ![i] = c]
  <2>2. \A x \in 1..L+1 : u[x] = IF x = i THEN c ELSE w[x]
    BY <1>1, <1>2
  <2>3. Len(u) = L + 1
    <3>1. PICK S : w \in Seq(S)
      BY DEF InnerShape, IsSequence
    <3>2. w \in Seq(S \cup {c})
      BY <3>1, SequenceGrows
    <3>3. i \in 1..Len(w)
      BY <1>1, <1>2
    <3>4. Len(u) = Len(w)
      <4> HIDE DEF w
      <4> QED
        BY <3>2, <3>3, ExceptSeq
    <3> QED
      BY <1>1, <3>4
  <2>4. IsInserted(kids, u, i + 1, d)
    OBVIOUS
  <2> HIDE DEF u, s, w, L
  <2>5. /\ Len(kids) = (L + 1) + 1
        /\ \A x \in 1..(L+1)+1 : kids[x] = IF x < i + 1 THEN u[x] ELSE IF x = i + 1 THEN d ELSE u[x-1]
    BY <2>3, <2>4 DEF IsInserted
  <2>6. (L + 1) + 1 = L + 2
    BY <1>1
  <2>7. ASSUME NEW x \in 1..L+2
        PROVE  kids[x] = IF x < i THEN w[x] ELSE IF x = i THEN c ELSE IF x = i + 1 THEN d ELSE w[x-1]
    <3>1. kids[x] = IF x < i + 1 THEN u[x] ELSE IF x = i + 1 THEN d ELSE u[x-1]
      BY <2>5, <2>6
    <3>2. CASE x < i
      <4>1. x \in 1..L+1 /\ x < i + 1 /\ x # i
        BY SMTT(30), <1>1, <1>2, <1>3, <3>2
      <4> QED
        BY <2>2, <3>1, <3>2, <4>1
    <3>3. CASE x = i
      <4>1. x \in 1..L+1 /\ x < i + 1 /\ ~(x < i)
        BY <1>1, <1>2, <1>3, <3>3
      <4> QED
        BY <2>2, <3>1, <3>3, <4>1
    <3>4. CASE x = i + 1
      <4>1. ~(x < i + 1) /\ ~(x < i) /\ x # i
        BY SMTT(30), <1>1, <1>2, <1>3, <3>4
      <4> QED
        BY <3>1, <3>4, <4>1
    <3>5. CASE i + 1 < x
      <4>1. ~(x < i + 1) /\ ~(x < i) /\ x # i /\ x # i + 1 /\ x - 1 \in 1..L+1 /\ x - 1 # i
        BY <1>1, <1>2, <1>3, <3>5
      <4> QED
        BY <2>2, <3>1, <4>1
    <3> QED
      BY <1>1, <1>3, <3>2, <3>3, <3>4, <3>5
  <2> QED
    BY <2>1, <2>5, <2>6, <2>7
<1>6. m.keys = keys /\ m.kids = kids /\ m.vals = <<>>
  BY InnerFields
<1>7. lo \in Nat /\ hi \in Nat
  BY DEF IsBounds
<1> HIDE DEF m, s, w, L, B
<1>8. ASSUME NEW x \in 1..L PROVE (x < i => s[x] < mid) /\ (i <= x => mid < s[x])
  <2> DEFINE y == s[x]
  <2>1. y \in Nat /\ y = B(x) /\ x \in 0..L+1
    BY <1>1
  <2> HIDE DEF y
  <2>2. ASSUME x < i PROVE y < mid
    <3>1. x = i - 1 \/ x < i - 1
      BY <1>3, <2>2
    <3>2. y <= B(i-1)
      <4>1. B(x) = B(i-1) \/ B(x) < B(i-1)
        BY <1>1, <1>3, <2>1, <3>1
      <4>2. B(x) \in Nat /\ B(i-1) \in Nat
        BY <1>1, <1>3, <2>1
      <4> QED
        BY <2>1, <4>1, <4>2
    <3> QED
      BY <1>1, <1>2, <1>3, <2>1, <3>2
  <2>3. ASSUME i <= x PROVE mid < y
    <3>1. x = i \/ i < x
      BY <1>3, <2>3
    <3>2. B(i) <= y
      BY SMTT(30), <1>1, <1>3, <2>1, <3>1
    <3> QED
      BY SMTT(30), <1>1, <1>2, <1>3, <2>1, <3>2
  <2> QED
    BY <2>2, <2>3 DEF y
<1>9. Ascending(keys)
  <2>1. IsInserted(keys, s, i, mid) /\ i \in 1..Len(s)+1
    BY <1>2 DEF s, L
  <2>2. \A x \in 1..Len(s) : (x < i => s[x] < mid) /\ (i <= x => mid < s[x])
    BY <1>8 DEF L
  <2> QED
    BY <1>1, <2>1, <2>2, AscendingInsert
<1>10. ASSUME NEW x \in 1..L+1 PROVE lo < keys[x] /\ keys[x] < hi
  <2>1. lo < mid /\ mid < hi
    <3>1. lo <= B(i-1) /\ B(i) <= hi /\ B(i-1) \in Nat /\ B(i) \in Nat
      BY <1>1, <1>3
    <3> QED
      BY <1>2, <1>7, <3>1
  <2>2. CASE x < i
    <3>1. x \in 1..L
      BY <1>1, <1>2, <2>2
    <3> QED
      BY <1>1, <1>5, <2>2, <3>1
  <2>3. CASE x = i
    BY <1>5, <2>1, <2>3
  <2>4. CASE i < x
    <3>1. x - 1 \in 1..L /\ ~(x < i) /\ x # i
      BY SMTT(30), <1>1, <1>3, <2>4
    <3> QED
      BY <1>1, <1>5, <3>1
  <2> QED
    BY <1>3, <2>2, <2>3, <2>4
<1>11. InnerShape(m, lo, hi)
  <2>1. Len(kids) = Len(keys) + 1 /\ Len(kids) # 0
    BY <1>1, <1>5
  <2>2. kids # <<>>
    BY <2>1, SequenceShape
  <2> QED
    BY <1>5, <1>6, <1>9, <1>10, <2>1, <2>2 DEF InnerShape, IsLeaf
<1>12. /\ C(0) = lo /\ C(L+2) = hi
       /\ \A x \in 1..L+1 : C(x) = keys[x]
  <2>1. Len(m.kids) = L + 2 /\ Len(m.keys) = L + 1
    BY <1>5, <1>6
  <2> QED
    BY <1>6, <1>11, <2>1, KidBounds
<1> HIDE DEF C
<1>13. ASSUME NEW x \in 0..L+2
       PROVE  C(x) = IF x < i THEN B(x) ELSE IF x = i THEN mid ELSE B(x-1)
  <2>1. CASE x = 0
    BY <1>1, <1>2, <1>12, <2>1
  <2>2. CASE x = L + 2
    <3>1. ~(x < i) /\ x # i /\ x - 1 = L + 1
      BY <1>1, <1>2, <2>2
    <3> QED
      BY <1>1, <1>12, <2>2, <3>1
  <2>3. CASE x # 0 /\ x # L + 2
    <3>1. x \in 1..L+1
      <4>1. L \in Nat
        BY <1>1
      <4> QED
        BY <2>3, <4>1
    <3>2. C(x) = keys[x]
      BY <1>12, <3>1
    <3>3. CASE x < i
      <4>1. x \in 1..L
        BY SMTT(30), <1>1, <1>2, <3>1, <3>3
      <4> QED
        BY <1>1, <1>5, <3>1, <3>2, <3>3, <4>1
    <3>4. CASE x = i
      BY <1>5, <3>1, <3>2, <3>4
    <3>5. CASE i < x
      <4>1. x - 1 \in 1..L /\ ~(x < i) /\ x # i
        BY <1>1, <1>3, <3>1, <3>5
      <4> QED
        BY <1>1, <1>5, <3>1, <3>2, <4>1
    <3> QED
      BY <1>3, <3>1, <3>3, <3>4, <3>5
  <2> QED
    BY <2>1, <2>2, <2>3
<1>14. ASSUME NEW x \in 1..L+2 PROVE SearchTree(kids[x], C(x-1), C(x), h, g)
  <2>1. x \in 0..L+2 /\ x - 1 \in 0..L+2 /\ x \in Nat
    BY SMTT(30), <1>1
  <2>2. CASE x < i
    <3>1. x - 1 < i /\ x \in 1..L+1 /\ x # i
      <4>1. L \in Nat /\ i \in 1..L+1
        BY <1>1, <1>2
      <4> QED
        BY <2>1, <2>2, <4>1
    <3>2. C(x-1) = B(x-1) /\ C(x) = B(x) /\ kids[x] = w[x]
      BY <1>5, <1>13, <2>1, <2>2, <3>1
    <3> QED
      BY <1>4, <3>1, <3>2
  <2>3. CASE x = i
    <3>1. x - 1 < i /\ ~(x < i)
      BY <1>3, <2>1, <2>3
    <3>2. C(x-1) = B(x-1) /\ C(x) = mid /\ kids[x] = c
      BY <1>5, <1>13, <2>1, <2>3, <3>1
    <3> QED
      BY <1>2, <2>3, <3>2
  <2>4. CASE x = i + 1
    <3>1. x - 1 = i /\ ~(i < i) /\ ~(x < i) /\ x # i
      BY <1>3, <2>1, <2>4
    <3>2. C(x-1) = mid /\ C(x) = B(i) /\ kids[x] = d
      BY <1>5, <1>13, <2>1, <2>4, <3>1
    <3> QED
      BY <1>2, <3>2
  <2>5. CASE i + 1 < x
    <3>1. /\ ~(x - 1 < i) /\ x - 1 # i /\ ~(x < i) /\ x # i /\ x # i + 1
          /\ x - 1 \in 1..L+1 /\ x - 1 # i
      BY <1>1, <1>2, <1>3, <2>1, <2>5
    <3>2. C(x-1) = B((x-1)-1) /\ C(x) = B(x-1) /\ kids[x] = w[x-1]
      BY <1>5, <1>13, <2>1, <3>1
    <3> QED
      BY <1>4, <3>1, <3>2
  <2> QED
    BY <1>3, <2>1, <2>2, <2>3, <2>4, <2>5
<1>15. KidsAre(m, lo, hi, h, g)
  BY <1>5, <1>6, <1>14 DEF KidsAre, C
<1> QED
  BY <1>11, <1>15 DEF m

(* A node cut at the key to promote. *)
LEMMA InnerCuts ==
  ASSUME NEW n, NEW lo, NEW hi, IsBounds(lo, hi), InnerShape(n, lo, hi),
         NEW h, NEW f, KidsAre(n, lo, hi, h, f), NEW p \in 1..Len(n.keys),
         NEW k1 \in Seq(Nat), IsPart(k1, n.keys, 0, p-1),
         NEW k2 \in Seq(Nat), IsPart(k2, n.keys, p, Len(n.keys) - p),
         NEW c1, IsSequence(c1), IsPart(c1, n.kids, 0, p),
         NEW c2, IsSequence(c2), IsPart(c2, n.kids, p, Len(n.kids) - p)
  PROVE  LET mid == n.keys[p]
         IN /\ mid \in Nat /\ lo < mid /\ mid < hi /\ IsBounds(lo, mid) /\ IsBounds(mid, hi)
            /\ InnerShape(Inner(k1, c1), lo, mid) /\ KidsAre(Inner(k1, c1), lo, mid, h, f)
            /\ InnerShape(Inner(k2, c2), mid, hi) /\ KidsAre(Inner(k2, c2), mid, hi, h, f)
<1> DEFINE s == n.keys
           L == Len(s)
           w == n.kids
           mid == s[p]
           B(x) == Bound(s, lo, hi, x)
           a == Inner(k1, c1)
           b == Inner(k2, c2)
           C(x) == Bound(k1, lo, mid, x)
           D(x) == Bound(k2, mid, hi, x)
<1>1. /\ L \in Nat /\ Len(w) = L + 1
      /\ \A x, y \in 1..L : x < y => s[x] < s[y]
      /\ \A x \in 1..L : s[x] \in Nat /\ lo < s[x] /\ s[x] < hi
  <2>1. /\ s \in Seq(Nat) /\ Len(w) = L + 1
        /\ \A x \in 1..L : lo < s[x] /\ s[x] < hi
        /\ \A x, y \in 1..L : x < y => s[x] < s[y]
    BY DEF InnerShape, Ascending
  <2>2. L \in Nat /\ \A x \in 1..L : s[x] \in Nat
    BY <2>1, LenProperties, ElementOfSeq
  <2> QED
    BY <2>1, <2>2
<1>2. /\ B(0) = lo /\ B(L+1) = hi /\ \A x \in 1..L : B(x) = s[x]
  BY <1>1, KidBounds
<1>3. \A x \in 1..L+1 : SearchTree(w[x], B(x-1), B(x), h, f)
  BY <1>1 DEF KidsAre
<1>4. p \in 1..L /\ p \in Nat
  BY <1>1
<1>5. /\ Len(k1) = p - 1 /\ Len(c1) = p
      /\ \A x \in 1..p-1 : k1[x] = s[x]
      /\ \A x \in 1..p : c1[x] = w[x]
  <2>1. \A x \in 1..p : 0 + x = x
    BY <1>4
  <2>2. \A x \in 1..p-1 : 0 + x = x
    BY <1>4
  <2> QED
    BY <2>1, <2>2 DEF IsPart
<1>6. /\ Len(k2) = L - p /\ Len(c2) = L + 1 - p
      /\ \A x \in 1..(L - p) : k2[x] = s[p+x]
      /\ \A x \in 1..(L + 1 - p) : c2[x] = w[p+x]
  BY <1>1 DEF IsPart
<1>7. lo \in Nat /\ hi \in Nat /\ 1 <= lo /\ hi <= NumKeys + 1 /\ NumKeys \in Nat
  BY ConstantsAssumption DEF IsBounds
<1>8. /\ a.keys = k1 /\ a.kids = c1 /\ a.vals = <<>>
      /\ b.keys = k2 /\ b.kids = c2 /\ b.vals = <<>>
  BY InnerFields
<1> HIDE DEF s, L, w, a, b
<1>9. mid \in Nat /\ lo < mid /\ mid < hi
  BY <1>1, <1>4
<1>10. IsBounds(lo, mid) /\ IsBounds(mid, hi)
  BY <1>7, <1>9 DEF IsBounds
<1>11. ASSUME NEW x \in 1..p-1 PROVE x \in 1..L /\ s[x] < mid
  <2>1. x \in 1..L /\ x < p
    BY <1>1, <1>4
  <2> QED
    BY <1>1, <1>4, <2>1
<1>12. ASSUME NEW x \in 1..(L - p) PROVE p + x \in 1..L /\ mid < s[p+x]
  <2>1. p + x \in 1..L /\ p < p + x
    BY <1>1, <1>4
  <2> QED
    BY <1>1, <1>4, <2>1
<1> HIDE DEF mid
<1>13. InnerShape(a, lo, mid)
  <2>1. \A x \in 1..p-1 : lo < k1[x] /\ k1[x] < mid
    BY <1>1, <1>5, <1>11
  <2>2. Ascending(k1)
    BY <1>1, <1>5, <1>11 DEF Ascending
  <2>3. Len(c1) # 0 /\ Len(c1) = Len(k1) + 1
    BY <1>4, <1>5
  <2>4. c1 # <<>>
    BY <2>3, SequenceShape
  <2> QED
    BY <1>5, <1>8, <2>1, <2>2, <2>3, <2>4 DEF InnerShape, IsLeaf
<1>14. InnerShape(b, mid, hi)
  <2>1. \A x \in 1..(L - p) : mid < k2[x] /\ k2[x] < hi
    BY <1>1, <1>6, <1>12
  <2>2. ASSUME NEW x \in 1..(L - p), NEW y \in 1..(L - p), x < y PROVE k2[x] < k2[y]
    <3>1. p + x \in 1..L /\ p + y \in 1..L /\ p + x < p + y
      BY <1>4, <1>12, <2>2
    <3> QED
      BY <1>1, <1>6, <3>1
  <2>3. Len(c2) # 0 /\ Len(c2) = Len(k2) + 1
    BY <1>1, <1>4, <1>6
  <2>4. c2 # <<>>
    BY <2>3, SequenceShape
  <2> QED
    BY <1>6, <1>8, <2>1, <2>2, <2>3, <2>4 DEF InnerShape, IsLeaf, Ascending
<1>15. /\ C(0) = lo /\ C(p) = mid /\ \A x \in 1..p-1 : C(x) = k1[x]
  <2>1. /\ Bound(a.keys, lo, mid, 0) = lo
        /\ Bound(a.keys, lo, mid, Len(a.kids)) = mid
        /\ \A x \in 1..Len(a.keys) : Bound(a.keys, lo, mid, x) = a.keys[x]
    BY <1>10, <1>13, KidBounds
  <2> QED
    BY <1>5, <1>8, <2>1
<1>16. /\ D(0) = mid /\ D(L + 1 - p) = hi /\ \A x \in 1..(L - p) : D(x) = k2[x]
  BY SMTT(30), <1>6, <1>8, <1>10, <1>14, KidBounds
<1> HIDE DEF B, C, D
<1>17. ASSUME NEW x \in 0..p PROVE C(x) = B(x)
  <2>1. CASE x = 0
    BY <1>2, <1>15, <2>1
  <2>2. CASE x = p
    BY <1>2, <1>4, <1>15, <2>2 DEF mid
  <2>3. CASE x # 0 /\ x # p
    <3>1. x \in 1..p-1
      BY <1>4, <2>3
    <3> QED
      BY <1>2, <1>5, <1>11, <1>15, <3>1
  <2> QED
    BY <2>1, <2>2, <2>3
<1>18. ASSUME NEW x \in 0..(L + 1 - p) PROVE D(x) = B(p+x)
  <2>1. CASE x = 0
    <3>1. p + x = p
      BY <1>4, <2>1
    <3> QED
      BY <1>2, <1>4, <1>16, <2>1, <3>1 DEF mid
  <2>2. CASE x = L + 1 - p
    <3>1. p + x = L + 1
      BY <1>1, <1>4, <2>2
    <3> QED
      BY <1>2, <1>16, <2>2, <3>1
  <2>3. CASE x # 0 /\ x # L + 1 - p
    <3>1. x \in 1..(L - p)
      <4>1. L \in Nat
        BY <1>1
      <4> QED
        BY <1>4, <2>3, <4>1
    <3> QED
      BY <1>2, <1>6, <1>12, <1>16, <3>1
  <2> QED
    BY <2>1, <2>2, <2>3
<1>19. KidsAre(a, lo, mid, h, f)
  <2> SUFFICES ASSUME NEW x \in 1..p PROVE SearchTree(c1[x], C(x-1), C(x), h, f)
    BY <1>5, <1>8 DEF KidsAre, C
  <2>1. x \in 0..p /\ x - 1 \in 0..p /\ x \in 1..L+1
    <3>1. L \in Nat
      BY <1>1
    <3> QED
      BY <1>4, <3>1
  <2> QED
    BY <1>3, <1>5, <1>17, <2>1
<1>20. KidsAre(b, mid, hi, h, f)
  <2> SUFFICES ASSUME NEW x \in 1..(L + 1 - p) PROVE SearchTree(c2[x], D(x-1), D(x), h, f)
    BY <1>6, <1>8 DEF KidsAre, D
  <2>1. /\ x \in 0..(L + 1 - p) /\ x - 1 \in 0..(L + 1 - p) /\ p + x \in 1..L+1
        /\ p + (x - 1) = (p + x) - 1
    <3>1. L \in Nat
      BY <1>1
    <3> QED
      BY <1>4, <3>1
  <2>2. D(x-1) = B((p + x) - 1) /\ D(x) = B(p+x) /\ c2[x] = w[p+x]
    BY <1>6, <1>18, <2>1
  <2> QED
    BY <1>3, <2>1, <2>2
<1> QED
  BY <1>9, <1>10, <1>13, <1>14, <1>19, <1>20 DEF a, b, mid, s

-----------------------------------------------------------------------------
(* The sizes of separators.                                                 *)

AllKeys(keys) == keys \in Seq(Nat) /\ \A i \in 1..Len(keys) : keys[i] \in Keys

LEMMA SizesOfIs ==
  ASSUME NEW keys, AllKeys(keys)
  PROVE  /\ SizesOf(keys) \in Seq(Nat) /\ Len(SizesOf(keys)) = Len(keys) /\ Len(keys) \in Nat
         /\ \A i \in 1..Len(keys) : SizesOf(keys)[i] = KeySize[keys[i]] /\ KeySize[keys[i]] \in Nat
<1>1. /\ Len(keys) \in Nat /\ DOMAIN keys = 1..Len(keys)
      /\ \A i \in 1..Len(keys) : keys[i] \in Keys
  BY LenProperties DEF AllKeys
<1>2. \A k \in Keys : KeySize[k] \in Nat
  BY ConstantsAssumption DEF Keys
<1>3. SizesOf(keys) = [i \in 1..Len(keys) |-> KeySize[keys[i]]]
  BY <1>1 DEF SizesOf
<1>4. SizesOf(keys) \in Seq(Nat) /\ Len(SizesOf(keys)) = Len(keys)
  <2>1. [i \in 1..Len(keys) |-> KeySize[keys[i]]] \in [1..Len(keys) -> Nat]
    BY <1>1, <1>2
  <2>2. [i \in 1..Len(keys) |-> KeySize[keys[i]]] \in Seq(Nat)
    BY <1>1, <2>1, SeqDef
  <2>3. Len([i \in 1..Len(keys) |-> KeySize[keys[i]]]) = Len(keys)
    BY <1>1
  <2> QED
    BY <1>3, <2>2, <2>3
<1> QED
  BY <1>1, <1>2, <1>3, <1>4

(* Separators of these bounds are keys. *)
LEMMA InnerKeys ==
  ASSUME NEW n, NEW lo, NEW hi, IsBounds(lo, hi), InnerShape(n, lo, hi)
  PROVE  AllKeys(n.keys)
<1> SUFFICES ASSUME NEW i \in 1..Len(n.keys) PROVE n.keys[i] \in Keys
  BY DEF AllKeys, InnerShape
<1> DEFINE x == n.keys[i]
<1>1. x \in Nat /\ lo < x /\ x < hi /\ lo \in Nat
  BY ElementOfSeq DEF InnerShape, IsBounds
<1> HIDE DEF x
<1>2. lo <= x
  BY <1>1
<1> QED
  BY <1>1, <1>2, InBounds DEF x

LEMMA SizesOfInserted ==
  ASSUME NEW old, AllKeys(old), NEW slot \in 1..Len(old)+1, NEW k \in Keys,
         NEW keys \in Seq(Nat), IsInserted(keys, old, slot, k)
  PROVE  AllKeys(keys) /\ IsInserted(SizesOf(keys), SizesOf(old), slot, KeySize[k])
<1> DEFINE L == Len(old)
           s == SizesOf(old)
           t == SizesOf(keys)
<1>1. /\ L \in Nat /\ Len(s) = L /\ \A j \in 1..L : s[j] = KeySize[old[j]]
      /\ \A j \in 1..L : old[j] \in Keys
  BY SizesOfIs DEF AllKeys
<1>2. /\ Len(keys) = L + 1 /\ slot \in 1..L+1
      /\ \A j \in 1..L+1 : keys[j] = IF j < slot THEN old[j] ELSE IF j = slot THEN k ELSE old[j-1]
  BY DEF IsInserted
<1> HIDE DEF L, s
<1>3. ASSUME NEW j \in 1..L+1
      PROVE  /\ keys[j] \in Keys
             /\ KeySize[keys[j]] = IF j < slot THEN s[j] ELSE IF j = slot THEN KeySize[k] ELSE s[j-1]
  <2>1. CASE j < slot
    <3>1. j \in 1..L
      BY <1>1, <1>2, <2>1
    <3> QED
      BY <1>1, <1>2, <2>1, <3>1
  <2>2. CASE j = slot
    <3>1. keys[j] = k /\ ~(j < slot)
      BY <1>2, <2>2
    <3> QED
      BY <2>2, <3>1
  <2>3. CASE slot < j
    <3>1. j - 1 \in 1..L /\ ~(j < slot) /\ j # slot
      BY <1>1, <1>2, <2>3
    <3>2. keys[j] = old[j-1]
      BY <1>2, <3>1
    <3> QED
      BY <1>1, <3>1, <3>2
  <2> QED
    BY <1>1, <1>2, <2>1, <2>2, <2>3
<1>4. AllKeys(keys)
  BY <1>2, <1>3 DEF AllKeys
<1>5. Len(t) = L + 1 /\ \A j \in 1..L+1 : t[j] = KeySize[keys[j]]
  BY <1>2, <1>4, SizesOfIs
<1> HIDE DEF t
<1>6. IsInserted(t, s, slot, KeySize[k])
  BY <1>1, <1>3, <1>5 DEF IsInserted
<1> QED
  BY <1>4, <1>6 DEF s, t

LEMMA SizesOfRemoved ==
  ASSUME NEW old, AllKeys(old), NEW p \in 1..Len(old), NEW keys \in Seq(Nat), IsRemoved(keys, old, p)
  PROVE  AllKeys(keys) /\ IsRemoved(SizesOf(keys), SizesOf(old), p)
<1> DEFINE L == Len(old)
           s == SizesOf(old)
           t == SizesOf(keys)
<1>1. /\ L \in Nat /\ Len(s) = L /\ \A j \in 1..L : s[j] = KeySize[old[j]]
      /\ \A j \in 1..L : old[j] \in Keys
  BY SizesOfIs DEF AllKeys
<1>2. /\ Len(keys) = L - 1 /\ p \in 1..L
      /\ \A j \in 1..L-1 : keys[j] = IF j < p THEN old[j] ELSE old[j+1]
  BY DEF IsRemoved
<1> HIDE DEF L, s
<1>3. ASSUME NEW j \in 1..L-1
      PROVE  /\ keys[j] \in Keys
             /\ KeySize[keys[j]] = IF j < p THEN s[j] ELSE s[j+1]
  <2>1. j \in 1..L /\ j + 1 \in 1..L
    BY <1>1
  <2> QED
    BY <1>1, <1>2, <2>1
<1>4. AllKeys(keys)
  BY <1>2, <1>3 DEF AllKeys
<1>5. Len(t) = L - 1 /\ \A j \in 1..L-1 : t[j] = KeySize[keys[j]]
  BY <1>2, <1>4, SizesOfIs
<1> HIDE DEF t
<1>6. IsRemoved(t, s, p)
  BY <1>1, <1>3, <1>5 DEF IsRemoved
<1> QED
  BY <1>4, <1>6 DEF s, t

LEMMA SizesOfPart ==
  ASSUME NEW keys, AllKeys(keys), NEW a \in Nat, NEW m \in Nat, a + m <= Len(keys),
         NEW part \in Seq(Nat), IsPart(part, keys, a, m)
  PROVE  SizesOf(part) \in Seq(Nat) /\ IsPart(SizesOf(part), SizesOf(keys), a, m)
<1> DEFINE s == SizesOf(keys)
           t == SizesOf(part)
<1>1. /\ Len(keys) \in Nat /\ \A j \in 1..Len(keys) : s[j] = KeySize[keys[j]]
      /\ \A j \in 1..Len(keys) : keys[j] \in Keys
  BY SizesOfIs DEF AllKeys
<1>2. Len(part) = m /\ \A j \in 1..m : part[j] = keys[a+j]
  BY DEF IsPart
<1> HIDE DEF s
<1>3. ASSUME NEW j \in 1..m PROVE part[j] \in Keys /\ KeySize[part[j]] = s[a+j]
  <2> DEFINE q == a + j
  <2>1. q \in 1..Len(keys)
    BY <1>1
  <2>2. part[j] = keys[q]
    BY <1>2
  <2> HIDE DEF q
  <2>3. part[j] \in Keys /\ KeySize[part[j]] = s[q]
    BY <1>1, <2>1, <2>2
  <2> QED
    BY <2>3 DEF q
<1>4. AllKeys(part)
  BY <1>2, <1>3 DEF AllKeys
<1>5. t \in Seq(Nat) /\ Len(t) = m /\ \A j \in 1..m : t[j] = KeySize[part[j]]
  BY <1>2, <1>4, SizesOfIs
<1> HIDE DEF t
<1>6. IsPart(t, s, a, m)
  BY <1>3, <1>5 DEF IsPart
<1> QED
  BY <1>5, <1>6 DEF s, t

LEMMA SizesSmall ==
  ASSUME NEW keys, AllKeys(keys)
  PROVE  SmallSlots(SizesOf(keys))
<1> DEFINE t == SizesOf(keys)
<1> SUFFICES ASSUME NEW i \in 1..Len(t) PROVE 2 * SlotSize <= t[i]
  BY DEF SmallSlots
<1>1. i \in 1..Len(keys)
  BY SizesOfIs
<1>2. keys[i] \in Keys /\ t[i] = KeySize[keys[i]]
  BY <1>1, SizesOfIs DEF AllKeys
<1> HIDE DEF t
<1> QED
  BY <1>2, ConstantsAssumption DEF Keys

(* Where the cut is, and what the parts of the sizes take. *)
LEMMA PromotedFits ==
  ASSUME NEW s \in Seq(Nat), NEW t \in Seq(Nat), NEW slot \in 1..Len(s)+1, NEW e \in Nat,
         IsInserted(t, s, slot, e),
         NEW cap \in Nat, 5 * e <= cap, \A i \in 1..Len(t) : 5 * t[i] <= cap, SmallSlots(t),
         Size(s) <= cap, ~(Size(t) <= cap),
         NEW p, p = IF slot > Len(s) THEN Len(t) ELSE Min({Len(t), BalancedSplit(t) + 1})
  PROVE  /\ p \in 1..Len(t)
         /\ Sums(t)[p-1] <= cap /\ After(t, p) <= cap
<1> DEFINE L == Len(s)
           z == Size(t)
           y == Size(s)
<1>1. L \in Nat /\ Len(t) = L + 1 /\ slot \in 1..L+1 /\ slot \in Nat
  BY LenProperties DEF IsInserted
<1>2. z \in Nat /\ y \in Nat /\ z = y + e
  <2>1. z \in Nat /\ y \in Nat
    BY SizeIs
  <2>2. z = y + e
    BY SizeInserted
  <2> QED
    BY <2>1, <2>2
<1> HIDE DEF z, y
<1>3. cap < z /\ y <= cap /\ z <= cap + e
  <2>1. y <= cap /\ ~(z <= cap)
    BY DEF z, y
  <2> QED
    BY <1>2, <2>1
<1>4. CASE slot > L
  <2>1. p = L + 1
    BY <1>1, <1>4
  <2>2. \A j \in 1..L : t[j] = s[j]
    <3> TAKE j \in 1..L
    <3>1. j \in 1..L+1 /\ j < slot
      BY <1>1, <1>4
    <3> QED
      BY <3>1 DEF IsInserted
  <2>3. L <= Len(t) /\ L <= Len(s)
    BY <1>1
  <2> HIDE DEF L
  <2>4. Sums(t)[L] = Sums(s)[L]
    BY <1>1, <2>2, <2>3, SumsPrefix
  <2>5. p - 1 = L
    BY <1>1, <2>1
  <2>6. Sums(t)[p-1] = y
    BY <2>4, <2>5 DEF Size, y, L
  <2>7. Sums(t)[p] = z
    BY <1>1, <2>1 DEF Size, z
  <2>8. After(t, p) = z - z
    BY <2>7 DEF After, z
  <2>9. p \in 1..Len(t)
    BY SMTT(30), <1>1, <2>1
  <2> QED
    BY <1>2, <1>3, <2>6, <2>8, <2>9
<1>5. CASE ~(slot > L)
  <2> DEFINE c == BalancedSplit(t)
  <2>1. c \in 1..Len(t) /\ c < Len(t) /\ Sums(t)[c] <= cap /\ After(t, c) <= cap
    <3>1. cap < Size(t) /\ Size(t) <= cap + e
      BY <1>3 DEF z
    <3> QED
      BY <3>1, BalancedFits
  <2>2. p = Min({Len(t), c + 1})
    BY <1>5
  <2> HIDE DEF c
  <2> DEFINE M == Len(t)
  <2>3. M \in Nat /\ c \in 1..M /\ c < M
    BY <1>1, <2>1
  <2> HIDE DEF M
  <2>4. {M, c + 1} \in SUBSET Nat /\ {M, c + 1} # {}
    BY <2>3
  <2>5. p = M \/ p = c + 1
    BY <2>2, <2>4, MinIsLeast DEF M
  <2>6. p <= c + 1 /\ p <= M
    BY ZenonT(40), <2>2, <2>4, MinIsLeast DEF M
  <2>7. p = c + 1
    BY <2>3, <2>5, <2>6
  <2>8. p - 1 = c /\ c <= p /\ c \in 0..M /\ p \in 0..M /\ p \in 1..M
    BY ONLY <2>3, <2>7
  <2>9. Sums(t)[c] <= Sums(t)[p]
    BY <2>8, SumsMonotone DEF M
  <2>10. Sums(t)[c] \in Nat /\ Sums(t)[p] \in Nat
    BY <2>8, SizeIs DEF M
  <2> DEFINE x == Sums(t)[c]
             w == Sums(t)[p]
  <2>11. x \in Nat /\ w \in Nat /\ x <= w /\ z - x <= cap
    BY <2>1, <2>9, <2>10 DEF After, z
  <2>12. After(t, p) = z - w
    BY DEF After, z
  <2> HIDE DEF x, w
  <2>13. z - w <= cap
    BY <1>2, <2>11
  <2> QED
    BY <2>1, <2>8, <2>12, <2>13 DEF M
<1> QED
  BY <1>4, <1>5

(* A node with a separator more, cut where it is too full. *)
LEMMA NodeParts ==
  ASSUME NEW old, AllKeys(old), NodeFits(old), ShortKeys,
         NEW slot \in 1..Len(old)+1, NEW k \in Keys,
         NEW keys \in Seq(Nat), IsInserted(keys, old, slot, k), ~NodeFits(keys),
         NEW p, p = PromotedSlot(keys, slot > Len(old)),
         NEW k1 \in Seq(Nat), IsPart(k1, keys, 0, p-1),
         NEW k2 \in Seq(Nat), IsPart(k2, keys, p, Len(keys) - p)
  PROVE  NodeFits(k1) /\ NodeFits(k2)
<1> DEFINE s == SizesOf(old)
           t == SizesOf(keys)
           e == KeySize[k]
<1>1. AllKeys(keys) /\ IsInserted(t, s, slot, e)
  BY SizesOfInserted
<1>2. /\ s \in Seq(Nat) /\ Len(s) = Len(old) /\ t \in Seq(Nat) /\ Len(t) = Len(keys)
      /\ Len(keys) \in Nat /\ \A i \in 1..Len(keys) : t[i] = KeySize[keys[i]]
  BY <1>1, SizesOfIs
<1>3. e \in Nat /\ 5 * e <= NodeCap /\ NodeCap \in Nat
  BY ConstantsAssumption DEF ShortKeys, Keys
<1>4. \A i \in 1..Len(t) : 5 * t[i] <= NodeCap
  BY <1>1, <1>2 DEF ShortKeys, AllKeys
<1>0. SmallSlots(t)
  BY <1>1, SizesSmall
<1>5. p = IF slot > Len(s) THEN Len(t) ELSE Min({Len(t), BalancedSplit(t) + 1})
  BY <1>2 DEF PromotedSlot
<1>6. Size(s) <= NodeCap /\ ~(Size(t) <= NodeCap)
  BY DEF NodeFits
<1>7. slot \in 1..Len(s)+1
  BY <1>2
<1> HIDE DEF s, t, e
<1>8. p \in 1..Len(t) /\ Sums(t)[p-1] <= NodeCap /\ After(t, p) <= NodeCap
  BY <1>0, <1>1, <1>2, <1>3, <1>4, <1>5, <1>6, <1>7, PromotedFits
<1> DEFINE low == p - 1
           high == Len(keys) - p
<1>9. /\ low \in Nat /\ high \in Nat /\ 0 \in Nat /\ 0 + low <= Len(keys) /\ p + high <= Len(keys)
      /\ p \in Nat /\ low \in 0..Len(t) /\ p \in 0..Len(t)
  <2> DEFINE M == Len(keys)
  <2>1. M \in Nat /\ p \in 1..M /\ Len(t) = M
    BY <1>2, <1>8
  <2> HIDE DEF M
  <2>2. /\ low \in Nat /\ M - p \in Nat /\ 0 \in Nat /\ 0 + low <= M /\ p + (M - p) <= M
        /\ p \in Nat /\ low \in 0..M /\ p \in 0..M
    BY SMTT(30), <2>1
  <2> QED
    BY <2>1, <2>2 DEF M
<1>10. IsPart(k1, keys, 0, low) /\ IsPart(k2, keys, p, high) /\ high = Len(t) - p
  BY <1>2
<1>11. Sums(t)[low] <= NodeCap
  BY <1>8
<1> HIDE DEF low, high
<1>12. SizesOf(k1) \in Seq(Nat) /\ IsPart(SizesOf(k1), t, 0, low)
  BY <1>1, <1>9, <1>10, SizesOfPart DEF t
<1>13. SizesOf(k2) \in Seq(Nat) /\ IsPart(SizesOf(k2), t, p, Len(t) - p)
  BY <1>1, <1>9, <1>10, SizesOfPart DEF t
<1>14. Size(SizesOf(k1)) = Sums(t)[low]
  <2> DEFINE c == SubSeq(t, low + 1, Len(t))
  <2>1. c \in Seq(Nat) /\ IsPart(c, t, low, Len(t) - low)
    BY <1>2, <1>9, PartsAre
  <2> DEFINE u == SizesOf(k1)
  <2>2. u \in Seq(Nat) /\ IsPart(u, t, 0, low)
    BY <1>12
  <2>3. t \in Seq(Nat) /\ low \in 0..Len(t)
    BY <1>2, <1>9
  <2> HIDE DEF c, u
  <2>4. Size(u) = Sums(t)[low]
    BY <2>1, <2>2, <2>3, SizeOfParts
  <2> QED
    BY <2>4 DEF u
<1>15. Size(SizesOf(k2)) = After(t, p)
  <2> DEFINE a == SubSeq(t, 1, p)
  <2>1. a \in Seq(Nat) /\ IsPart(a, t, 0, p)
    BY <1>2, <1>9, PartsAre
  <2> HIDE DEF a
  <2> QED
    BY ZenonT(40), <1>2, <1>9, <1>13, <2>1, SizeOfParts
<1> QED
  BY <1>8, <1>11, <1>14, <1>15 DEF NodeFits

-----------------------------------------------------------------------------
(* The node above a child that has been split.                              *)

(* The key to promote is one of the node's. *)
LEMMA PromotedIn ==
  ASSUME NEW keys, AllKeys(keys), Len(keys) # 0, NEW atEnd
  PROVE  PromotedSlot(keys, atEnd) \in 1..Len(keys)
<1> DEFINE t == SizesOf(keys)
           M == Len(keys)
           c == BalancedSplit(t)
<1>1. t \in Seq(Nat) /\ Len(t) = M /\ M \in Nat
  BY SizesOfIs
<1>2. t[1] \in Nat \ {0}
  <2>1. 1 \in 1..M
    BY <1>1
  <2>2. keys[1] \in Keys /\ t[1] = KeySize[keys[1]]
    BY <2>1, SizesOfIs DEF AllKeys
  <2> HIDE DEF t
  <2> QED
    BY <2>2, ConstantsAssumption DEF Keys
<1> HIDE DEF t, M
<1>3. Size(t) # 0
  <2>1. 1 \in 1..Len(t) /\ 1 \in 0..Len(t) /\ 1 - 1 = 0
    BY <1>1 DEF M
  <2>2. /\ Sums(t)[1] = Sums(t)[1-1] + t[1] /\ Sums(t)[1] <= Size(t)
        /\ Sums(t)[0] = 0 /\ Size(t) \in Nat
    BY <1>1, <2>1, SizeIs
  <2> DEFINE x == Sums(t)[1]
             y == Size(t)
             z == Sums(t)[0]
             e == t[1]
  <2>3. x = z + e /\ x <= y /\ z = 0 /\ y \in Nat /\ e \in Nat \ {0}
    BY <1>2, <2>1, <2>2
  <2> HIDE DEF x, y, z, e
  <2>4. y # 0
    BY <2>3
  <2> QED
    BY <2>4 DEF y
<1>4. c \in 1..M
  <2>1. SmallSlots(t)
    BY SizesSmall DEF t
  <2> QED
    BY <1>1, <1>3, <2>1, BalancedIs
<1>5. PromotedSlot(keys, atEnd) = IF atEnd THEN M ELSE Min({M, c + 1})
  BY DEF PromotedSlot, M, t
<1> HIDE DEF c
<1>6. CASE atEnd
  <2>1. M \in 1..M
    BY <1>1, <1>4
  <2> QED
    BY <1>5, <1>6, <2>1 DEF M
<1>7. CASE ~atEnd
  <2>1. {M, c + 1} \in SUBSET Nat /\ {M, c + 1} # {}
    BY <1>1, <1>4
  <2> DEFINE p == Min({M, c + 1})
  <2>2. p \in {M, c + 1} /\ p <= M
    BY <2>1, MinIsLeast
  <2> HIDE DEF p
  <2>3. p \in 1..M
    BY <1>1, <1>4, <2>2
  <2> QED
    BY <1>5, <1>7, <2>3 DEF p, M
<1> QED
  BY <1>6, <1>7

(* A node that holds one separator more than fits, made into two. *)
LEMMA NodeSplitIs ==
  ASSUME NEW lo, NEW hi, IsBounds(lo, hi), NEW old, AllKeys(old), ShortKeys => NodeFits(old),
         NEW slot \in 1..Len(old)+1, NEW k \in Keys,
         NEW keys \in Seq(Nat), IsInserted(keys, old, slot, k), ~NodeFits(keys),
         NEW kids, IsSequence(kids), InnerShape(Inner(keys, kids), lo, hi),
         NEW h \in Nat, NEW f, KidsAre(Inner(keys, kids), lo, hi, h, f),
         NEW p, p = PromotedSlot(keys, slot > Len(old))
  PROVE  Result(Halves(Inner(SubSeq(keys, 1, p - 1), SubSeq(kids, 1, p)),
                       keys[p],
                       Inner(SubSeq(keys, p + 1, Len(keys)), SubSeq(kids, p + 1, Len(kids)))),
                lo, hi, h + 1, f)
<1> DEFINE n == Inner(keys, kids)
           mid == keys[p]
           k1 == SubSeq(keys, 1, p - 1)
           k2 == SubSeq(keys, p + 1, Len(keys))
           c1 == SubSeq(kids, 1, p)
           c2 == SubSeq(kids, p + 1, Len(kids))
           a == Inner(k1, c1)
           b == Inner(k2, c2)
           r == Halves(a, mid, b)
<1>1. n.keys = keys /\ n.kids = kids
  BY InnerFields
<1> HIDE DEF n
<1>2. AllKeys(keys) /\ Len(keys) # 0 /\ Len(keys) \in Nat /\ Len(kids) = Len(keys) + 1
  <2>1. Len(keys) = Len(old) + 1 /\ Len(old) \in Nat
    BY SizesOfIs DEF IsInserted
  <2>2. AllKeys(keys)
    BY SizesOfInserted
  <2>3. Len(kids) = Len(keys) + 1
    BY <1>1 DEF InnerShape, n
  <2> QED
    BY <2>1, <2>2, <2>3
<1>3. p \in 1..Len(keys)
  BY <1>2, PromotedIn
<1>4. p \in 0..Len(keys) /\ p - 1 \in 0..Len(keys) /\ p \in 0..Len(kids) /\ (p - 1) + 1 = p
  <2> DEFINE M == Len(keys)
             K == Len(kids)
  <2>1. M \in Nat /\ K = M + 1 /\ p \in 1..M
    BY <1>2, <1>3
  <2> HIDE DEF M, K
  <2>2. p \in 0..M /\ p - 1 \in 0..M /\ p \in 0..K /\ (p - 1) + 1 = p
    BY <2>1
  <2> QED
    BY <2>2 DEF M, K
<1>5. /\ k1 \in Seq(Nat) /\ IsPart(k1, keys, 0, p-1)
      /\ k2 \in Seq(Nat) /\ IsPart(k2, keys, p, Len(keys) - p)
  BY <1>4, PartsAre
<1>6. /\ IsSequence(c1) /\ IsPart(c1, kids, 0, p)
      /\ IsSequence(c2) /\ IsPart(c2, kids, p, Len(kids) - p)
  <2>1. PICK S : kids \in Seq(S)
    BY DEF IsSequence
  <2>2. /\ c1 \in Seq(S) /\ IsPart(c1, kids, 0, p)
        /\ c2 \in Seq(S) /\ IsPart(c2, kids, p, Len(kids) - p)
    BY <1>4, <2>1, PartsAre
  <2> HIDE DEF c1, c2
  <2> QED
    BY <2>2 DEF IsSequence
<1> HIDE DEF k1, k2, c1, c2
<1>7. /\ mid \in Nat /\ lo < mid /\ mid < hi /\ IsBounds(lo, mid) /\ IsBounds(mid, hi)
      /\ InnerShape(a, lo, mid) /\ KidsAre(a, lo, mid, h, f)
      /\ InnerShape(b, mid, hi) /\ KidsAre(b, mid, hi, h, f)
  <2>1. InnerShape(n, lo, hi) /\ KidsAre(n, lo, hi, h, f)
    BY DEF n
  <2> QED
    BY ZenonT(40), <1>1, <1>3, <1>5, <1>6, <2>1, InnerCuts
<1>8. ShortKeys => NodeFits(k1) /\ NodeFits(k2)
  BY <1>5, NodeParts
<1>9. a.keys = k1 /\ b.keys = k2
  BY InnerFields
<1> HIDE DEF a, b, mid
<1>10. SearchTree(a, lo, mid, h+1, f)
  BY <1>7, <1>8, <1>9, InnerTree DEF InnerOK
<1>11. SearchTree(b, mid, hi, h+1, f)
  BY <1>7, <1>8, <1>9, InnerTree DEF InnerOK
<1>12. /\ r.node = a /\ r.split # <<>> /\ r.split[1].key = mid /\ r.split[1].right = b
  BY DEF Halves
<1> HIDE DEF r
<1>13. Result(r, lo, hi, h+1, f)
  BY <1>7, <1>10, <1>11, <1>12 DEF Result
<1> QED
  BY <1>13 DEF r, a, b, mid, k1, k2, c1, c2

(* insertIntoInternalCow, with a child that has been split, ... *)
LEMMA SplitChildIs ==
  ASSUME NEW n, NEW lo, NEW hi, IsBounds(lo, hi), InnerOK(n, lo, hi),
         NEW h \in Nat, NEW f, KidsAre(n, lo, hi, h, f), NEW k \in Nat, NEW i, KidHas(n, lo, hi, i, k),
         NEW g, NEW v, Sets(g, f, k, v),
         NEW r, r.split # <<>>,
         Result(r, Bound(n.keys, lo, hi, i-1), Bound(n.keys, lo, hi, i), h, g)
  PROVE  Result(InsertIntoInternal(n, i, r), lo, hi, h + 1, g)
<1> DEFINE B(x) == Bound(n.keys, lo, hi, x)
           up == r.split[1]
           mid == up.key
           c == r.node
           d == up.right
           kids == [n.kids EXCEPT ![i] = c]
           newKeys == InsertAt(n.keys, i, mid)
           newKids == InsertAt(kids, i + 1, d)
           m == Inner(newKeys, newKids)
           p == PromotedSlot(newKeys, i > Len(n.keys))
<1>1. /\ mid \in Nat /\ B(i-1) < mid /\ mid < B(i)
      /\ SearchTree(c, B(i-1), mid, h, g) /\ SearchTree(d, mid, B(i), h, g)
  BY DEF Result
<1>2. /\ InnerShape(n, lo, hi) /\ IsSequence(n.kids) /\ n.keys \in Seq(Nat)
      /\ Len(n.kids) = Len(n.keys) + 1 /\ Len(n.keys) \in Nat /\ i \in 1..Len(n.kids)
  BY LenProperties DEF InnerOK, InnerShape, KidHas
<1>3. i \in 1..Len(n.keys)+1 /\ i \in Nat
  BY <1>2
<1>4. i - 1 \in 0..Len(n.kids) /\ i \in 0..Len(n.kids)
  BY <1>2
<1>5. /\ B(i-1) \in Nat /\ B(i) \in Nat /\ lo <= B(i-1) /\ B(i) <= hi /\ lo \in Nat /\ hi \in Nat
  BY <1>2, <1>4, KidBounds DEF IsBounds
<1> HIDE DEF c, d, mid, up
<1>6. ChildFor(n.keys, mid) = i
  <2>1. B(i-1) <= mid
    <3> DEFINE x == B(i-1)
    <3>1. x \in Nat /\ x < mid
      BY <1>1, <1>5
    <3> HIDE DEF x
    <3>2. x <= mid
      BY <1>1, <3>1
    <3> QED
      BY <3>2 DEF x
  <2> QED
    BY <1>1, <1>2, <2>1, ChildForOnly
<1>7. mid \in Keys
  <2> DEFINE x == B(i-1)
             y == B(i)
  <2>1. /\ x \in Nat /\ y \in Nat /\ lo <= x /\ y <= hi /\ lo \in Nat /\ hi \in Nat
        /\ x < mid /\ mid < y /\ mid \in Nat
    BY <1>1, <1>5
  <2> HIDE DEF x, y, B
  <2>2. lo <= mid /\ mid < hi
    BY <2>1
  <2> QED
    BY <2>1, <2>2, InBounds
<1>8. newKeys \in Seq(Nat) /\ IsInserted(newKeys, n.keys, i, mid)
  BY <1>1, <1>2, <1>3, InsertAtIs
<1>9. IsSequence(newKids) /\ IsInserted(newKids, kids, i + 1, d)
  <2>1. PICK S : n.kids \in Seq(S)
    BY <1>2 DEF IsSequence
  <2>2. n.kids \in Seq(S \cup {c})
    BY <2>1, SequenceGrows
  <2>3. kids \in Seq(S \cup {c}) /\ Len(kids) = Len(n.kids)
    BY <1>2, <2>2, ExceptSeq
  <2> HIDE DEF kids
  <2>4. kids \in Seq((S \cup {c}) \cup {d})
    BY <2>3, SequenceGrows
  <2>5. i + 1 \in 1..Len(kids)+1
    BY <1>2, <2>3
  <2>6. newKids \in Seq((S \cup {c}) \cup {d}) /\ IsInserted(newKids, kids, i + 1, d)
    BY <2>4, <2>5, InsertAtIs
  <2> QED
    BY <2>6 DEF IsSequence
<1>10. AllKeys(n.keys)
  BY <1>2, InnerKeys
<1>11. InsertIntoInternal(n, i, r) =
          IF NodeFits(newKeys) THEN Whole(m)
          ELSE Halves(Inner(SubSeq(newKeys, 1, p - 1), SubSeq(newKids, 1, p)),
                      newKeys[p],
                      Inner(SubSeq(newKeys, p + 1, Len(newKeys)), SubSeq(newKids, p + 1, Len(newKids))))
  BY <1>6 DEF InsertIntoInternal, up, mid, c, d
<1> HIDE DEF newKeys, newKids
<1>12. InnerShape(m, lo, hi) /\ KidsAre(m, lo, hi, h, g)
  BY <1>1, <1>2, <1>8, <1>9, KidDoubled
<1>13. CASE NodeFits(newKeys)
  <2>1. m.keys = newKeys
    BY InnerFields
  <2> HIDE DEF m
  <2>2. SearchTree(m, lo, hi, h+1, g)
    BY <1>12, <1>13, <2>1, InnerTree DEF InnerOK
  <2>3. InsertIntoInternal(n, i, r) = Whole(m)
    BY <1>11, <1>13
  <2> QED
    BY <2>2, <2>3, WholeFields DEF Result
<1>14. CASE ~NodeFits(newKeys)
  <2>1. ShortKeys => NodeFits(n.keys)
    BY DEF InnerOK
  <2>2. Result(Halves(Inner(SubSeq(newKeys, 1, p - 1), SubSeq(newKids, 1, p)),
                      newKeys[p],
                      Inner(SubSeq(newKeys, p + 1, Len(newKeys)), SubSeq(newKids, p + 1, Len(newKids)))),
               lo, hi, h + 1, g)
    BY <1>3, <1>7, <1>8, <1>9, <1>10, <1>12, <1>14, <2>1, NodeSplitIs
  <2> QED
    BY <1>11, <1>14, <2>2
<1> QED
  BY <1>13, <1>14

-----------------------------------------------------------------------------
(* The node above a child that has become empty.                            *)

(* A node that two neighbouring children have given way to one: c is child  *)
(* q of those that are left, with the bounds of both.                       *)
LEMMA KidsMerged ==
  ASSUME NEW n, NEW lo, NEW hi, IsBounds(lo, hi), InnerShape(n, lo, hi),
         NEW h, NEW g, NEW q \in 1..Len(n.keys), NEW c,
         SearchTree(c, Bound(n.keys, lo, hi, q-1), Bound(n.keys, lo, hi, q+1), h, g),
         \A x \in 1..Len(n.kids) : x # q /\ x # q + 1 =>
            SearchTree(n.kids[x], Bound(n.keys, lo, hi, x-1), Bound(n.keys, lo, hi, x), h, g),
         NEW keys \in Seq(Nat), IsRemoved(keys, n.keys, q),
         NEW kids, IsSequence(kids), Len(kids) = Len(n.keys),
         \A x \in 1..Len(n.keys) :
            kids[x] = IF x < q THEN n.kids[x] ELSE IF x = q THEN c ELSE n.kids[x+1]
  PROVE  InnerShape(Inner(keys, kids), lo, hi) /\ KidsAre(Inner(keys, kids), lo, hi, h, g)
<1> DEFINE s == n.keys
           L == Len(s)
           w == n.kids
           B(x) == Bound(s, lo, hi, x)
           m == Inner(keys, kids)
           C(x) == Bound(keys, lo, hi, x)
<1>1. /\ L \in Nat /\ Len(w) = L + 1
      /\ B(0) = lo /\ B(L+1) = hi
      /\ \A x \in 1..L : B(x) = s[x]
      /\ \A x \in 1..L : s[x] \in Nat /\ lo < s[x] /\ s[x] < hi
      /\ Ascending(s)
  <2>1. /\ s \in Seq(Nat) /\ Ascending(s) /\ Len(w) = L + 1
        /\ \A x \in 1..L : lo < s[x] /\ s[x] < hi
    BY DEF InnerShape
  <2>2. \A x \in 1..L : s[x] \in Nat
    BY <2>1, ElementOfSeq
  <2>3. /\ L \in Nat /\ B(0) = lo /\ B(Len(w)) = hi
        /\ \A x \in 1..L : B(x) = s[x]
    BY KidBounds
  <2> HIDE DEF s, w, L, B
  <2> QED
    BY <2>1, <2>2, <2>3
<1>2. /\ q \in 1..L /\ q \in Nat
      /\ SearchTree(c, B(q-1), B(q+1), h, g)
      /\ \A x \in 1..L+1 : x # q /\ x # q + 1 => SearchTree(w[x], B(x-1), B(x), h, g)
  BY <1>1
<1>3. /\ Len(keys) = L - 1 /\ Len(kids) = L
      /\ \A x \in 1..L-1 : keys[x] = IF x < q THEN s[x] ELSE s[x+1]
      /\ \A x \in 1..L : kids[x] = IF x < q THEN w[x] ELSE IF x = q THEN c ELSE w[x+1]
  BY DEF IsRemoved
<1>4. m.keys = keys /\ m.kids = kids /\ m.vals = <<>>
  BY InnerFields
<1> HIDE DEF m, s, w, L, B
<1>5. ASSUME NEW x \in 1..L-1
      PROVE  /\ x \in 1..L /\ x + 1 \in 1..L
             /\ lo < keys[x] /\ keys[x] < hi /\ keys[x] = B(IF x < q THEN x ELSE x + 1)
  <2>1. x \in 1..L /\ x + 1 \in 1..L
    BY <1>1
  <2> QED
    BY <1>1, <1>3, <2>1
<1>6. ASSUME NEW x \in 1..L-1, NEW y \in 1..L-1, x < y PROVE keys[x] < keys[y]
  <2>1. CASE x < q /\ y < q
    BY <1>1, <1>3, <1>5, <1>6, <2>1 DEF Ascending, L
  <2>2. CASE x < q /\ ~(y < q)
    <3>1. x < y + 1 /\ x \in 1..L /\ y + 1 \in 1..L
      BY <1>5, <1>6
    <3>2. s[x] < s[y+1]
      BY <1>1, <3>1 DEF Ascending, L
    <3> QED
      BY <1>3, <2>2, <3>2
  <2>3. CASE ~(x < q)
    <3>1. ~(y < q)
      BY <1>2, <1>6, <2>3
    <3>2. x + 1 < y + 1
      BY <1>1, <1>6
    <3>3. x + 1 \in 1..L /\ y + 1 \in 1..L
      BY <1>5
    <3>4. s[x+1] < s[y+1]
      BY <1>1, <3>2, <3>3 DEF Ascending, L
    <3> QED
      BY <1>3, <2>3, <3>1, <3>4
  <2> QED
    BY <2>1, <2>2, <2>3
<1>7. InnerShape(m, lo, hi)
  <2>1. Len(kids) = Len(keys) + 1 /\ Len(kids) # 0
    BY <1>1, <1>2, <1>3
  <2>2. kids # <<>>
    BY <2>1, SequenceShape
  <2>3. Ascending(keys)
    BY <1>3, <1>6 DEF Ascending
  <2> QED
    BY <1>3, <1>4, <1>5, <2>1, <2>2, <2>3 DEF InnerShape, IsLeaf
<1>8. /\ C(0) = lo /\ C(L) = hi /\ \A x \in 1..L-1 : C(x) = keys[x]
  <2>1. Len(m.kids) = L /\ Len(m.keys) = L - 1
    BY <1>3, <1>4
  <2> QED
    BY SMTT(30), <1>4, <1>7, <2>1, KidBounds
<1> HIDE DEF C
<1>9. ASSUME NEW x \in 0..L PROVE C(x) = B(IF x < q THEN x ELSE x + 1)
  <2>1. CASE x = 0
    <3>1. x < q
      BY <1>2, <2>1
    <3> QED
      BY <1>1, <1>8, <2>1, <3>1
  <2>2. CASE x = L
    <3>1. ~(x < q)
      BY <1>1, <1>2, <2>2
    <3> QED
      BY <1>1, <1>8, <2>2, <3>1
  <2>3. CASE x # 0 /\ x # L
    <3>1. x \in 1..L-1
      <4>1. L \in Nat
        BY <1>1
      <4> QED
        BY <2>3, <4>1
    <3> QED
      BY <1>5, <1>8, <3>1
  <2> QED
    BY <2>1, <2>2, <2>3
<1>10. ASSUME NEW x \in 1..L PROVE SearchTree(kids[x], C(x-1), C(x), h, g)
  <2>1. x \in 0..L /\ x - 1 \in 0..L /\ x \in Nat
    <3>1. L \in Nat
      BY <1>1
    <3> QED
      BY <3>1
  <2>2. CASE x < q
    <3>1. x - 1 < q /\ x \in 1..L+1 /\ x # q /\ x # q + 1
      <4>1. L \in Nat /\ q \in Nat
        BY <1>1, <1>2
      <4> QED
        BY <2>1, <2>2, <4>1
    <3>2. C(x-1) = B(x-1) /\ C(x) = B(x) /\ kids[x] = w[x]
      BY <1>3, <1>9, <2>1, <2>2, <3>1
    <3> QED
      BY <1>2, <3>1, <3>2
  <2>3. CASE x = q
    <3>1. x - 1 < q /\ ~(x < q)
      BY <1>2, <2>3
    <3>2. C(x-1) = B(x-1) /\ C(x) = B(x+1) /\ kids[x] = c
      BY <1>3, <1>9, <2>1, <2>3, <3>1
    <3> QED
      BY <1>2, <2>3, <3>2
  <2>4. CASE q < x
    <3>1. /\ ~(x - 1 < q) /\ ~(x < q) /\ x # q /\ (x - 1) + 1 = x /\ (x + 1) - 1 = x
          /\ x + 1 \in 1..L+1 /\ x + 1 # q /\ x + 1 # q + 1
      <4>1. L \in Nat /\ q \in Nat
        BY <1>1, <1>2
      <4> QED
        BY <2>1, <2>4, <4>1
    <3>2. C(x-1) = B((x-1)+1) /\ C(x) = B(x+1) /\ kids[x] = w[x+1]
      BY <1>3, <1>9, <2>1, <3>1
    <3>3. SearchTree(w[x+1], B((x+1)-1), B(x+1), h, g)
      BY <1>2, <3>1
    <3> QED
      BY <3>1, <3>2, <3>3
  <2> QED
    BY <1>2, <2>1, <2>2, <2>3, <2>4
<1>11. KidsAre(m, lo, hi, h, g)
  BY <1>3, <1>4, <1>10 DEF KidsAre, C
<1> QED
  BY <1>7, <1>11 DEF m

(* The neighbour of a child that has gone takes its bounds. *)
LEMMA NeighbourIs ==
  ASSUME NEW n, NEW lo, NEW hi, IsBounds(lo, hi), InnerShape(n, lo, hi),
         NEW h, NEW f, KidsAre(n, lo, hi, h, f), NEW k \in Nat, NEW i, KidHas(n, lo, hi, i, k),
         NEW g, NEW v, Sets(g, f, k, v), Len(n.kids) # 1,
         \A j \in Nat : Bound(n.keys, lo, hi, i-1) <= j /\ j < Bound(n.keys, lo, hi, i)
                        => g[j] = Missing
  PROVE  LET q == IF i = 1 THEN 1 ELSE i - 1
         IN /\ q \in 1..Len(n.keys)
            /\ SearchTree(n.kids[IF i = 1 THEN 2 ELSE i - 1],
                          Bound(n.keys, lo, hi, q-1), Bound(n.keys, lo, hi, q+1), h, g)
<1> DEFINE B(x) == Bound(n.keys, lo, hi, x)
           K == Len(n.kids)
           L == Len(n.keys)
           w == n.kids
<1>1. /\ K \in Nat /\ L \in Nat /\ K = L + 1 /\ i \in 1..K /\ K # 1
      /\ \A x \in 0..K : B(x) \in Nat /\ lo <= B(x) /\ B(x) <= hi
      /\ \A x, y \in 0..K : x < y => B(x) < B(y)
  BY KidBounds DEF InnerShape, KidHas
<1>2. ASSUME NEW x \in 1..K, x # i PROVE SearchTree(w[x], B(x-1), B(x), h, g)
  BY <1>2, OtherKids
<1>3. \A j \in Nat : B(i-1) <= j /\ j < B(i) => g[j] = Missing
  OBVIOUS
<1>4. lo \in Nat /\ hi \in Nat
  BY DEF IsBounds
<1> HIDE DEF B, K, L, w
<1>5. ASSUME NEW x \in 0..K, NEW y \in 0..K, x < y PROVE IsBounds(B(x), B(y))
  <2> DEFINE a == B(x)
             b == B(y)
  <2>1. a \in Nat /\ b \in Nat /\ lo <= a /\ b <= hi /\ a < b
    BY <1>1, <1>5
  <2>2. 1 <= lo /\ hi <= NumKeys + 1 /\ NumKeys \in Nat
    BY ConstantsAssumption DEF IsBounds
  <2> HIDE DEF a, b
  <2>3. IsBounds(a, b)
    BY <1>4, <2>1, <2>2 DEF IsBounds
  <2> QED
    BY <2>3 DEF a, b
<1>6. CASE i = 1
  <2>1. /\ 2 \in 1..K /\ 2 # i /\ 0 \in 0..K /\ 1 \in 0..K /\ 2 \in 0..K /\ 1 \in 1..L
        /\ 2 - 1 = 1 /\ 1 - 1 = 0 /\ 1 + 1 = 2 /\ i - 1 = 0
    BY <1>1, <1>6
  <2>2. SearchTree(w[2], B(1), B(2), h, g)
    BY <1>2, <2>1
  <2>3. IsBounds(B(0), B(2))
    BY <1>5, <2>1
  <2>4. \A j \in Nat : B(0) <= j /\ j < B(1) => g[j] = Missing
    BY <1>3, <1>6, <2>1
  <2>5. B(0) \in Nat /\ B(1) \in Nat /\ B(2) \in Nat /\ B(0) < B(1)
    BY <1>1, <2>1
  <2> DEFINE a == B(0)
             x == B(1)
             b == B(2)
  <2> HIDE DEF a, x, b
  <2>6. Widens(g, a, b, g, x, b)
    BY <2>4, <2>5 DEF Widens, a, x, b
  <2>7. SearchTree(w[2], a, b, h + 0, g)
    BY <2>2, <2>3, <2>6, TreeWidens DEF a, x, b
  <2>8. h + 0 = h
    BY <2>2, TreeIs
  <2> QED
    BY <1>6, <2>1, <2>7, <2>8 DEF a, b, B, w, L
<1>7. CASE i # 1
  <2> DEFINE q == i - 1
  <2>1. /\ q \in 1..K /\ q # i /\ q - 1 \in 0..K /\ q \in 0..K /\ i \in 0..K /\ q \in 1..L
        /\ q + 1 = i /\ q - 1 < i /\ q < i
    BY <1>1, <1>7
  <2>2. SearchTree(w[q], B(q-1), B(q), h, g)
    BY <1>2, <2>1
  <2>3. IsBounds(B(q-1), B(i))
    BY <1>5, <2>1
  <2>4. \A j \in Nat : B(q) <= j /\ j < B(i) => g[j] = Missing
    BY <1>3
  <2>5. B(q-1) \in Nat /\ B(q) \in Nat /\ B(i) \in Nat /\ B(q) < B(i)
    BY <1>1, <2>1
  <2> DEFINE a == B(q-1)
             x == B(q)
             b == B(i)
  <2> HIDE DEF a, x, b, q
  <2>6. Widens(g, a, b, g, a, x)
    BY <2>4, <2>5 DEF Widens, a, x, b
  <2>7. SearchTree(w[q], a, b, h + 0, g)
    BY <2>2, <2>3, <2>6, TreeWidens DEF a, x, b
  <2>8. h + 0 = h
    BY <2>2, TreeIs
  <2>9. SearchTree(w[q], B(q-1), B(q+1), h, g)
    BY <2>1, <2>7, <2>8 DEF a, b
  <2> QED
    BY <1>7, <2>1, <2>9 DEF B, w, L, q
<1> QED
  BY <1>6, <1>7

(* deleteRec above a child that has become empty. *)
LEMMA DropChildIs ==
  ASSUME NEW n, NEW lo, NEW hi, IsBounds(lo, hi), InnerOK(n, lo, hi),
         NEW h \in Nat, NEW f, KidsAre(n, lo, hi, h, f), NEW k \in Nat, NEW i, KidHas(n, lo, hi, i, k),
         NEW g, NEW v, Sets(g, f, k, v),
         \A j \in Nat : Bound(n.keys, lo, hi, i-1) <= j /\ j < Bound(n.keys, lo, hi, i)
                        => g[j] = Missing
  PROVE  Result(Whole(DropChild(n, i)), lo, hi, h + 1, g)
<1> DEFINE B(x) == Bound(n.keys, lo, hi, x)
           L == Len(n.keys)
           q == IF i = 1 THEN 1 ELSE i - 1
           c == n.kids[IF i = 1 THEN 2 ELSE i - 1]
           keys == RemoveAt(n.keys, q)
           kids == RemoveAt(n.kids, i)
           m == Inner(keys, kids)
<1>1. /\ InnerShape(n, lo, hi) /\ IsSequence(n.kids) /\ n.keys \in Seq(Nat)
      /\ Len(n.kids) = L + 1 /\ L \in Nat /\ i \in 1..Len(n.kids) /\ (ShortKeys => NodeFits(n.keys))
  BY LenProperties DEF InnerOK, InnerShape, KidHas
<1>2. DropChild(n, i) = IF Len(n.kids) = 1 THEN EmptyNode
                        ELSE IF Len(kids) = 1 THEN kids[1] ELSE m
  BY DEF DropChild
<1>3. CASE Len(n.kids) = 1
  <2>1. i = 1 /\ i - 1 = 0 /\ B(0) = lo /\ B(1) = hi
    <3>1. B(0) = lo /\ B(Len(n.kids)) = hi
      BY <1>1, KidBounds
    <3>2. i = 1 /\ i - 1 = 0
      <4>1. i \in 1..1
        BY <1>1, <1>3
      <4> QED
        BY <4>1
    <3> QED
      BY <1>3, <3>1, <3>2
  <2>2. \A j \in Nat : lo <= j /\ j < hi => g[j] = Missing
    BY <2>1
  <2> QED
    BY <1>2, <1>3, <2>2, WholeFields DEF Result
<1>4. CASE Len(n.kids) # 1
  <2>1. q \in 1..L /\ SearchTree(c, B(q-1), B(q+1), h, g)
    BY <1>1, <1>4, NeighbourIs
  <2>2. keys \in Seq(Nat) /\ IsRemoved(keys, n.keys, q)
    BY <1>1, <2>1, RemoveAtIs
  <2>3. IsSequence(kids) /\ IsRemoved(kids, n.kids, i)
    <3>1. PICK S : n.kids \in Seq(S)
      BY <1>1 DEF IsSequence
    <3>2. kids \in Seq(S) /\ IsRemoved(kids, n.kids, i)
      BY <1>1, <3>1, RemoveAtIs
    <3> QED
      BY <3>2 DEF IsSequence
  <2> HIDE DEF keys, kids
  <2>4. /\ Len(kids) = L
        /\ \A x \in 1..L : kids[x] = IF x < q THEN n.kids[x] ELSE IF x = q THEN c ELSE n.kids[x+1]
    <3>1. /\ Len(kids) = (L + 1) - 1
          /\ \A x \in 1..(L + 1) - 1 : kids[x] = IF x < i THEN n.kids[x] ELSE n.kids[x+1]
      BY <1>1, <2>3 DEF IsRemoved
    <3>2. (L + 1) - 1 = L
      BY <1>1
    <3>3. ASSUME NEW x \in 1..L
          PROVE  kids[x] = IF x < q THEN n.kids[x] ELSE IF x = q THEN c ELSE n.kids[x+1]
      <4>1. kids[x] = IF x < i THEN n.kids[x] ELSE n.kids[x+1]
        BY <3>1, <3>2
      <4>2. CASE i = 1
        <5>1. ~(x < i) /\ ~(x < q) /\ q = 1 /\ c = n.kids[2] /\ 1 + 1 = 2
          BY <4>2
        <5> QED
          BY <4>1, <5>1
      <4>3. CASE i # 1
        <5>1. q = i - 1 /\ c = n.kids[q]
          BY <4>3
        <5>2. i \in Nat /\ x \in Nat
          BY <1>1
        <5>3. CASE x < q
          <6>1. x < i
            BY <5>1, <5>2, <5>3
          <6> QED
            BY <4>1, <5>3, <6>1
        <5>4. CASE x = q
          <6>1. x < i /\ ~(x < q)
            BY <5>1, <5>2, <5>4
          <6> QED
            BY <4>1, <5>1, <5>4, <6>1
        <5>5. CASE ~(x < q) /\ x # q
          <6>1. ~(x < i)
            BY <5>1, <5>2, <5>5
          <6> QED
            BY <4>1, <5>5, <6>1
        <5> QED
          BY <5>3, <5>4, <5>5
      <4> QED
        BY <4>2, <4>3
    <3> QED
      BY <3>1, <3>2, <3>3
  <2>5. CASE Len(kids) = 1
    <3>1. L = 1 /\ q = 1 /\ q - 1 = 0 /\ q + 1 = 2 /\ Len(n.kids) = 2 /\ 1 \in 1..L /\ ~(1 < q)
      BY <1>1, <2>1, <2>4, <2>5
    <3>2. B(0) = lo /\ B(2) = hi
      <4>1. B(0) = lo /\ B(Len(n.kids)) = hi
        BY <1>1, KidBounds
      <4> QED
        BY <3>1, <4>1
    <3>3. kids[1] = c
      BY <2>4, <3>1
    <3>4. SearchTree(c, lo, hi, h, g)
      BY <2>1, <3>1, <3>2
    <3>5. Widens(g, lo, hi, g, lo, hi)
      BY DEF Widens, IsBounds
    <3> HIDE DEF c
    <3>6. SearchTree(c, lo, hi, h + 1, g)
      BY <3>4, <3>5, TreeWidens
    <3>7. DropChild(n, i) = c
      BY <1>2, <1>4, <2>5, <3>3
    <3> QED
      BY <3>6, <3>7, WholeFields DEF Result
  <2>6. CASE Len(kids) # 1
    <3>1. ASSUME NEW x \in 1..Len(n.kids), x # q, x # q + 1
          PROVE  SearchTree(n.kids[x], B(x-1), B(x), h, g)
      <4>1. i = q \/ i = q + 1
        BY <1>1
      <4>2. x # i
        BY <3>1, <4>1
      <4> QED
        BY <1>1, <4>2, OtherKids
    <3> HIDE DEF q, c
    <3>2. InnerShape(m, lo, hi) /\ KidsAre(m, lo, hi, h, g)
      BY <1>1, <2>1, <2>2, <2>3, <2>4, <3>1, KidsMerged
    <3>3. ShortKeys => NodeFits(keys)
      <4> SUFFICES ASSUME ShortKeys PROVE NodeFits(keys)
        OBVIOUS
      <4>1. AllKeys(n.keys)
        BY <1>1, InnerKeys
      <4>2. AllKeys(keys) /\ IsRemoved(SizesOf(keys), SizesOf(n.keys), q)
        BY <2>1, <2>2, <4>1, SizesOfRemoved
      <4>3. /\ SizesOf(keys) \in Seq(Nat) /\ SizesOf(n.keys) \in Seq(Nat)
            /\ q \in 1..Len(SizesOf(n.keys))
        BY <2>1, <4>1, <4>2, SizesOfIs
      <4> DEFINE x == Size(SizesOf(keys))
                 y == Size(SizesOf(n.keys))
      <4>4. x <= y /\ x \in Nat /\ y \in Nat
        BY <4>2, <4>3, SizeRemoved, SizeIs
      <4>5. y <= NodeCap /\ NodeCap \in Nat
        BY <1>1, ConstantsAssumption DEF NodeFits
      <4> HIDE DEF x, y
      <4>6. x <= NodeCap
        BY <4>4, <4>5
      <4> QED
        BY <4>6 DEF x, NodeFits
    <3>4. m.keys = keys
      BY InnerFields
    <3> HIDE DEF m
    <3>5. SearchTree(m, lo, hi, h + 1, g)
      BY <3>2, <3>3, <3>4, InnerTree DEF InnerOK
    <3>6. DropChild(n, i) = m
      BY <1>2, <1>4, <2>6
    <3> QED
      BY <3>5, <3>6, WholeFields DEF Result
  <2> QED
    BY <2>5, <2>6
<1> QED
  BY <1>3, <1>4

-----------------------------------------------------------------------------
(* One level of the way back up.                                            *)

(* No subtree is empty. *)
LEMMA TreeNotEmpty ==
  ASSUME NEW n, NEW lo, NEW hi, NEW h, NEW f, SearchTree(n, lo, hi, h, f)
  PROVE  n # EmptyNode
<1>1. EmptyNode.keys = <<>> /\ IsLeaf(EmptyNode)
  BY LeafFields DEF EmptyNode
<1>2. Len(<<>>) = 0
  BY EmptySeq
<1>3. CASE LeafOK(n, lo, hi, f)
  BY <1>1, <1>2, <1>3 DEF LeafOK
<1>4. CASE InnerOK(n, lo, hi)
  BY <1>1, <1>4 DEF InnerOK, InnerShape
<1> QED
  BY <1>3, <1>4, TreeIs

(* What has become of a child makes the same of its node. *)
LEMMA JoinedIs ==
  ASSUME NEW n, NEW lo, NEW hi, IsBounds(lo, hi), InnerOK(n, lo, hi),
         NEW h \in Nat, NEW f, KidsAre(n, lo, hi, h, f), NEW k \in Nat, NEW i, KidHas(n, lo, hi, i, k),
         NEW g, NEW v, Sets(g, f, k, v),
         NEW r, Result(r, Bound(n.keys, lo, hi, i-1), Bound(n.keys, lo, hi, i), h, g)
  PROVE  /\ Result(Joined(n, i, r), lo, hi, h + 1, g)
         /\ r.split = <<>> => Joined(n, i, r).split = <<>>
<1> DEFINE a == Bound(n.keys, lo, hi, i-1)
           b == Bound(n.keys, lo, hi, i)
<1>1. CASE /\ r.split = <<>> /\ r.node = EmptyNode
           /\ \A j \in Nat : a <= j /\ j < b => g[j] = Missing
  <2>1. Joined(n, i, r) = Whole(DropChild(n, i))
    BY <1>1 DEF Joined
  <2>2. \A j \in Nat : a <= j /\ j < b => g[j] = Missing
    BY <1>1
  <2>3. Result(Whole(DropChild(n, i)), lo, hi, h + 1, g)
    BY <2>2, DropChildIs
  <2> QED
    BY <2>1, <2>3, WholeFields
<1>2. CASE r.split = <<>> /\ SearchTree(r.node, a, b, h, g)
  <2> DEFINE m == Inner(n.keys, [n.kids EXCEPT ![i] = r.node])
  <2>1. r.node # EmptyNode
    BY <1>2, TreeNotEmpty
  <2>2. Joined(n, i, r) = Whole(m)
    BY <1>2, <2>1 DEF Joined, InsertIntoInternal
  <2>3. InnerOK(m, lo, hi) /\ KidsAre(m, lo, hi, h, g)
    BY <1>2, KidReplaced
  <2> HIDE DEF m
  <2>4. SearchTree(m, lo, hi, h + 1, g)
    BY <2>3, InnerTree
  <2> QED
    BY <2>2, <2>4, WholeFields DEF Result
<1>3. CASE /\ r.split # <<>>
           /\ r.split[1].key \in Nat /\ a < r.split[1].key /\ r.split[1].key < b
           /\ SearchTree(r.node, a, r.split[1].key, h, g)
           /\ SearchTree(r.split[1].right, r.split[1].key, b, h, g)
  <2>1. r.node # EmptyNode
    BY <1>3, TreeNotEmpty
  <2>2. Joined(n, i, r) = InsertIntoInternal(n, i, r)
    BY <2>1 DEF Joined
  <2>3. Result(InsertIntoInternal(n, i, r), lo, hi, h + 1, g)
    BY <1>3, SplitChildIs
  <2> QED
    BY <1>3, <2>2, <2>3
<1> QED
  BY <1>1, <1>2, <1>3 DEF Result

-----------------------------------------------------------------------------
(* The way back up.                                                         *)

\* What a node on the way becomes: x is what its child has become.
Upward(node, k, leaf, x) == IF IsLeaf(node) THEN leaf ELSE Joined(node, ChildFor(node.keys, k), x)

\* The nodes of the way down in the order of the way back.
OnTheWay(n, k, i) == Descent(n, k)[MaxHeight-1-i]

\* What becomes of them.
IsWayUp(up, n, k, leaf) ==
    /\ up[0] = leaf
    /\ \A i \in Levels : i # 0 => up[i] = Upward(OnTheWay(n, k, i), k, leaf, up[i-1])

(* Rebuilt is defined by its recursion. *)
LEMMA WayUpIs ==
  ASSUME NEW n, NEW k, NEW leaf, IsLeaf(LeafFor(n, k))
  PROVE  \E up : IsWayUp(up, n, k, leaf) /\ Rebuilt(n, k, leaf) = up[MaxHeight-1]
<1> DEFINE V(i, x) == Upward(OnTheWay(n, k, i), k, leaf, x)
           Solves(g, l) ==
              /\ g = [i \in 0..l |-> g[i]] /\ g[0] = leaf
              /\ \A i \in 1..l : g[i] = V(i, g[i-1])
           Good == {l \in Nat : \E g : Solves(g, l)}
           Step(g) == [i \in Levels |-> V(i, g[i-1])]
<1>1. MaxHeight \in Nat /\ MaxHeight - 1 \in Nat /\ 0 \in Levels /\ MaxHeight - 1 - 0 = MaxHeight - 1
  BY ConstantsAssumption DEF Levels
<1>2. ASSUME NEW x PROVE V(0, x) = leaf
  <2>1. OnTheWay(n, k, 0) = LeafFor(n, k)
    BY <1>1 DEF OnTheWay, LeafFor
  <2> QED
    BY <2>1 DEF Upward
<1>3. Rebuilt(n, k, leaf) = (CHOOSE e : e = Step(e))[MaxHeight-1]
  BY DEF Rebuilt, Upward, OnTheWay
<1> HIDE DEF V
<1>4. 0 \in Good
  <2>1. Solves([i \in 0..0 |-> leaf], 0)
    OBVIOUS
  <2> HIDE DEF Solves
  <2> QED
    BY <2>1
<1>5. ASSUME NEW l \in Good PROVE l + 1 \in Good
  <2>1. l \in Nat
    OBVIOUS
  <2>2. PICK g : Solves(g, l)
    OBVIOUS
  <2> DEFINE h == [i \in 0..l+1 |-> IF i <= l THEN g[i] ELSE V(l+1, g[l])]
  <2>3. h = [i \in 0..l+1 |-> h[i]]
    OBVIOUS
  <2>4. h[0] = leaf
    BY <2>1, <2>2
  <2>5. ASSUME NEW i \in 1..l+1 PROVE h[i] = V(i, h[i-1])
    <3>1. i \in 0..l+1 /\ i - 1 \in 0..l+1 /\ i - 1 <= l
      BY <2>1
    <3>2. h[i-1] = g[i-1]
      BY <3>1
    <3>3. CASE i <= l
      <4>1. h[i] = g[i] /\ i \in 1..l
        BY <2>1, <3>1, <3>3
      <4>2. g[i] = V(i, g[i-1])
        BY <2>2, <4>1
      <4> HIDE DEF h
      <4> QED
        BY <3>2, <4>1, <4>2
    <3>4. CASE ~(i <= l)
      <4>1. i - 1 = l /\ i = l + 1
        BY <2>1, <3>4
      <4>2. h[i] = V(l+1, g[l])
        BY <3>1, <3>4
      <4> HIDE DEF h
      <4> QED
        BY <3>2, <4>1, <4>2
    <3> QED
      BY <3>3, <3>4
  <2>6. Solves(h, l + 1)
    <3> HIDE DEF h
    <3> QED
      BY <2>3, <2>4, <2>5
  <2>7. l + 1 \in Nat /\ \E e : Solves(e, l + 1)
    <3> HIDE DEF Solves, h
    <3> QED
      BY <2>1, <2>6
  <2> HIDE DEF Solves
  <2> QED
    BY <2>7
<1>6. Good = Nat
  <2> HIDE DEF Good
  <2>1. Good \in SUBSET Nat
    BY DEF Good
  <2> QED
    BY <1>4, <1>5, <2>1, Induction
<1>7. PICK g : Solves(g, MaxHeight-1)
  <2> HIDE DEF Solves
  <2> QED
    BY <1>1, <1>6
<1>8. g = Step(g)
  <2>1. ASSUME NEW i \in Levels PROVE g[i] = V(i, g[i-1])
    <3>1. i = 0 \/ i \in 1..MaxHeight-1
      BY <1>1 DEF Levels
    <3> QED
      BY <1>2, <1>7, <3>1
  <2>2. g = [i \in Levels |-> g[i]]
    BY <1>7 DEF Levels
  <2>3. [i \in Levels |-> g[i]] = Step(g)
    BY <2>1
  <2> HIDE DEF Step
  <2> QED
    BY <2>2, <2>3
<1> DEFINE e == CHOOSE x : x = Step(x)
<1>9. e = Step(e)
  <2> HIDE DEF Step
  <2> QED
    BY <1>8
<1>10. Rebuilt(n, k, leaf) = e[MaxHeight-1]
  BY <1>3
<1> HIDE DEF e
<1>11. ASSUME NEW i \in Levels PROVE e[i] = V(i, e[i-1])
  <2>1. Step(e)[i] = V(i, e[i-1])
    OBVIOUS
  <2> HIDE DEF Step
  <2> QED
    BY <1>9, <2>1
<1>12. e[0] = leaf
  BY <1>1, <1>2, <1>11
<1>13. IsWayUp(e, n, k, leaf)
  BY <1>11, <1>12 DEF IsWayUp, V
<1> QED
  BY <1>10, <1>13

(* The way down from a node ends where the way down from the node below does. *)
LEMMA LeafForBelow ==
  ASSUME NEW n, NEW k, IsLeaf(LeafFor(n, k))
  PROVE  LeafFor(Below(n, k), k) = LeafFor(n, k)
<1> DEFINE d == Descent(n, k)
           e == Descent(Below(n, k), k)
           M == MaxHeight - 1
<1>1. M \in Nat /\ M \in Levels /\ Levels = 0..M
  BY ConstantsAssumption DEF Levels
<1>2. CASE M = 0
  <2>1. LeafFor(n, k) = n /\ LeafFor(Below(n, k), k) = Below(n, k)
    BY <1>2, DescentIs DEF LeafFor
  <2> QED
    BY <2>1 DEF Below
<1>3. CASE M # 0
  <2>1. M - 1 \in Nat /\ (M - 1) + 1 = M /\ (M - 1) + 1 \in Levels
    <3> HIDE DEF M
    <3> QED
      BY <1>1, <1>3
  <2>2. d[(M-1)+1] = e[M-1]
    BY <2>1, DescentBelow
  <2>3. e[M] = Below(e[M-1], k)
    BY ZenonT(40), <1>1, <1>3, DescentIs
  <2>4. d[M] = e[M-1] /\ IsLeaf(d[M]) /\ d[M] = LeafFor(n, k) /\ e[M] = LeafFor(Below(n, k), k)
    BY <2>1, <2>2 DEF LeafFor
  <2> QED
    BY <2>3, <2>4 DEF Below
<1> QED
  BY <1>2, <1>3

(* A leaf becomes what it is said to, ... *)
LEMMA RebuiltLeaf ==
  ASSUME NEW n, IsLeaf(n), NEW k, NEW leaf
  PROVE  Rebuilt(n, k, leaf) = leaf
<1> DEFINE M == MaxHeight - 1
<1>1. M \in Nat /\ M \in Levels /\ M - M = 0 /\ 0 \in Levels
  BY ConstantsAssumption DEF Levels
<1>2. IsLeaf(LeafFor(n, k))
  BY <1>1, DescentOfLeaf DEF LeafFor
<1>3. PICK up : IsWayUp(up, n, k, leaf) /\ Rebuilt(n, k, leaf) = up[M]
  BY <1>2, WayUpIs
<1>4. OnTheWay(n, k, M) = n
  BY <1>1, DescentOfLeaf DEF OnTheWay
<1>5. up[0] = leaf /\ (M # 0 => up[M] = Upward(OnTheWay(n, k, M), k, leaf, up[M-1]))
  BY <1>1, <1>3 DEF IsWayUp
<1>6. Upward(n, k, leaf, up[M-1]) = leaf
  BY DEF Upward
<1> QED
  BY <1>3, <1>4, <1>5, <1>6

(* ... and an internal node what its child makes of it. *)
LEMMA RebuiltAbove ==
  ASSUME NEW n, ~IsLeaf(n), NEW k, NEW leaf, IsLeaf(LeafFor(n, k))
  PROVE  Rebuilt(n, k, leaf) =
            Joined(n, ChildFor(n.keys, k), Rebuilt(n.kids[ChildFor(n.keys, k)], k, leaf))
<1> DEFINE M == MaxHeight - 1
           c == Below(n, k)
<1>1. M \in Nat /\ M \in Levels /\ 0 \in Levels /\ Levels = 0..M
  BY ConstantsAssumption DEF Levels
<1>2. IsLeaf(LeafFor(c, k))
  BY LeafForBelow
<1>3. c = n.kids[ChildFor(n.keys, k)]
  BY DEF Below
<1> HIDE DEF c
<1>4. PICK up : IsWayUp(up, n, k, leaf) /\ Rebuilt(n, k, leaf) = up[M]
  BY WayUpIs
<1>5. PICK to : IsWayUp(to, c, k, leaf) /\ Rebuilt(c, k, leaf) = to[M]
  BY <1>2, WayUpIs
<1>6. /\ up[0] = leaf /\ \A i \in Levels : i # 0 => up[i] = Upward(OnTheWay(n, k, i), k, leaf, up[i-1])
      /\ to[0] = leaf /\ \A i \in Levels : i # 0 => to[i] = Upward(OnTheWay(c, k, i), k, leaf, to[i-1])
  BY <1>4, <1>5 DEF IsWayUp
<1>7. ASSUME NEW i \in Nat, i + 1 \in Levels PROVE OnTheWay(c, k, i+1) = OnTheWay(n, k, i)
  <2> DEFINE j == M - (i + 1)
  <2>1. j \in Nat /\ j + 1 \in Levels /\ j + 1 = M - i
    BY <1>1, <1>7
  <2>2. Descent(n, k)[j+1] = Descent(c, k)[j]
    BY <2>1, DescentBelow DEF c
  <2> QED
    BY <2>1, <2>2 DEF OnTheWay
<1>8. M # 0
  <2> SUFFICES ASSUME M = 0 PROVE FALSE
    OBVIOUS
  <2>1. LeafFor(n, k) = n
    BY DescentIs DEF LeafFor
  <2> QED
    BY <2>1
<1> DEFINE S == {i \in Nat : i + 1 \in Levels => to[i+1] = up[i]}
<1>9. 0 \in S
  <2>1. 0 + 1 = 1 /\ 1 - 1 = 0 /\ 1 \in Levels /\ 1 # 0 /\ M - 0 = M
    <3> HIDE DEF M
    <3> QED
      BY <1>1, <1>8
  <2>2. OnTheWay(c, k, 1) = LeafFor(n, k)
    <3>1. OnTheWay(c, k, 0+1) = OnTheWay(n, k, 0)
      BY <1>7, <2>1
    <3> QED
      BY <2>1, <3>1 DEF OnTheWay, LeafFor
  <2>3. to[1] = Upward(OnTheWay(c, k, 1), k, leaf, to[1-1])
    BY <1>6, <2>1
  <2>4. to[1] = leaf
    BY <2>2, <2>3 DEF Upward
  <2> QED
    BY <1>6, <2>1, <2>4
<1>10. ASSUME NEW i \in S PROVE i + 1 \in S
  <2> SUFFICES ASSUME (i + 1) + 1 \in Levels PROVE to[(i+1)+1] = up[i+1]
    OBVIOUS
  <2>1. /\ i \in Nat /\ i + 1 \in Nat /\ i + 1 \in Levels /\ i + 1 # 0 /\ (i + 1) - 1 = i
        /\ (i + 1) + 1 # 0 /\ ((i + 1) + 1) - 1 = i + 1
    BY <1>1
  <2>2. to[i+1] = up[i]
    BY <2>1
  <2>3. to[(i+1)+1] = Upward(OnTheWay(c, k, (i+1)+1), k, leaf, to[i+1])
    <3>1. to[(i+1)+1] = Upward(OnTheWay(c, k, (i+1)+1), k, leaf, to[((i+1)+1)-1])
      BY <1>6, <2>1
    <3> QED
      BY <2>1, <3>1
  <2>4. up[i+1] = Upward(OnTheWay(n, k, i+1), k, leaf, up[i])
    <3>1. up[i+1] = Upward(OnTheWay(n, k, i+1), k, leaf, up[(i+1)-1])
      BY <1>6, <2>1
    <3> QED
      BY <2>1, <3>1
  <2>5. OnTheWay(c, k, (i+1)+1) = OnTheWay(n, k, i+1)
    BY <1>7, <2>1
  <2> QED
    BY <2>2, <2>3, <2>4, <2>5
<1>11. S = Nat
  <2> HIDE DEF S
  <2>1. S \in SUBSET Nat
    BY DEF S
  <2> QED
    BY <1>9, <1>10, <2>1, Induction
<1>12. to[M] = up[M-1]
  <2>1. M - 1 \in Nat /\ (M - 1) + 1 = M
    <3> HIDE DEF M
    <3> QED
      BY <1>1, <1>8
  <2>2. (M - 1) \in S
    BY <1>11, <2>1
  <2> QED
    BY <1>1, <2>1, <2>2
<1>13. OnTheWay(n, k, M) = n
  <2>1. M - M = 0
    BY <1>1
  <2> QED
    BY <2>1, DescentIs DEF OnTheWay
<1>14. up[M] = Upward(n, k, leaf, to[M])
  BY <1>1, <1>6, <1>8, <1>12, <1>13
<1> QED
  BY <1>3, <1>4, <1>5, <1>14 DEF Upward

(* The leaf at the end of the way down is within the bounds of the child    *)
(* that it leads through.                                                   *)
LEMMA KidLeaf ==
  ASSUME NEW n, NEW lo, NEW hi, IsBounds(lo, hi), InnerOK(n, lo, hi),
         NEW h \in Nat, NEW f, KidsAre(n, lo, hi, h, f), h + 1 <= MaxHeight - 1,
         NEW k \in Nat, lo <= k, k < hi
  PROVE  LET i == ChildFor(n.keys, k)
             leaf == LeafFor(n, k)
         IN /\ KidHas(n, lo, hi, i, k)
            /\ SearchTree(n.kids[i], Bound(n.keys, lo, hi, i-1), Bound(n.keys, lo, hi, i), h, f)
            /\ LeafFor(n.kids[i], k) = leaf /\ IsLeaf(leaf) /\ Len(leaf.keys) # 0
            /\ \A x \in 1..Len(leaf.keys) : /\ leaf.keys[x] \in Nat
                                            /\ KidHas(n, lo, hi, i, leaf.keys[x])
<1> DEFINE i == ChildFor(n.keys, k)
           leaf == LeafFor(n, k)
           B(x) == Bound(n.keys, lo, hi, x)
           c == n.kids[i]
<1>1. InnerShape(n, lo, hi) /\ ~IsLeaf(n)
  BY DEF InnerOK, InnerShape
<1>2. KidHas(n, lo, hi, i, k)
  BY <1>1, ChildForBound DEF KidHas
<1>3. SearchTree(c, B(i-1), B(i), h, f)
  BY <1>2 DEF KidHas, KidsAre
<1>4. IsLeaf(leaf)
  <2>1. SearchTree(n, lo, hi, h+1, f)
    BY InnerTree
  <2> QED
    BY <2>1, Reaches DEF LeafOK, LeafShape
<1>5. LeafFor(c, k) = leaf
  <2>1. c = Below(n, k)
    BY <1>1 DEF Below
  <2> HIDE DEF c
  <2> QED
    BY <1>4, <2>1, LeafForBelow
<1>6. /\ B(i-1) <= k /\ k < B(i) /\ i \in 1..Len(n.kids)
  BY <1>2 DEF KidHas
<1>7. h <= MaxHeight - 1
  BY ConstantsAssumption
<1>8. PICK a, b : LeafOK(leaf, a, b, f) /\ IsBounds(a, b) /\ B(i-1) <= a /\ b <= B(i)
  <2> HIDE DEF B, c, i, leaf
  <2>1. \E a, b : /\ LeafOK(LeafFor(c, k), a, b, f)
                  /\ IsBounds(a, b) /\ B(i-1) <= a /\ a <= k /\ k < b /\ b <= B(i)
    BY <1>3, <1>6, <1>7, Reaches
  <2> QED
    BY <1>5, <2>1
<1>9. B(i-1) \in Nat /\ B(i) \in Nat
  <2>1. SearchTree(c, B(i-1), B(i), h, f)
    BY <1>3
  <2> HIDE DEF B, c, i
  <2>2. IsBounds(B(i-1), B(i))
    BY <2>1, TreeIs
  <2> QED
    BY <2>2 DEF IsBounds
<1> HIDE DEF i, leaf
<1>10. ASSUME NEW x \in 1..Len(leaf.keys)
       PROVE  leaf.keys[x] \in Nat /\ KidHas(n, lo, hi, i, leaf.keys[x])
  <2> DEFINE y == leaf.keys[x]
             l == B(i-1)
             u == B(i)
  <2>1. y \in Nat /\ a <= y /\ y < b
    BY <1>8, ElementOfSeq DEF LeafOK, LeafShape
  <2>2. a \in Nat /\ b \in Nat /\ l \in Nat /\ u \in Nat /\ l <= a /\ b <= u
    BY <1>8, <1>9 DEF IsBounds
  <2> HIDE DEF y, l, u
  <2>3. l <= y /\ y < u
    BY <2>1, <2>2
  <2> QED
    BY <1>6, <2>1, <2>3 DEF KidHas, y, l, u
<1>11. Len(leaf.keys) # 0
  BY <1>8 DEF LeafOK
<1> QED
  BY <1>2, <1>3, <1>4, <1>5, <1>10, <1>11 DEF i, leaf

(* Two keys of one leaf go the same way. *)
LEMMA SameWay ==
  ASSUME NEW n, NEW lo, NEW hi, IsBounds(lo, hi), InnerOK(n, lo, hi),
         NEW h \in Nat, NEW f, KidsAre(n, lo, hi, h, f), h + 1 <= MaxHeight - 1,
         NEW k \in Nat, lo <= k, k < hi, NEW j \in Nat, lo <= j, j < hi,
         LeafFor(n, j) = LeafFor(n, k)
  PROVE  ChildFor(n.keys, j) = ChildFor(n.keys, k)
<1> DEFINE leaf == LeafFor(n, k)
           x == leaf.keys[1]
           a == ChildFor(n.keys, j)
           b == ChildFor(n.keys, k)
<1>1. 1 \in 1..Len(leaf.keys)
  <2>1. Len(leaf.keys) # 0
    BY KidLeaf
  <2>2. Len(leaf.keys) \in Nat
    <3>1. SearchTree(n, lo, hi, h+1, f)
      BY InnerTree
    <3>2. leaf.keys \in Seq(Nat)
      BY <3>1, Reaches DEF LeafOK, LeafShape
    <3> QED
      BY <3>2, LenProperties
  <2> HIDE DEF leaf
  <2> QED
    BY <2>1, <2>2
<1>2. x \in Nat /\ KidHas(n, lo, hi, b, x)
  BY <1>1, KidLeaf
<1>3. KidHas(n, lo, hi, a, x)
  BY <1>1, KidLeaf
<1> HIDE DEF leaf, x, a, b
<1>4. InnerShape(n, lo, hi)
  BY DEF InnerOK
<1>5. ChildFor(n.keys, x) = b
  BY <1>2, <1>4, ChildForOnly DEF KidHas
<1>6. ChildFor(n.keys, x) = a
  BY <1>2, <1>3, <1>4, ChildForOnly DEF KidHas
<1> QED
  BY <1>5, <1>6 DEF a, b

\* What is made of a leaf is right wherever the leaf is.
LeafBecomes(leaf, r, key, f, g) ==
    \A a, b, h :
        IsBounds(a, b) /\ h \in Nat /\ LeafOK(leaf, a, b, f) /\ a <= key /\ key < b
            => Result(r, a, b, h, g)

(* So it is right for the tree: r is made of the leaf that k belongs in, by *)
(* an operation on a key of the same leaf.                                  *)
LEMMA RebuiltIs ==
  ASSUME NEW n, NEW lo, NEW hi, NEW h, NEW f, SearchTree(n, lo, hi, h, f), h <= MaxHeight - 1,
         NEW k \in Nat, lo <= k, k < hi, NEW key \in Nat, lo <= key, key < hi,
         LeafFor(n, key) = LeafFor(n, k),
         NEW g, NEW v, Sets(g, f, key, v),
         NEW r, LeafBecomes(LeafFor(n, k), r, key, f, g)
  PROVE  /\ Result(Rebuilt(n, k, r), lo, hi, h, g)
         /\ r.split = <<>> => Rebuilt(n, k, r).split = <<>>
<1> DEFINE L == LeafFor(n, k)
           Fits(m, a, b, d) == /\ SearchTree(m, a, b, d, f)
                               /\ a <= k /\ k < b /\ a <= key /\ key < b
                               /\ LeafFor(m, k) = L /\ LeafFor(m, key) = L
           Right(m, a, b, d) == /\ Result(Rebuilt(m, k, r), a, b, d, g)
                                /\ r.split = <<>> => Rebuilt(m, k, r).split = <<>>
           S == {d \in Nat : d <= MaxHeight - 1 =>
                               \A m, a, b : Fits(m, a, b, d) => Right(m, a, b, d)}
<1>1. LeafBecomes(L, r, key, f, g)
  OBVIOUS
<1>2. Fits(n, lo, hi, h)
  OBVIOUS
<1>3. h \in Nat
  BY TreeIs
<1> HIDE DEF L
<1>4. ASSUME NEW d \in Nat, d <= MaxHeight - 1, NEW m, NEW a, NEW b, Fits(m, a, b, d),
             LeafOK(m, a, b, f)
      PROVE  Right(m, a, b, d)
  <2>1. IsLeaf(m) /\ IsBounds(a, b)
    BY <1>4, TreeIs DEF LeafOK, LeafShape
  <2>2. Rebuilt(m, k, r) = r
    BY <2>1, RebuiltLeaf
  <2>3. m = L
    <3>1. MaxHeight - 1 \in Levels
      BY ConstantsAssumption DEF Levels
    <3>2. LeafFor(m, k) = m
      BY <2>1, <3>1, DescentOfLeaf DEF LeafFor
    <3> QED
      BY <1>4, <3>2
  <2>4. Result(r, a, b, d, g)
    BY <1>1, <1>4, <2>1, <2>3 DEF LeafBecomes
  <2> QED
    BY <2>2, <2>4
<1>5. ASSUME NEW d \in Nat, d + 1 <= MaxHeight - 1, NEW m, NEW a, NEW b, Fits(m, a, b, d+1),
             InnerOK(m, a, b), KidsAre(m, a, b, d, f), d \in S
      PROVE  Right(m, a, b, d+1)
  <2> DEFINE i == ChildFor(m.keys, k)
             c == m.kids[i]
             l == Bound(m.keys, a, b, i-1)
             u == Bound(m.keys, a, b, i)
  <2>1. IsBounds(a, b) /\ ~IsLeaf(m)
    BY <1>5, TreeIs DEF InnerOK, InnerShape
  <2>2. /\ KidHas(m, a, b, i, k) /\ SearchTree(c, l, u, d, f)
        /\ LeafFor(c, k) = L /\ IsLeaf(LeafFor(m, k))
    BY <1>5, <2>1, KidLeaf
  <2>3. ChildFor(m.keys, key) = i
    BY <1>5, <2>1, SameWay
  <2>4. KidHas(m, a, b, i, key) /\ LeafFor(c, key) = L
    BY <1>5, <2>1, <2>3, KidLeaf
  <2>5. l <= k /\ k < u /\ l <= key /\ key < u
    BY <2>2, <2>4 DEF KidHas
  <2>6. Rebuilt(m, k, r) = Joined(m, i, Rebuilt(c, k, r))
    BY <2>1, <2>2, RebuiltAbove
  <2> HIDE DEF i, c
  <2>7. Fits(c, l, u, d)
    BY <2>2, <2>4, <2>5
  <2>8. d <= MaxHeight - 1
    BY <1>5, ConstantsAssumption
  <2>9. Right(c, l, u, d)
    <3> HIDE DEF Fits, Right
    <3> QED
      BY <1>5, <2>7, <2>8
  <2>10. /\ Result(Joined(m, i, Rebuilt(c, k, r)), a, b, d + 1, g)
         /\ Rebuilt(c, k, r).split = <<>> => Joined(m, i, Rebuilt(c, k, r)).split = <<>>
    BY <1>5, <2>1, <2>4, <2>9, JoinedIs
  <2> QED
    BY <2>6, <2>9, <2>10
<1>6. 0 \in S
  <2> SUFFICES ASSUME 0 <= MaxHeight - 1, NEW m, NEW a, NEW b, Fits(m, a, b, 0) PROVE Right(m, a, b, 0)
    <3> HIDE DEF Fits, Right
    <3> QED
      OBVIOUS
  <2>1. LeafOK(m, a, b, f)
    BY TreeIs
  <2> HIDE DEF Fits, Right
  <2> QED
    BY <1>4, <2>1
<1>7. ASSUME NEW d \in S PROVE d + 1 \in S
  <2> SUFFICES ASSUME d + 1 <= MaxHeight - 1, NEW m, NEW a, NEW b, Fits(m, a, b, d+1)
               PROVE  Right(m, a, b, d+1)
    <3> HIDE DEF Fits, Right
    <3> QED
      OBVIOUS
  <2>1. d \in Nat /\ d + 1 \in Nat /\ (d + 1) - 1 = d
    OBVIOUS
  <2>2. \/ LeafOK(m, a, b, f)
        \/ InnerOK(m, a, b) /\ KidsAre(m, a, b, (d+1)-1, f)
    BY TreeIs
  <2> HIDE DEF Fits, Right
  <2>3. CASE LeafOK(m, a, b, f)
    BY <1>4, <2>1, <2>3
  <2>4. CASE InnerOK(m, a, b) /\ KidsAre(m, a, b, (d+1)-1, f)
    BY <1>5, <2>1, <2>4
  <2> QED
    BY <2>2, <2>3, <2>4
<1>8. S = Nat
  <2> HIDE DEF S
  <2>1. S \in SUBSET Nat
    BY DEF S
  <2> QED
    BY <1>6, <1>7, <2>1, Induction
<1>9. Right(n, lo, hi, h)
  <2> HIDE DEF Fits, Right
  <2> QED
    BY <1>2, <1>3, <1>8
<1> QED
  BY <1>9

-----------------------------------------------------------------------------
(* The top of a tree.                                                       *)

(* A root that has been split gets a root above it. *)
LEMMA GrownIs ==
  ASSUME NEW lo, NEW hi, IsBounds(lo, hi), NEW h \in Nat, NEW f,
         NEW r, Result(r, lo, hi, h, f), NEW k \in Nat, lo <= k, k < hi, f[k] # Missing
  PROVE  SearchTree(Grown(r), lo, hi, h + 1, f)
<1> DEFINE up == r.split[1]
           x == up.key
           c == r.node
           d == up.right
           n == Inner(<<x>>, <<c, d>>)
<1>1. CASE r.split = <<>>
  <2>1. SearchTree(c, lo, hi, h, f)
    BY <1>1 DEF Result
  <2>2. Widens(f, lo, hi, f, lo, hi)
    BY DEF Widens, IsBounds
  <2>3. Grown(r) = c
    BY <1>1 DEF Grown
  <2> HIDE DEF c
  <2> QED
    BY <2>1, <2>2, <2>3, TreeWidens
<1>2. CASE r.split # <<>>
  <2>1. /\ x \in Nat /\ lo < x /\ x < hi
        /\ SearchTree(c, lo, x, h, f) /\ SearchTree(d, x, hi, h, f)
    BY <1>2 DEF Result
  <2>2. Grown(r) = n
    BY <1>2 DEF Grown
  <2> HIDE DEF x, c, d, up
  <2>3. n.keys = <<x>> /\ n.kids = <<c, d>> /\ n.vals = <<>>
    BY InnerFields
  <2> HIDE DEF n
  <2>4. /\ <<x>> \in Seq(Nat) /\ Len(<<x>>) = 1 /\ <<x>>[1] = x
        /\ Len(<<c, d>>) = 2 /\ <<c, d>>[1] = c /\ <<c, d>>[2] = d /\ <<c, d>> # <<>>
    BY <2>1
  <2>5. IsSequence(<<c, d>>)
    <3>1. <<c, d>> \in Seq({c, d})
      OBVIOUS
    <3> QED
      BY <3>1 DEF IsSequence
  <2>6. InnerShape(n, lo, hi)
    <3>1. Ascending(<<x>>)
      BY <2>4 DEF Ascending
    <3> QED
      BY <2>1, <2>3, <2>4, <2>5, <3>1 DEF InnerShape, IsLeaf
  <2>7. NodeFits(<<x>>)
    <3> DEFINE t == SizesOf(<<x>>)
               e == KeySize[x]
    <3>1. AllKeys(<<x>>)
      BY <2>3, <2>6, InnerKeys
    <3>2. /\ t \in Seq(Nat) /\ Len(t) = 1 /\ t[1] = e /\ e \in Nat /\ x \in Keys
      <4> DEFINE s == <<x>>
      <4>1. AllKeys(s) /\ Len(s) = 1 /\ s[1] = x /\ 1 \in 1..Len(s) /\ t = SizesOf(s)
        BY <2>4, <3>1
      <4> HIDE DEF s, t
      <4>2. /\ t \in Seq(Nat) /\ Len(t) = 1 /\ t[1] = KeySize[s[1]] /\ KeySize[s[1]] \in Nat
            /\ s[1] \in Keys
        BY <4>1, SizesOfIs DEF AllKeys
      <4> QED
        BY <4>1, <4>2
    <3>3. 2 * e <= NodeCap /\ NodeCap \in Nat
      BY <3>2, ConstantsAssumption DEF Keys
    <3> HIDE DEF t, e
    <3>4. 1 \in 1..Len(t) /\ 1 - 1 = 0
      BY <3>2
    <3>5. Sums(t)[1] = Sums(t)[1-1] + t[1] /\ Sums(t)[0] = 0 /\ Sums(t)[1] = Size(t)
      BY <3>2, <3>4, SizeIs
    <3>6. Size(t) = e
      BY <3>2, <3>4, <3>5
    <3>7. Size(t) <= NodeCap
      BY <3>2, <3>3, <3>6
    <3> QED
      BY <3>7 DEF NodeFits, t
  <2>8. KidsAre(n, lo, hi, h, f)
    <3>1. /\ Bound(<<x>>, lo, hi, 0) = lo /\ Bound(<<x>>, lo, hi, 1) = x /\ Bound(<<x>>, lo, hi, 2) = hi
      BY <2>4 DEF Bound
    <3> SUFFICES ASSUME NEW i \in 1..2
                 PROVE  SearchTree(<<c, d>>[i], Bound(<<x>>, lo, hi, i-1), Bound(<<x>>, lo, hi, i), h, f)
      BY <2>3, <2>4 DEF KidsAre
    <3>2. CASE i = 1
      <4>1. i - 1 = 0
        BY <3>2
      <4> QED
        BY <2>1, <2>4, <3>1, <3>2, <4>1
    <3>3. CASE i = 2
      <4>1. i - 1 = 1
        BY <3>3
      <4> QED
        BY <2>1, <2>4, <3>1, <3>3, <4>1
    <3> QED
      BY <3>2, <3>3
  <2>9. InnerOK(n, lo, hi)
    BY <2>3, <2>6, <2>7 DEF InnerOK
  <2> QED
    BY <2>2, <2>8, <2>9, InnerTree
<1> QED
  BY <1>1, <1>2

(* A tree is no higher than its ways down are long. *)
LEMMA Squeezed ==
  ASSUME NEW n, NEW lo, NEW hi, NEW h, NEW f, SearchTree(n, lo, hi, h, f),
         NEW t \in Levels, \A j \in Nat : lo <= j /\ j < hi => IsLeaf(Descent(n, j)[t])
  PROVE  SearchTree(n, lo, hi, t, f)
<1> DEFINE Ends(m, a, b, d) == \A j \in Nat : a <= j /\ j < b => IsLeaf(Descent(m, j)[d])
           S == {d \in Nat : d \in Levels =>
                               \A m, a, b, e : SearchTree(m, a, b, e, f) /\ Ends(m, a, b, d)
                                                  => SearchTree(m, a, b, d, f)}
<1>1. MaxHeight - 1 \in Nat /\ Levels = 0..MaxHeight-1 /\ t \in Nat
  BY ConstantsAssumption DEF Levels
<1>2. 0 \in S
  <2> SUFFICES ASSUME NEW m, NEW a, NEW b, NEW e, SearchTree(m, a, b, e, f), Ends(m, a, b, 0)
               PROVE  SearchTree(m, a, b, 0, f)
    <3> HIDE DEF Ends
    <3> QED
      OBVIOUS
  <2>1. IsBounds(a, b) /\ a \in Nat /\ a <= a /\ a < b
    BY TreeIs DEF IsBounds
  <2>2. IsLeaf(m)
    BY <2>1, DescentIs
  <2>3. LeafOK(m, a, b, f)
    BY <2>2, TreeIs DEF InnerOK, InnerShape
  <2> QED
    BY <2>1, <2>3, LeafTree
<1>3. ASSUME NEW d \in S PROVE d + 1 \in S
  <2> SUFFICES ASSUME d + 1 \in Levels,
                      NEW m, NEW a, NEW b, NEW e, SearchTree(m, a, b, e, f), Ends(m, a, b, d+1)
               PROVE  SearchTree(m, a, b, d+1, f)
    <3> HIDE DEF Ends
    <3> QED
      OBVIOUS
  <2>1. d \in Nat /\ d \in Levels /\ d + 1 \in Nat
    BY <1>1
  <2>2. \A m1, a1, b1, e1 : SearchTree(m1, a1, b1, e1, f) /\ Ends(m1, a1, b1, d)
                               => SearchTree(m1, a1, b1, d, f)
    <3> HIDE DEF Ends
    <3> QED
      BY <2>1
  <2>3. IsBounds(a, b)
    BY TreeIs
  <2>4. CASE LeafOK(m, a, b, f)
    BY <2>1, <2>3, <2>4, LeafTree
  <2>5. CASE InnerOK(m, a, b) /\ KidsAre(m, a, b, e-1, f)
    <3> DEFINE B(x) == Bound(m.keys, a, b, x)
    <3>1. InnerShape(m, a, b) /\ ~IsLeaf(m)
      BY <2>5 DEF InnerOK, InnerShape
    <3>2. ASSUME NEW i \in 1..Len(m.kids) PROVE SearchTree(m.kids[i], B(i-1), B(i), d, f)
      <4>1. SearchTree(m.kids[i], B(i-1), B(i), e-1, f)
        BY <2>5 DEF KidsAre
      <4>2. ASSUME NEW j \in Nat, B(i-1) <= j, j < B(i) PROVE IsLeaf(Descent(m.kids[i], j)[d])
        <5>1. ChildFor(m.keys, j) = i
          BY <2>3, <3>1, <4>2, ChildForOnly
        <5>2. Below(m, j) = m.kids[i]
          BY <3>1, <5>1 DEF Below
        <5>3. Descent(m, j)[d+1] = Descent(m.kids[i], j)[d]
          BY <2>1, <5>2, DescentBelow
        <5>4. a <= j /\ j < b
          <6> DEFINE l == B(i-1)
                     u == B(i)
          <6>1. i - 1 \in 0..Len(m.kids) /\ i \in 0..Len(m.kids)
            <7>1. Len(m.kids) \in Nat
              BY <2>3, <3>1, KidBounds
            <7> QED
              BY <7>1
          <6>2. l \in Nat /\ u \in Nat /\ a <= l /\ u <= b /\ a \in Nat /\ b \in Nat
            BY <2>3, <3>1, <6>1, KidBounds DEF IsBounds
          <6>3. l <= j /\ j < u
            BY <4>2
          <6> HIDE DEF l, u
          <6> QED
            BY <6>2, <6>3
        <5> QED
          BY <5>3, <5>4
      <4> HIDE DEF B
      <4>3. Ends(m.kids[i], B(i-1), B(i), d)
        BY <4>2
      <4> HIDE DEF Ends
      <4> QED
        BY <2>2, <4>1, <4>3
    <3>3. KidsAre(m, a, b, d, f)
      BY <3>2 DEF KidsAre
    <3> QED
      BY <2>1, <2>3, <2>5, <3>3, InnerTree
  <2> QED
    BY <2>4, <2>5, TreeIs
<1>4. S = Nat
  <2> HIDE DEF S
  <2>1. S \in SUBSET Nat
    BY DEF S
  <2> QED
    BY <1>2, <1>3, <2>1, Induction
<1>5. Ends(n, lo, hi, t)
  OBVIOUS
<1> HIDE DEF Ends
<1> QED
  BY <1>1, <1>4, <1>5

(* The empty tree is a leaf with nothing in it. *)
LEMMA EmptyIs ==
  ASSUME NEW lo, NEW hi, IsBounds(lo, hi), NEW f,
         \A j \in Nat : lo <= j /\ j < hi => f[j] = Missing
  PROVE  LeafShape(EmptyNode, lo, hi, f) /\ LeafFits(EmptyNode.vals)
<1>1. EmptyNode.keys = <<>> /\ EmptyNode.vals = <<>> /\ IsLeaf(EmptyNode)
  BY LeafFields DEF EmptyNode
<1>2. <<>> \in Seq(Nat) /\ Len(<<>>) = 0
  BY EmptySeq
<1>3. Size(<<>>) = 0
  BY <1>2, SizeIs
<1>4. LeafFits(EmptyNode.vals)
  BY <1>1, <1>3, ConstantsAssumption DEF LeafFits
<1>5. LeafShape(EmptyNode, lo, hi, f)
  BY <1>1, <1>2 DEF LeafShape, Ascending
<1> QED
  BY <1>4, <1>5

(* The append fast path. *)
LEMMA AppendIs ==
  ASSUME NEW n, NEW lo, NEW hi, NEW f, NEW h \in Nat, IsBounds(lo, hi), LeafOK(n, lo, hi, f),
         NEW k \in Nat, lo <= k, k < hi, k > Last(n.keys),
         NEW v \in Values[k], LeafFits(Append(n.vals, v)), NEW g, Sets(g, f, k, v)
  PROVE  Result(Whole(Leaf(Append(n.keys, k), Append(n.vals, v))), lo, hi, h, g)
<1> DEFINE L == Len(n.keys)
           keys == Append(n.keys, k)
           vals == Append(n.vals, v)
           p == L + 1
<1>1. /\ n.keys \in Seq(Nat) /\ n.vals \in Seq(Nat) /\ Len(n.vals) = L /\ L \in Nat /\ L # 0
      /\ LeafShape(n, lo, hi, f) /\ Ascending(n.keys)
  BY LenProperties DEF LeafOK, LeafShape
<1>2. k \in Keys /\ v \in Nat
  BY InBounds, ValueIs
<1>3. /\ keys \in Seq(Nat) /\ Len(keys) = p /\ IsInserted(keys, n.keys, p, k)
  <2>1. /\ keys \in Seq(Nat) /\ Len(keys) = L + 1
        /\ \A i \in 1..L : keys[i] = n.keys[i]
        /\ keys[L+1] = k
    BY <1>1, AppendProperties
  <2> HIDE DEF keys
  <2>2. ASSUME NEW i \in 1..L+1
        PROVE  keys[i] = IF i < p THEN n.keys[i] ELSE IF i = p THEN k ELSE n.keys[i-1]
    BY SMTT(30), <1>1, <2>1
  <2> QED
    BY <2>1, <2>2 DEF IsInserted
<1>4. /\ vals \in Seq(Nat) /\ IsInserted(vals, n.vals, p, v)
  <2>1. /\ vals \in Seq(Nat) /\ Len(vals) = L + 1
        /\ \A i \in 1..L : vals[i] = n.vals[i]
        /\ vals[L+1] = v
    BY <1>1, <1>2, AppendProperties
  <2> HIDE DEF vals
  <2>2. ASSUME NEW i \in 1..L+1
        PROVE  vals[i] = IF i < p THEN n.vals[i] ELSE IF i = p THEN v ELSE n.vals[i-1]
    <3>1. CASE i = L + 1
      BY <1>1, <2>1, <3>1
    <3>2. CASE i # L + 1
      <4>1. i \in 1..L /\ i < p
        BY <1>1, <3>2
      <4> QED
        BY <2>1, <4>1
    <3> QED
      BY <3>1, <3>2
  <2> QED
    BY <1>1, <2>1, <2>2 DEF IsInserted
<1>5. ASSUME NEW i \in 1..L PROVE n.keys[i] < k
  <2>1. Last(n.keys) = n.keys[L]
    BY DEF Last
  <2> DEFINE x == n.keys[i]
             y == n.keys[L]
  <2>2. x \in Nat /\ y \in Nat /\ y < k /\ (x < y \/ x = y)
    <3>1. L \in 1..L /\ (i = L \/ i < L)
      BY <1>1
    <3>2. x \in Nat /\ y \in Nat
      BY <1>1, <3>1, ElementOfSeq
    <3>3. y < k
      BY <2>1, <3>2
    <3>4. x < y \/ x = y
      BY <1>1, <3>1 DEF Ascending
    <3> QED
      BY <3>2, <3>3, <3>4
  <2> HIDE DEF x, y
  <2>3. x < k
    BY <2>2
  <2> QED
    BY <2>3 DEF x
<1>6. /\ p \in 1..L+1 /\ \A i \in 1..L : i < p /\ ~(p <= i)
  BY <1>1
<1> HIDE DEF keys, vals, p, L
<1>7. LeafShape(Leaf(keys, vals), lo, hi, g)
  BY <1>1, <1>3, <1>4, <1>5, <1>6, LeafGains DEF L
<1>8. Len(keys) # 0
  BY <1>1, <1>3 DEF p
<1>9. LeafFits(vals)
  BY DEF vals
<1>10. SearchTree(Leaf(keys, vals), lo, hi, h, g)
  BY <1>7, <1>8, <1>9, LeafTree, LeafFields DEF LeafOK
<1> QED
  BY <1>10, WholeFields DEF Result, keys, vals

-----------------------------------------------------------------------------
(* The operations on a tree.                                                *)

\* n is the tree with the values of f.
Root(n, f) ==
    \/ n = EmptyNode /\ \A j \in Nat : 1 <= j /\ j < NumKeys + 1 => f[j] = Missing
    \/ SearchTree(n, 1, NumKeys + 1, MaxHeight - 1, f)

(* Keys are the bounds of a tree. *)
LEMMA KeyBounds ==
  ASSUME NEW k \in Keys
  PROVE  /\ k \in Nat /\ 1 <= k /\ k < NumKeys + 1 /\ IsBounds(1, NumKeys + 1)
         /\ MaxHeight - 1 \in Nat /\ MaxHeight - 1 \in Levels
<1>1. NumKeys \in Nat /\ k \in 1..NumKeys /\ MaxHeight \in Nat \ {0}
  BY ConstantsAssumption DEF Keys
<1> QED
  BY <1>1 DEF IsBounds, Levels

LEMMA EmptyFields == EmptyNode.keys = <<>> /\ EmptyNode.vals = <<>> /\ IsLeaf(EmptyNode)
BY LeafFields DEF EmptyNode

(* The root of an empty tree is its leaf. *)
LEMMA EmptyLeafFor ==
  ASSUME NEW k \in Keys
  PROVE  LeafFor(EmptyNode, k) = EmptyNode
BY KeyBounds, EmptyFields, DescentOfLeaf DEF LeafFor

(* put by descent. *)
LEMMA InsertIs ==
  ASSUME NEW n, NEW f, Root(n, f), NEW k \in Keys, NEW v \in Values[k], NEW g, Sets(g, f, k, v),
         LeavesFit(InsertIntoLeaf(LeafFor(n, k), k, v))
  PROVE  LET leaf == InsertIntoLeaf(LeafFor(n, k), k, v)
         IN /\ SearchTree(Grown(Insert(n, k, v)), 1, NumKeys + 1, MaxHeight, g)
            /\ leaf.split = <<>> => Head(leaf.node.keys) \in Keys
<1> DEFINE hi == NumKeys + 1
           top == MaxHeight - 1
           old == LeafFor(n, k)
           leaf == InsertIntoLeaf(old, k, v)
           r == Insert(n, k, v)
<1>1. k \in Nat /\ 1 <= k /\ k < hi /\ IsBounds(1, hi) /\ top \in Nat /\ top <= top
  BY KeyBounds
<1>2. top + 1 = MaxHeight
  BY ConstantsAssumption
<1>3. g[k] # Missing
  BY ValueIs DEF Sets
<1>4. r = Rebuilt(n, k, leaf)
  BY DEF Insert
<1>5. ASSUME NEW a, NEW b, NEW d, IsBounds(a, b), d \in Nat, LeafShape(old, a, b, f), LeafFits(old.vals),
             a <= k, k < b
      PROVE  /\ Result(leaf, a, b, d, g)
             /\ leaf.split = <<>> => Head(leaf.node.keys) \in Keys
  <2>1. /\ Result(leaf, a, b, d, g)
        /\ leaf.split = <<>> => LeafOK(leaf.node, a, b, g)
    BY <1>1, <1>5, InsertIntoLeafIs
  <2>2. ASSUME NEW m, LeafOK(m, a, b, g) PROVE Head(m.keys) \in Keys
    <3>1. m.keys \in Seq(Nat) /\ Len(m.keys) # 0 /\ Len(m.keys) \in Nat
      BY <2>2, LenProperties DEF LeafOK, LeafShape
    <3>2. 1 \in 1..Len(m.keys)
      BY <3>1
    <3>3. m.keys[1] \in Nat /\ a <= m.keys[1] /\ m.keys[1] < b
      BY <2>2, <3>1, <3>2, ElementOfSeq DEF LeafOK, LeafShape
    <3>4. Head(m.keys) = m.keys[1]
      BY <3>1, HeadTailProperties, EmptySeq
    <3> QED
      BY <1>5, <3>3, <3>4, InBounds
  <2> HIDE DEF leaf
  <2> QED
    BY <2>1, <2>2
<1>6. CASE n = EmptyNode /\ \A j \in Nat : 1 <= j /\ j < hi => f[j] = Missing
  <2>1. old = n
    BY <1>6, EmptyLeafFor
  <2>2. LeafShape(n, 1, hi, f) /\ LeafFits(n.vals)
    BY <1>1, <1>6, EmptyIs
  <2> HIDE DEF old, leaf, hi, top, r
  <2>3. Result(leaf, 1, hi, top, g) /\ (leaf.split = <<>> => Head(leaf.node.keys) \in Keys)
    BY <1>1, <1>5, <2>1, <2>2
  <2>4. Rebuilt(n, k, leaf) = leaf
    BY <1>6, EmptyFields, RebuiltLeaf
  <2>5. SearchTree(Grown(r), 1, hi, top + 1, g)
    BY <1>1, <1>3, <1>4, <2>3, <2>4, GrownIs
  <2> QED
    BY <1>2, <2>3, <2>5 DEF r, leaf, hi, old
<1>7. CASE SearchTree(n, 1, hi, top, f)
  <2> HIDE DEF leaf, hi, top, r
  <2>1. PICK a, b : LeafOK(old, a, b, f) /\ IsBounds(a, b) /\ a <= k /\ k < b
    BY <1>1, <1>7, Reaches DEF top
  <2>2. LeafBecomes(old, leaf, k, f, g)
    <3> SUFFICES ASSUME NEW x, NEW y, NEW d, IsBounds(x, y), d \in Nat, LeafOK(old, x, y, f), x <= k, k < y
                 PROVE  Result(leaf, x, y, d, g)
      BY DEF LeafBecomes
    <3> HIDE DEF old
    <3> QED
      BY <1>5 DEF LeafOK
  <2>3. Result(Rebuilt(n, k, leaf), 1, hi, top, g)
    BY <1>1, <1>7, <2>2, RebuiltIs DEF top
  <2>4. SearchTree(Grown(r), 1, hi, top + 1, g)
    BY <1>1, <1>3, <1>4, <2>3, GrownIs
  <2>5. leaf.split = <<>> => Head(leaf.node.keys) \in Keys
    <3> HIDE DEF old
    <3> QED
      BY <1>1, <1>5, <2>1 DEF LeafOK
  <2> QED
    BY <1>2, <2>4, <2>5 DEF r, leaf, hi
<1> QED
  BY <1>6, <1>7 DEF Root

(* put at the hint, to a key of the hint's leaf. *)
LEMMA AppendedIs ==
  ASSUME NEW n, NEW f, Root(n, f), n # EmptyNode, NEW j \in Keys, NEW k \in Keys,
         LeafFor(n, k) = LeafFor(n, j), k > Last(LeafFor(n, j).keys),
         NEW v \in Values[k], LeafFits(Append(LeafFor(n, j).vals, v)), NEW g, Sets(g, f, k, v)
  PROVE  LET old == LeafFor(n, j)
             leaf == Leaf(Append(old.keys, k), Append(old.vals, v))
         IN Root(Rebuilt(n, j, Whole(leaf)).node, g)
<1> DEFINE hi == NumKeys + 1
           top == MaxHeight - 1
           old == LeafFor(n, j)
           leaf == Whole(Leaf(Append(old.keys, k), Append(old.vals, v)))
           r == Rebuilt(n, j, leaf)
<1>1. /\ k \in Nat /\ 1 <= k /\ k < hi /\ j \in Nat /\ 1 <= j /\ j < hi
      /\ IsBounds(1, hi) /\ top \in Nat /\ top <= top
  BY KeyBounds
<1>2. g[k] # Missing
  BY ValueIs DEF Sets
<1>3. SearchTree(n, 1, hi, top, f)
  BY DEF Root
<1>4. leaf.split = <<>>
  BY WholeFields
<1>5. LeafBecomes(old, leaf, k, f, g)
  <2> SUFFICES ASSUME NEW x, NEW y, NEW d, IsBounds(x, y), d \in Nat, LeafOK(old, x, y, f), x <= k, k < y
               PROVE  Result(leaf, x, y, d, g)
    BY DEF LeafBecomes
  <2> QED
    BY <1>1, AppendIs
<1> HIDE DEF leaf, hi, top
<1>6. Result(r, 1, hi, top, g) /\ r.split = <<>>
  BY <1>1, <1>3, <1>4, <1>5, RebuiltIs DEF top
<1>7. SearchTree(r.node, 1, hi, top, g)
  <2> HIDE DEF r
  <2> QED
    BY <1>1, <1>2, <1>6 DEF Result
<1> QED
  BY <1>7 DEF Root, hi, top, leaf

(* delete of a key that is found, ... *)
LEMMA DeleteIs ==
  ASSUME NEW n, NEW f, Root(n, f), NEW k \in Keys, Holds(LeafFor(n, k), k), NEW g, Sets(g, f, k, Missing)
  PROVE  Root(DeleteFrom(n, k), g)
<1> DEFINE hi == NumKeys + 1
           top == MaxHeight - 1
           old == LeafFor(n, k)
           leaf == Whole(RemoveFromLeaf(old, k))
           r == Rebuilt(n, k, leaf)
<1>1. /\ k \in Nat /\ 1 <= k /\ k < hi
      /\ IsBounds(1, hi) /\ top \in Nat /\ top <= top
  BY KeyBounds
<1>2. SearchTree(n, 1, hi, top, f)
  <2>1. n # EmptyNode
    <3> SUFFICES ASSUME n = EmptyNode PROVE FALSE
      OBVIOUS
    <3>1. Holds(EmptyNode, k)
      BY EmptyLeafFor
    <3>2. EmptyNode.keys \in Seq(Nat) /\ Len(EmptyNode.keys) = 0
      BY EmptyFields, EmptySeq
    <3>3. Ascending(EmptyNode.keys)
      BY <3>2 DEF Ascending
    <3>4. SlotFor(EmptyNode.keys, k) \in 1..Len(EmptyNode.keys)
      BY <1>1, <3>1, <3>2, <3>3, HoldsIs
    <3> QED
      BY <3>2, <3>4
  <2> QED
    BY <2>1 DEF Root
<1>3. leaf.split = <<>>
  BY WholeFields
<1>4. LeafBecomes(old, leaf, k, f, g)
  <2> SUFFICES ASSUME NEW x, NEW y, NEW d, IsBounds(x, y), d \in Nat, LeafOK(old, x, y, f), x <= k, k < y
               PROVE  Result(leaf, x, y, d, g)
    BY DEF LeafBecomes
  <2> QED
    BY <1>1, RemoveFromLeafIs
<1>5. DeleteFrom(n, k) = r.node
  BY DEF DeleteFrom
<1> HIDE DEF leaf, hi, top
<1>6. Result(r, 1, hi, top, g) /\ r.split = <<>>
  BY <1>1, <1>2, <1>3, <1>4, RebuiltIs DEF top
<1> HIDE DEF r
<1>7. CASE r.node = EmptyNode /\ \A j \in Nat : 1 <= j /\ j < hi => g[j] = Missing
  BY <1>5, <1>7 DEF Root, hi
<1>8. CASE SearchTree(r.node, 1, hi, top, g)
  BY <1>5, <1>8 DEF Root, hi, top
<1> QED
  BY <1>6, <1>7, <1>8 DEF Result

(* ... and of one that is not. *)
LEMMA NotFound ==
  ASSUME NEW n, NEW f, Root(n, f), NEW k \in Keys, ~Holds(LeafFor(n, k), k), NEW g, Sets(g, f, k, Missing)
  PROVE  Root(n, g)
<1> DEFINE hi == NumKeys + 1
           top == MaxHeight - 1
<1>1. /\ k \in Nat /\ 1 <= k /\ k < hi
      /\ IsBounds(1, hi) /\ top \in Nat /\ top <= top
  BY KeyBounds
<1> HIDE DEF hi, top
<1>2. ASSUME f[k] = Missing, NEW j \in Nat, 1 <= j, j < hi PROVE g[j] = f[j]
  <2>1. j \in Keys
    BY <1>1, <1>2, InBounds
  <2> QED
    BY <1>2, <2>1 DEF Sets
<1>3. CASE n = EmptyNode /\ \A j \in Nat : 1 <= j /\ j < hi => f[j] = Missing
  BY <1>1, <1>2, <1>3 DEF Root, hi
<1>4. CASE SearchTree(n, 1, hi, top, f)
  <2>1. Get(n, k) = f[k]
    BY <1>1, <1>4, GetIs DEF top
  <2>2. f[k] = Missing
    BY <2>1 DEF Get
  <2>3. SearchTree(n, 1, hi, top, g)
    BY <1>2, <1>4, <2>2, TreeElsewhere
  <2> QED
    BY <2>3 DEF Root, hi, top
<1> QED
  BY <1>3, <1>4 DEF Root, hi, top

(* get finds the values, ... *)
LEMMA RootGet ==
  ASSUME NEW n, NEW f, Root(n, f), NEW k \in Keys
  PROVE  Get(n, k) = f[k]
<1>1. /\ k \in Nat /\ 1 <= k /\ k < NumKeys + 1 /\ MaxHeight - 1 <= MaxHeight - 1
  BY KeyBounds
<1>2. CASE n = EmptyNode /\ \A j \in Nat : 1 <= j /\ j < NumKeys + 1 => f[j] = Missing
  <2>1. LeafFor(n, k) = EmptyNode
    BY <1>2, EmptyLeafFor
  <2>2. ~Holds(EmptyNode, k)
    <3>1. EmptyNode.keys \in Seq(Nat) /\ Len(EmptyNode.keys) = 0
      BY EmptyFields, EmptySeq
    <3>2. Ascending(EmptyNode.keys)
      BY <3>1 DEF Ascending
    <3>3. Holds(EmptyNode, k) => SlotFor(EmptyNode.keys, k) \in 1..Len(EmptyNode.keys)
      BY <1>1, <3>1, <3>2, HoldsIs
    <3> QED
      BY <3>1, <3>3
  <2> QED
    BY <1>1, <1>2, <2>1, <2>2 DEF Get
<1>3. CASE SearchTree(n, 1, NumKeys + 1, MaxHeight - 1, f)
  <2> DEFINE hi == NumKeys + 1
             h == MaxHeight - 1
  <2>1. SearchTree(n, 1, hi, h, f) /\ k < hi /\ h <= MaxHeight - 1
    BY <1>1, <1>3
  <2> HIDE DEF hi, h
  <2> QED
    BY <1>1, <2>1, GetIs
<1> QED
  BY <1>2, <1>3 DEF Root

(* ... and every page on the way is a node that fits. *)
LEMMA RootNodes ==
  ASSUME NEW n, NEW f, Root(n, f), ShortKeys, NEW k \in Keys
  PROVE  /\ \A i \in Levels : IsNode(Descent(n, k)[i])
         /\ IsLeaf(LeafFor(n, k))
<1> DEFINE hi == NumKeys + 1
           top == MaxHeight - 1
<1>1. /\ k \in Nat /\ 1 <= k /\ k < hi /\ top \in Levels /\ top <= top
  BY KeyBounds
<1> HIDE DEF hi, top
<1>2. CASE n = EmptyNode
  <2>1. IsLeaf(n) /\ n.keys = <<>> /\ n.vals = <<>>
    BY <1>2, EmptyFields
  <2>2. IsNode(n)
    <3>1. Len(<<>>) = 0 /\ Size(<<>>) = 0 /\ <<>> \in Seq(Nat) /\ DOMAIN <<>> = 1..0
      BY EmptySeq, SizeIs, LenProperties
    <3>2. LeafFits(<<>>)
      BY <3>1, ConstantsAssumption DEF LeafFits
    <3> QED
      BY <2>1, <3>1, <3>2 DEF IsNode, LeafFits
  <2> QED
    BY <1>1, <2>1, <2>2, DescentOfLeaf DEF LeafFor, top
<1>3. CASE SearchTree(n, 1, hi, top, f)
  <2>1. IsLeaf(LeafFor(n, k))
    BY <1>1, <1>3, Reaches DEF LeafOK, LeafShape, top
  <2>2. ASSUME NEW i \in Levels PROVE IsNode(Descent(n, k)[i])
    <3> DEFINE m == Descent(n, k)[i]
    <3>1. PICK a, b, d : SearchTree(m, a, b, d, f)
      BY <1>1, <1>3, Path
    <3> HIDE DEF m
    <3>2. IsBounds(a, b) /\ (LeafOK(m, a, b, f) \/ InnerOK(m, a, b))
      BY <3>1, TreeIs
    <3>3. CASE LeafOK(m, a, b, f)
      <4>1. /\ IsLeaf(m) /\ m.keys \in Seq(Nat) /\ Len(m.vals) = Len(m.keys) /\ LeafFits(m.vals)
            /\ DOMAIN m.keys = 1..Len(m.keys)
        BY <3>3, LenProperties DEF LeafOK, LeafShape
      <4>2. ASSUME NEW x \in 1..Len(m.keys) PROVE m.keys[x] \in Keys /\ m.vals[x] \in Values[m.keys[x]]
        <5>1. m.keys[x] \in Nat /\ a <= m.keys[x] /\ m.keys[x] < b /\ m.vals[x] \in Values[m.keys[x]]
          BY <3>3, <4>1, ElementOfSeq DEF LeafOK, LeafShape
        <5> QED
          BY <3>2, <5>1, InBounds
      <4>3. \A x \in DOMAIN m.keys : m.keys[x] \in Keys /\ m.vals[x] \in Values[m.keys[x]]
        BY <4>1, <4>2
      <4>4. Len(m.keys) = Len(m.vals)
        BY <4>1
      <4>5. IsNode(m)
        BY <4>1, <4>3, <4>4 DEF IsNode, LeafFits
      <4> QED
        BY <4>5 DEF m
    <3>4. CASE InnerOK(m, a, b)
      <4>1. /\ m.vals = <<>> /\ m.keys \in Seq(Nat) /\ Len(m.kids) = Len(m.keys) + 1
            /\ NodeFits(m.keys) /\ DOMAIN m.keys = 1..Len(m.keys)
        BY <3>4, LenProperties DEF InnerOK, InnerShape
      <4>2. \A x \in 1..Len(m.keys) : m.keys[x] \in Keys
        BY <3>2, <3>4, InnerKeys DEF InnerOK, AllKeys
      <4>3. Range(m.keys) \subseteq Keys
        BY <4>1, <4>2 DEF Range
      <4>4. IsNode(m)
        BY <4>1, <4>3 DEF IsNode, NodeFits
      <4> QED
        BY <4>4 DEF m
    <3> QED
      BY <3>2, <3>3, <3>4 DEF m
  <2> QED
    BY <2>1, <2>2
<1> QED
  BY <1>2, <1>3 DEF Root, hi, top

-----------------------------------------------------------------------------
(* The specification.                                                       *)

\* What was put into a tree and not deleted since, by key.
IsHistory(f) == DOMAIN f = Keys /\ \A k \in Keys : f[k] \in Values[k] \cup {Missing}

(* The inductive invariant: every tree has the values of its history. *)
TreeInv ==
    /\ DOMAIN tree = Trees /\ DOMAIN stored = Trees
    /\ \A c \in Trees : Root(tree[c], stored[c]) /\ IsHistory(stored[c])
    /\ hint # NoHint => hint.tree \in Trees /\ hint.key \in Keys
    /\ ops \in 0..MaxOps

LEMMA TreeInvInit == Init => TreeInv
<1> SUFFICES ASSUME Init PROVE TreeInv
  OBVIOUS
<1>1. NumKeys \in Nat /\ MaxOps \in Nat /\ Keys = 1..NumKeys
  BY ConstantsAssumption DEF Keys
<1>2. \A j \in Nat : 1 <= j /\ j < NumKeys + 1 => Nothing[j] = Missing
  <2> SUFFICES ASSUME NEW j \in Nat, 1 <= j, j < NumKeys + 1 PROVE Nothing[j] = Missing
    OBVIOUS
  <2>1. j \in Keys
    BY <1>1
  <2> QED
    BY <2>1 DEF Nothing
<1>3. Root(EmptyNode, Nothing) /\ IsHistory(Nothing)
  BY <1>2 DEF Root, IsHistory, Nothing
<1>4. \A c \in Trees : tree[c] = EmptyNode /\ stored[c] = Nothing
  BY DEF Init
<1>5. DOMAIN tree = Trees /\ DOMAIN stored = Trees /\ hint = NoHint /\ ops \in 0..MaxOps
  BY <1>1 DEF Init
<1> QED
  BY <1>3, <1>4, <1>5 DEF TreeInv

(* A step that changes one tree and its history alike. *)
LEMMA TreeChanges ==
  ASSUME NEW f, DOMAIN f = Trees, NEW c \in Trees, NEW k \in Keys, IsHistory(f[c]), NEW x,
         x \in Values[k] \cup {Missing}, NEW g, g = [f EXCEPT ![c][k] = x]
  PROVE  /\ DOMAIN g = Trees /\ IsHistory(g[c]) /\ Sets(g[c], f[c], k, x)
         /\ \A d \in Trees : d # c => g[d] = f[d]
<1>1. DOMAIN g = Trees /\ g[c] = [f[c] EXCEPT ![k] = x] /\ \A d \in Trees : d # c => g[d] = f[d]
  OBVIOUS
<1>2. DOMAIN f[c] = Keys /\ \A j \in Keys : f[c][j] \in Values[j] \cup {Missing}
  BY DEF IsHistory
<1> DEFINE e == f[c]
           m == g[c]
<1>3. m = [e EXCEPT ![k] = x] /\ DOMAIN e = Keys /\ \A j \in Keys : e[j] \in Values[j] \cup {Missing}
  BY <1>1, <1>2
<1> HIDE DEF e, m
<1>4. IsHistory(m) /\ Sets(m, e, k, x)
  BY <1>3 DEF IsHistory, Sets
<1> QED
  BY <1>1, <1>4 DEF e, m

LEMMA PutKeepsTreeInv ==
  ASSUME TreeInv, AnyOrder = FALSE, NEW c \in Trees, NEW k \in Keys, NEW v \in Values[k], Put(c, k, v)
  PROVE  TreeInv'
<1>1. /\ DOMAIN tree = Trees /\ DOMAIN stored = Trees
      /\ \A d \in Trees : Root(tree[d], stored[d]) /\ IsHistory(stored[d])
      /\ hint # NoHint => hint.tree \in Trees /\ hint.key \in Keys
      /\ ops \in 0..MaxOps
  BY DEF TreeInv
<1>2. /\ Begun /\ MayOffer(c, k, v) /\ (PutAtHint(c, k, v) \/ PutByDescent(c, k, v))
      /\ stored' = [stored EXCEPT ![c][k] = v]
  BY DEF Put
<1>3. ops' \in 0..MaxOps
  BY <1>1, <1>2, ConstantsAssumption DEF Begun
<1>4. /\ DOMAIN stored' = Trees /\ IsHistory(stored'[c]) /\ Sets(stored'[c], stored[c], k, v)
      /\ \A d \in Trees : d # c => stored'[d] = stored[d]
  BY <1>1, <1>2, TreeChanges
<1>5. CASE PutAtHint(c, k, v)
  <2> DEFINE n == tree[c]
             j == hint.key
             old == LeafFor(n, j)
             leaf == Leaf(Append(old.keys, k), Append(old.vals, v))
  <2>1. hint.tree = c /\ HintLeaf = old /\ old = LeafFor(n, k) /\ j \in Keys
    BY <1>1, <1>2, <1>5 DEF PutAtHint, MayOffer, TakesHint, HintLeaf
  <2>2. n # EmptyNode /\ k > Last(old.keys) /\ LeafFits(Append(old.vals, v))
    BY <1>5, <2>1 DEF PutAtHint, TakesHint
  <2>3. tree' = [tree EXCEPT ![c] = Rebuilt(n, j, Whole(leaf)).node] /\ hint' = hint
    BY <1>5, <2>1 DEF PutAtHint
  <2>4. Root(Rebuilt(n, j, Whole(leaf)).node, stored'[c])
    BY <1>1, <1>4, <2>1, <2>2, AppendedIs
  <2> HIDE DEF n, j, leaf
  <2>5. /\ DOMAIN tree' = Trees /\ Root(tree'[c], stored'[c])
        /\ \A d \in Trees : d # c => tree'[d] = tree[d]
    BY <1>1, <2>3, <2>4
  <2>6. \A d \in Trees : Root(tree'[d], stored'[d]) /\ IsHistory(stored'[d])
    BY <1>1, <1>4, <2>5
  <2> QED
    BY <1>1, <1>3, <1>4, <2>3, <2>5, <2>6 DEF TreeInv, NoHint
<1>6. CASE PutByDescent(c, k, v)
  <2> DEFINE n == tree[c]
             leaf == InsertIntoLeaf(LeafFor(n, k), k, v)
             m == Grown(Insert(n, k, v))
  <2>1. /\ tree' = [tree EXCEPT ![c] = m] /\ LeavesFit(leaf)
        /\ \A j \in Keys : IsLeaf(LeafFor(tree'[c], j))
        /\ hint' = IF leaf.split = <<>> THEN [tree |-> c, key |-> Head(leaf.node.keys)] ELSE NoHint
    BY <1>6 DEF PutByDescent, LeafWith
  <2>2. /\ SearchTree(m, 1, NumKeys + 1, MaxHeight, stored'[c])
        /\ leaf.split = <<>> => Head(leaf.node.keys) \in Keys
    BY <1>1, <1>4, <2>1, InsertIs
  <2> HIDE DEF m, leaf
  <2>3. /\ DOMAIN tree' = Trees /\ tree'[c] = m
        /\ \A d \in Trees : d # c => tree'[d] = tree[d]
    BY <1>1, <2>1
  <2>4. SearchTree(m, 1, NumKeys + 1, MaxHeight - 1, stored'[c])
    <3>1. IsBounds(1, NumKeys + 1) /\ MaxHeight - 1 \in Levels
      BY KeyBounds
    <3>2. ASSUME NEW j \in Nat, 1 <= j, j < NumKeys + 1 PROVE IsLeaf(Descent(m, j)[MaxHeight - 1])
      <4>1. j \in Keys
        BY <3>1, <3>2, InBounds
      <4> QED
        BY <2>1, <2>3, <4>1 DEF LeafFor
    <3> QED
      BY <2>2, <3>1, <3>2, Squeezed
  <2>5. Root(m, stored'[c])
    BY <2>4 DEF Root
  <2>6. \A d \in Trees : Root(tree'[d], stored'[d]) /\ IsHistory(stored'[d])
    BY <1>1, <1>4, <2>3, <2>5
  <2>7. hint' # NoHint => hint'.tree \in Trees /\ hint'.key \in Keys
    BY <2>1, <2>2
  <2> QED
    BY <1>3, <1>4, <2>3, <2>6, <2>7 DEF TreeInv, NoHint
<1> QED
  BY <1>2, <1>5, <1>6

LEMMA RefusalKeepsTreeInv ==
  ASSUME TreeInv, NEW c \in Trees, NEW k \in Keys, NEW v \in Values[k], PutRefused(c, k, v)
  PROVE  TreeInv'
<1>1. hint' \in {hint, NoHint} /\ tree' = tree /\ stored' = stored /\ Begun
  BY DEF PutRefused
<1>2. ops' \in 0..MaxOps
  BY <1>1, ConstantsAssumption DEF Begun, TreeInv
<1> QED
  BY <1>1, <1>2 DEF TreeInv, NoHint

LEMMA DeleteKeepsTreeInv ==
  ASSUME TreeInv, NEW c \in Trees, NEW k \in Keys, Delete(c, k) \/ DeleteMissing(c, k)
  PROVE  TreeInv'
<1>1. /\ DOMAIN tree = Trees /\ DOMAIN stored = Trees
      /\ \A d \in Trees : Root(tree[d], stored[d]) /\ IsHistory(stored[d])
      /\ hint # NoHint => hint.tree \in Trees /\ hint.key \in Keys
      /\ ops \in 0..MaxOps
  BY DEF TreeInv
<1>2. Begun /\ stored' = [stored EXCEPT ![c][k] = Missing]
  BY DEF Delete, DeleteMissing
<1>3. ops' \in 0..MaxOps
  BY <1>1, <1>2, ConstantsAssumption DEF Begun
<1>4. /\ DOMAIN stored' = Trees /\ IsHistory(stored'[c]) /\ Sets(stored'[c], stored[c], k, Missing)
      /\ \A d \in Trees : d # c => stored'[d] = stored[d]
  <2>1. Missing \in Values[k] \cup {Missing}
    OBVIOUS
  <2> QED
    BY <1>1, <1>2, <2>1, TreeChanges
<1>5. CASE Delete(c, k)
  <2> DEFINE m == DeleteFrom(tree[c], k)
  <2>1. /\ tree' = [tree EXCEPT ![c] = m] /\ hint' = NoHint
        /\ Holds(LeafFor(tree[c], k), k)
    BY <1>5 DEF Delete
  <2>2. Root(m, stored'[c])
    BY <1>1, <1>4, <2>1, DeleteIs
  <2> HIDE DEF m
  <2>3. /\ DOMAIN tree' = Trees /\ tree'[c] = m
        /\ \A d \in Trees : d # c => tree'[d] = tree[d]
    BY <1>1, <2>1
  <2>4. \A d \in Trees : Root(tree'[d], stored'[d]) /\ IsHistory(stored'[d])
    BY <1>1, <1>4, <2>2, <2>3
  <2> QED
    BY <1>3, <1>4, <2>1, <2>3, <2>4 DEF TreeInv, NoHint
<1>6. CASE DeleteMissing(c, k)
  <2>1. tree' = tree /\ hint' = hint /\ ~Holds(LeafFor(tree[c], k), k)
    BY <1>6 DEF DeleteMissing
  <2>2. Root(tree[c], stored'[c])
    BY <1>1, <1>4, <2>1, NotFound
  <2>3. \A d \in Trees : Root(tree'[d], stored'[d]) /\ IsHistory(stored'[d])
    BY <1>1, <1>4, <2>1, <2>2
  <2> QED
    BY <1>1, <1>3, <1>4, <2>1, <2>3 DEF TreeInv, NoHint
<1> QED
  BY <1>5, <1>6

(* Every tree has the values of its history, at every moment, if the hint   *)
(* is only ever offered keys of its leaf (btree.zig 649-676): what the hint *)
(* does otherwise is a finding of its own.                                  *)
THEOREM TreeInvariant ==
  ASSUME AnyOrder = FALSE
  PROVE  Spec => []TreeInv
<1>1. TreeInv /\ [Next]_vars => TreeInv'
  <2> SUFFICES ASSUME TreeInv, [Next]_vars PROVE TreeInv'
    OBVIOUS
  <2>1. ASSUME NEW c \in Trees, NEW k \in Keys, NEW v \in Values[k], Put(c, k, v) PROVE TreeInv'
    BY <2>1, PutKeepsTreeInv
  <2>5. ASSUME NEW c \in Trees, NEW k \in Keys, NEW v \in Values[k], PutRefused(c, k, v) PROVE TreeInv'
    BY <2>5, RefusalKeepsTreeInv
  <2>2. ASSUME NEW c \in Trees, NEW k \in Keys, Delete(c, k) \/ DeleteMissing(c, k) PROVE TreeInv'
    BY <2>2, DeleteKeepsTreeInv
  <2>3. CASE Commit
    <3>1. hint' = NoHint /\ ops' \in 0..MaxOps /\ tree' = tree /\ stored' = stored
      BY <2>3, ConstantsAssumption DEF Commit
    <3> QED
      BY <3>1 DEF TreeInv, NoHint
  <2>4. CASE UNCHANGED vars
    BY <2>4 DEF vars, TreeInv, NoHint
  <2> QED
    BY <2>1, <2>2, <2>3, <2>4, <2>5 DEF Next
<1> QED
  BY <1>1, TreeInvInit, PTL DEF Spec

(* Get finds each key that was put, with its last value, and nothing else,  *)
(* through any sequence of splits, drops and collapses (btree.zig 1-6).     *)
THEOREM GetsAreLookups ==
  ASSUME AnyOrder = FALSE
  PROVE  Spec => []GetIsLookup
<1>1. TreeInv => GetIsLookup
  BY RootGet DEF TreeInv, GetIsLookup
<1> QED
  BY <1>1, TreeInvariant, PTL

(* Every page fits, and every way down ends in a leaf, when no separator    *)
(* takes more than a fifth of a page: two halves of an internal node that   *)
(* is too full then fit, though they are made equal without their slots     *)
(* (btree.zig 935-1023, max_key_size).  The halves of a leaf may not: such  *)
(* a put is refused, and the tree stays as it was (btree.zig 900-918).      *)
THEOREM TypeCorrect ==
  ASSUME AnyOrder = FALSE, ShortKeys
  PROVE  Spec => []TypeOK
<1>1. TreeInv => TypeOK
  BY RootNodes DEF TreeInv, TypeOK, IsHistory
<1> QED
  BY <1>1, TreeInvariant, PTL

-----------------------------------------------------------------------------
(* Iteration.                                                               *)

(* Sequences of anything, one after another, ... *)
LEMMA JoinIs ==
  ASSUME NEW s, NEW t, IsSequence(s), IsSequence(t)
  PROVE  /\ IsSequence(s \o t) /\ Len(s \o t) = Len(s) + Len(t)
         /\ \A i \in 1..Len(s)+Len(t) :
               (s \o t)[i] = IF i <= Len(s) THEN s[i] ELSE t[i - Len(s)]
<1>1. PICK S : s \in Seq(S)
  BY DEF IsSequence
<1>2. PICK T : t \in Seq(T)
  BY DEF IsSequence
<1>3. s \in Seq(S \cup T) /\ t \in Seq(S \cup T)
  <2>1. s \in [1..Len(s) -> S] /\ Len(s) \in Nat /\ t \in [1..Len(t) -> T] /\ Len(t) \in Nat
    BY <1>1, <1>2, LenProperties, SeqDef
  <2>2. s \in [1..Len(s) -> S \cup T] /\ t \in [1..Len(t) -> S \cup T]
    BY <2>1
  <2> QED
    BY <2>1, <2>2, SeqDef
<1>4. /\ s \o t \in Seq(S \cup T) /\ Len(s \o t) = Len(s) + Len(t)
      /\ \A i \in 1..Len(s)+Len(t) :
            (s \o t)[i] = IF i <= Len(s) THEN s[i] ELSE t[i - Len(s)]
  BY <1>3, ConcatProperties
<1> QED
  BY <1>4 DEF IsSequence

(* ... with one more at the end, ... *)
LEMMA AppendedIsLast ==
  ASSUME NEW s, NEW e, IsSequence(s)
  PROVE  /\ IsSequence(Append(s, e)) /\ Len(Append(s, e)) = Len(s) + 1
         /\ \A i \in 1..Len(s) : Append(s, e)[i] = s[i]
         /\ Append(s, e)[Len(s) + 1] = e
<1>1. PICK S : s \in Seq(S)
  BY DEF IsSequence
<1>2. s \in Seq(S \cup {e})
  BY <1>1, SequenceGrows
<1>3. e \in S \cup {e} /\ Len(s) \in Nat
  BY <1>1, LenProperties
<1>4. /\ Append(s, e) \in Seq(S \cup {e}) /\ Len(Append(s, e)) = Len(s) + 1
      /\ \A i \in 1..Len(s) : Append(s, e)[i] = s[i]
      /\ Append(s, e)[Len(s) + 1] = e
  BY <1>2, <1>3, AppendProperties
<1> QED
  BY <1>4 DEF IsSequence

(* ... or the first of them. *)
LEMMA FirstAre ==
  ASSUME NEW s, IsSequence(s), NEW m \in 0..Len(s)
  PROVE  /\ IsSequence(SubSeq(s, 1, m)) /\ Len(SubSeq(s, 1, m)) = m
         /\ \A i \in 1..m : SubSeq(s, 1, m)[i] = s[i]
<1>1. PICK S : s \in Seq(S)
  BY DEF IsSequence
<1>2. SubSeq(s, 1, m) \in Seq(S) /\ IsPart(SubSeq(s, 1, m), s, 0, m)
  BY <1>1, PartsAre
<1>3. \A i \in 1..m : 0 + i = i
  OBVIOUS
<1> QED
  BY <1>2, <1>3 DEF IsPart, IsSequence

(* Two with the same elements are one. *)
LEMMA SameElements ==
  ASSUME NEW s, NEW t, IsSequence(s), IsSequence(t), Len(s) = Len(t),
         \A i \in 1..Len(s) : s[i] = t[i]
  PROVE  s = t
<1>1. PICK S : s \in Seq(S)
  BY DEF IsSequence
<1>2. PICK T : t \in Seq(T)
  BY DEF IsSequence
<1>3. s \in [1..Len(s) -> S] /\ t \in [1..Len(s) -> T]
  <2>1. t \in [1..Len(t) -> T]
    BY <1>2, LenProperties
  <2>2. s \in [1..Len(s) -> S]
    BY <1>1, LenProperties
  <2> QED
    BY <2>1, <2>2
<1> QED
  BY <1>3

\* What a frame's places are.
Places(n) == IF IsLeaf(n) THEN n.keys ELSE n.kids

\* A frame stands in a search tree.
FrameOK(frame, a, b, f) ==
    /\ \E g \in Levels : SearchTree(frame.node, a, b, g, f)
    /\ frame.slot \in Nat /\ 1 <= frame.slot /\ frame.slot <= Len(Places(frame.node)) + 1

\* The bound of what is behind a frame of an internal node.
Reached(frame, a, b) == Bound(frame.node.keys, a, b, frame.slot - 1)

\* Frames of internal nodes, each behind it what is on the stack above.
Inside(stack, lo, hi, f) ==
    \A d \in 1..Len(stack) :
        /\ FrameOK(stack[d], lo[d], hi[d], f)
        /\ d < Len(stack) => /\ ~IsLeaf(stack[d].node)
                             /\ hi[d+1] = Reached(stack[d], lo[d], hi[d])

\* A frame of a leaf at its first key that is not below x.
LeafAt(frame, a, b, x) ==
    /\ IsLeaf(frame.node) /\ x \in Nat /\ a <= x /\ x <= b
    /\ \A i \in 1..Len(frame.node.keys) : i < frame.slot => frame.node.keys[i] < x
    /\ \A i \in 1..Len(frame.node.keys) : frame.slot <= i => x <= frame.node.keys[i]

\* A stack whose next key is the first one that is not below x.
Stands(stack, lo, hi, x, f) ==
    /\ IsSequence(stack) /\ Len(stack) # 0
    /\ Inside(stack, lo, hi, f)
    /\ LeafAt(stack[Len(stack)], lo[Len(stack)], hi[Len(stack)], x)

\* Frames of internal nodes only, the last of which has reached end.
Behind(base, lo, hi, end, f) ==
    /\ IsSequence(base) /\ Len(base) # 0
    /\ Inside(base, lo, hi, f)
    /\ ~IsLeaf(base[Len(base)].node)
    /\ end = Reached(base[Len(base)], lo[Len(base)], hi[Len(base)])

(* A stack on frames of internal nodes that have reached its end. *)
LEMMA StackOn ==
  ASSUME NEW f, NEW base, NEW lo, NEW hi, NEW stack, NEW a, NEW b, NEW x,
         Behind(base, lo, hi, b[1], f), Stands(stack, a, b, x, f)
  PROVE  \E c, d : Stands(base \o stack, c, d, x, f) /\ d[1] = hi[1]
<1> DEFINE L == Len(base)
           M == Len(stack)
           all == base \o stack
           c == [i \in 1..L+M |-> IF i <= L THEN lo[i] ELSE a[i-L]]
           d == [i \in 1..L+M |-> IF i <= L THEN hi[i] ELSE b[i-L]]
<1>1. /\ IsSequence(all) /\ Len(all) = L + M /\ L \in Nat \ {0} /\ M \in Nat \ {0}
      /\ \A i \in 1..L+M : all[i] = IF i <= L THEN base[i] ELSE stack[i - L]
  BY JoinIs, SequenceShape DEF Stands, Behind
<1>2. \A i \in 1..L : i \in 1..L+M /\ all[i] = base[i] /\ c[i] = lo[i] /\ d[i] = hi[i]
  BY <1>1
<1>3. \A i \in 1..M : L+i \in 1..L+M /\ all[L+i] = stack[i] /\ c[L+i] = a[i] /\ d[L+i] = b[i]
  <2> TAKE i \in 1..M
  <2>1. L+i \in 1..L+M /\ ~(L+i <= L) /\ (L+i) - L = i
    BY <1>1
  <2> QED
    BY <1>1, <2>1
<1>4. /\ \A i \in 1..L : FrameOK(base[i], lo[i], hi[i], f)
      /\ \A i \in 1..L : i < L => ~IsLeaf(base[i].node) /\ hi[i+1] = Reached(base[i], lo[i], hi[i])
      /\ \A i \in 1..M : FrameOK(stack[i], a[i], b[i], f)
      /\ \A i \in 1..M : i < M => ~IsLeaf(stack[i].node) /\ b[i+1] = Reached(stack[i], a[i], b[i])
      /\ LeafAt(stack[M], a[M], b[M], x)
      /\ ~IsLeaf(base[L].node) /\ b[1] = Reached(base[L], lo[L], hi[L])
  BY DEF Stands, Inside, Behind
<1> HIDE DEF all, c, d, L, M
<1>5. ASSUME NEW i \in 1..L+M
      PROVE  /\ FrameOK(all[i], c[i], d[i], f)
             /\ i < L+M => ~IsLeaf(all[i].node) /\ d[i+1] = Reached(all[i], c[i], d[i])
  <2>1. CASE i < L
    <3>1. i \in 1..L /\ i + 1 \in 1..L
      BY <1>1, <2>1
    <3> QED
      BY <1>2, <1>4, <2>1, <3>1
  <2>2. CASE i = L
    <3>1. i \in 1..L /\ 1 \in 1..M /\ L + 1 = i + 1
      BY <1>1, <2>2
    <3>2. d[i+1] = b[1]
      BY <1>3, <3>1
    <3> QED
      BY <1>2, <1>4, <2>2, <3>1, <3>2
  <2>3. CASE i > L
    <3>1. PICK j \in 1..M : i = L + j
      <4>1. i - L \in 1..M /\ i = L + (i - L)
        BY <1>1, <2>3
      <4> QED
        BY <4>1
    <3>2. FrameOK(all[i], c[i], d[i], f)
      BY <1>3, <1>4, <3>1
    <3>3. ASSUME i < L + M PROVE ~IsLeaf(all[i].node) /\ d[i+1] = Reached(all[i], c[i], d[i])
      <4>1. j < M /\ j + 1 \in 1..M /\ L + (j + 1) = i + 1
        BY <1>1, <3>1, <3>3
      <4>2. d[i+1] = b[j+1]
        BY <1>3, <4>1
      <4> QED
        BY <1>3, <1>4, <3>1, <4>1, <4>2
    <3> QED
      BY <3>2, <3>3
  <2> QED
    BY <1>1, <2>1, <2>2, <2>3
<1>6. LeafAt(all[L+M], c[L+M], d[L+M], x)
  <2>1. M \in 1..M
    BY <1>1
  <2> QED
    BY <1>3, <1>4, <2>1
<1>7. Stands(all, c, d, x, f)
  BY <1>1, <1>5, <1>6 DEF Stands, Inside
<1>8. d[1] = hi[1]
  <2>1. 1 \in 1..L
    BY <1>1
  <2> QED
    BY <1>2, <2>1
<1> QED
  BY <1>7, <1>8 DEF all

\* The leaf of the way down is m levels below n.
Depth(n, k, m) ==
    /\ m \in Levels /\ IsLeaf(Descent(n, k)[m])
    /\ \A i \in Levels : i < m => ~IsLeaf(Descent(n, k)[i])

\* The frame of a node on the way down.
FrameFor(node, k) ==
    Frame(node, IF IsLeaf(node) THEN SlotFor(node.keys, k) ELSE ResumeAt(ChildFor(node.keys, k)))

(* What descendTo puts on the stack. *)
LEMMA DescendToIs ==
  ASSUME NEW n, NEW k, NEW m, Depth(n, k, m)
  PROVE  /\ IsSequence(DescendTo(n, k)) /\ Len(DescendTo(n, k)) = m + 1 /\ m \in Nat
         /\ \A d \in 1..m+1 : DescendTo(n, k)[d] = FrameFor(Descent(n, k)[d-1], k)
<1> DEFINE way == Descent(n, k)
           leaves == {i \in Levels : IsLeaf(way[i])}
           F(d) == FrameFor(way[d-1], k)
<1>1. Levels \in SUBSET Nat
  BY ConstantsAssumption DEF Levels
<1>2. Min(leaves) = m
  <2>1. leaves \in SUBSET Nat /\ m \in leaves
    BY <1>1 DEF Depth
  <2>2. Min(leaves) \in leaves /\ \A i \in leaves : Min(leaves) <= i
    <3> HIDE DEF leaves
    <3> QED
      BY <2>1, MinIsLeast
  <2>3. ~(Min(leaves) < m)
    BY <2>2 DEF Depth
  <2> QED
    BY <1>1, <2>1, <2>2, <2>3
<1>3. DescendTo(n, k) = [d \in 1..m+1 |-> F(d)]
  <2>1. DescendTo(n, k) = [d \in 1..Min(leaves)+1 |-> F(d)]
    BY DEF DescendTo, FrameFor
  <2> HIDE DEF leaves, F
  <2> QED
    BY <1>2, <2>1
<1>4. m \in Nat
  BY <1>1 DEF Depth
<1>5. [d \in 1..m+1 |-> F(d)] \in Seq({F(d) : d \in 1..m+1})
  <2> HIDE DEF F
  <2>1. [d \in 1..m+1 |-> F(d)] \in [1..m+1 -> {F(d) : d \in 1..m+1}]
    OBVIOUS
  <2>2. m + 1 \in Nat
    BY <1>4
  <2> QED
    BY <2>1, <2>2, SeqDef
<1>6. Len([d \in 1..m+1 |-> F(d)]) = m + 1
  <2> HIDE DEF F
  <2> QED
    BY <1>4
<1> QED
  BY <1>3, <1>4, <1>5, <1>6 DEF IsSequence

(* A leaf is the end of the way. *)
LEMMA DepthOfLeaf ==
  ASSUME NEW n, IsLeaf(n), NEW k
  PROVE  Depth(n, k, 0)
<1>1. 0 \in Levels /\ \A i \in Levels : ~(i < 0)
  BY ConstantsAssumption DEF Levels
<1> QED
  BY <1>1, DescentIs DEF Depth

(* The way from a node is one step longer than the way from its child. *)
LEMMA DepthOfInner ==
  ASSUME NEW n, ~IsLeaf(n), NEW k, NEW kid, kid = n.kids[ChildFor(n.keys, k)],
         NEW m, Depth(kid, k, m), m + 1 \in Levels
  PROVE  /\ Depth(n, k, m + 1)
         /\ \A i \in 0..m : Descent(n, k)[i+1] = Descent(kid, k)[i]
<1>1. Levels = 0..MaxHeight-1 /\ MaxHeight \in Nat \ {0} /\ m \in Nat
  BY ConstantsAssumption DEF Levels, Depth
<1>2. Below(n, k) = kid
  BY DEF Below
<1>3. \A i \in Nat : i + 1 \in Levels => Descent(n, k)[i+1] = Descent(kid, k)[i]
  BY <1>2, DescentBelow
<1>4. /\ m \in Levels /\ IsLeaf(Descent(kid, k)[m])
      /\ \A i \in Levels : i < m => ~IsLeaf(Descent(kid, k)[i])
  BY DEF Depth
<1>5. \A i \in 0..m : i \in Nat /\ i + 1 \in Levels
  BY <1>1
<1>6. ASSUME NEW i \in Levels, i < m + 1 PROVE ~IsLeaf(Descent(n, k)[i])
  <2>1. CASE i = 0
    BY <2>1, DescentIs
  <2>2. CASE i # 0
    <3>1. i - 1 \in Nat /\ (i - 1) + 1 = i /\ i - 1 \in Levels /\ i - 1 < m
      BY <1>1, <1>6, <2>2
    <3>2. Descent(n, k)[i] = Descent(kid, k)[i-1]
      BY <1>3, <3>1
    <3> QED
      BY <1>4, <3>1, <3>2
  <2> QED
    BY <2>1, <2>2
<1>7. IsLeaf(Descent(n, k)[m+1])
  BY <1>1, <1>3, <1>4
<1> QED
  BY <1>3, <1>5, <1>6, <1>7 DEF Depth

(* So its frames are the node's and then the child's. *)
LEMMA DescendToChild ==
  ASSUME NEW n, ~IsLeaf(n), NEW k, NEW kid, kid = n.kids[ChildFor(n.keys, k)],
         NEW m, Depth(kid, k, m), m + 1 \in Levels
  PROVE  DescendTo(n, k) = <<FrameFor(n, k)>> \o DescendTo(kid, k)
<1> DEFINE one == <<FrameFor(n, k)>>
           more == DescendTo(kid, k)
           all == DescendTo(n, k)
<1>1. /\ Depth(n, k, m + 1)
      /\ \A i \in 0..m : Descent(n, k)[i+1] = Descent(kid, k)[i]
  BY DepthOfInner
<1>2. /\ IsSequence(more) /\ Len(more) = m + 1 /\ m \in Nat
      /\ \A d \in 1..m+1 : more[d] = FrameFor(Descent(kid, k)[d-1], k)
  BY DescendToIs
<1>3. /\ IsSequence(all) /\ Len(all) = (m + 1) + 1
      /\ \A d \in 1..(m+1)+1 : all[d] = FrameFor(Descent(n, k)[d-1], k)
  BY <1>1, DescendToIs
<1>4. IsSequence(one) /\ Len(one) = 1 /\ one[1] = FrameFor(n, k)
  <2>1. one \in Seq({FrameFor(n, k)})
    OBVIOUS
  <2> QED
    BY <2>1 DEF IsSequence
<1> HIDE DEF one, more, all
<1>5. /\ IsSequence(one \o more) /\ Len(one \o more) = Len(one) + Len(more)
      /\ \A i \in 1..Len(one)+Len(more) :
            (one \o more)[i] = IF i <= Len(one) THEN one[i] ELSE more[i - Len(one)]
  BY <1>2, <1>4, JoinIs
<1>6. Len(one) + Len(more) = Len(all)
  BY <1>2, <1>3, <1>4
<1>7. ASSUME NEW i \in 1..Len(all) PROVE all[i] = (one \o more)[i]
  <2>1. CASE i = 1
    <3>1. all[1] = FrameFor(Descent(n, k)[0], k)
      BY <1>2, <1>3
    <3>2. Descent(n, k)[0] = n
      BY DescentIs
    <3>3. (one \o more)[1] = one[1]
      BY <1>2, <1>3, <1>4, <1>5
    <3> QED
      BY <1>4, <2>1, <3>1, <3>2, <3>3
  <2>2. CASE i # 1
    <3> DEFINE j == i - 1
    <3>1. j \in 1..m+1 /\ j - 1 \in 0..m /\ i = j + 1 /\ (j - 1) + 1 = j /\ ~(i <= 1)
          /\ i \in 1..(m+1)+1 /\ i - 1 = j
      BY <1>2, <1>3, <2>2
    <3> HIDE DEF j
    <3>2. all[i] = FrameFor(Descent(n, k)[j], k)
      BY <1>3, <3>1
    <3>3. Descent(n, k)[j] = Descent(kid, k)[j-1]
      BY <1>1, <3>1
    <3>4. (one \o more)[i] = more[j]
      BY <1>4, <1>5, <1>6, <3>1
    <3> QED
      BY <1>2, <3>1, <3>2, <3>3, <3>4
  <2> QED
    BY <2>1, <2>2
<1>8. all = one \o more
  BY <1>3, <1>5, <1>6, <1>7, SameElements
<1> QED
  BY <1>8 DEF all, one, more

\* What a descent leads to: k is x, or below all keys from x on.
LeadsTo(k, x, lo, hi) == (k = x \/ (k = Start /\ x = lo)) /\ lo <= x /\ x < hi /\ k \in Nat

(* A descent in a search tree stands at the first key that is not below x. *)
LEMMA DescendToStands ==
  ASSUME NEW f, NEW t \in Nat
  PROVE  \A n, lo, hi, k, x :
            t \in Levels /\ SearchTree(n, lo, hi, t, f) /\ LeadsTo(k, x, lo, hi) =>
               /\ \E m \in 0..t : Depth(n, k, m)
               /\ \E a, b : Stands(DescendTo(n, k), a, b, x, f) /\ b[1] = hi
               /\ k = Start => HasMore(DescendTo(n, k)[Len(DescendTo(n, k))])
<1> DEFINE Good(n, lo, hi, k, x, h) ==
               /\ \E m \in 0..h : Depth(n, k, m)
               /\ \E a, b : Stands(DescendTo(n, k), a, b, x, f) /\ b[1] = hi
               /\ k = Start => HasMore(DescendTo(n, k)[Len(DescendTo(n, k))])
           S == {h \in Nat : \A n, lo, hi, k, x :
                    h \in Levels /\ SearchTree(n, lo, hi, h, f) /\ LeadsTo(k, x, lo, hi)
                       => Good(n, lo, hi, k, x, h)}
<1>0. Levels = 0..MaxHeight-1 /\ MaxHeight \in Nat \ {0}
  BY ConstantsAssumption DEF Levels
<1>1. ASSUME NEW h \in Nat, h \in Levels, NEW n, NEW lo, NEW hi, NEW k, NEW x,
             SearchTree(n, lo, hi, h, f), LeadsTo(k, x, lo, hi), LeafOK(n, lo, hi, f)
      PROVE  Good(n, lo, hi, k, x, h)
  <2> DEFINE s == SlotFor(n.keys, k)
             st == DescendTo(n, k)
             L == Len(n.keys)
  <2>1. IsLeaf(n) /\ n.keys \in Seq(Nat) /\ Ascending(n.keys) /\ L # 0
        /\ \A i \in 1..L : lo <= n.keys[i] /\ n.keys[i] < hi
    BY <1>1 DEF LeafOK, LeafShape
  <2>2. Depth(n, k, 0)
    BY <2>1, DepthOfLeaf
  <2>3. /\ IsSequence(st) /\ Len(st) = 0 + 1
        /\ \A d \in 1..0+1 : st[d] = FrameFor(Descent(n, k)[d-1], k)
    BY <2>2, DescendToIs
  <2>4. Len(st) = 1 /\ st[1] = Frame(n, s)
    <3>1. st[1] = FrameFor(Descent(n, k)[0], k)
      BY <2>3
    <3>2. Descent(n, k)[0] = n
      BY DescentIs
    <3> QED
      BY <2>1, <2>3, <3>1, <3>2 DEF FrameFor
  <2>5. st[1].node = n /\ st[1].slot = s
    BY <2>4 DEF Frame
  <2>6. /\ k \in Nat /\ lo \in Nat /\ hi \in Nat /\ lo <= x /\ x < hi /\ x \in Nat
        /\ k = x \/ (k = 0 /\ x = lo)
    BY <1>1, TreeIs DEF LeadsTo, IsBounds, Start
  <2>7. /\ s \in 1..L+1 /\ L \in Nat
        /\ \A i \in 1..L : i < s => n.keys[i] < k
        /\ \A i \in 1..L : s <= i => k <= n.keys[i]
        /\ \A i \in 1..L : n.keys[i] \in Nat
    BY <2>1, <2>6, SlotForIs, LenProperties, ElementOfSeq
  <2> HIDE DEF s, st, L
  <2>8. \A i \in 1..L : (i < s => n.keys[i] < x) /\ (s <= i => x <= n.keys[i])
    BY <2>1, <2>6, <2>7
  <2>9. LeafAt(st[1], lo, hi, x)
    BY <2>1, <2>5, <2>6, <2>8 DEF LeafAt, L
  <2>10. FrameOK(st[1], lo, hi, f)
    BY <1>1, <2>1, <2>5, <2>7 DEF FrameOK, Places, L
  <2>11. Stands(st, [i \in 1..1 |-> lo], [i \in 1..1 |-> hi], x, f)
    <3> DEFINE a == [i \in 1..1 |-> lo]
               b == [i \in 1..1 |-> hi]
    <3>1. a[1] = lo /\ b[1] = hi /\ \A d \in 1..1 : d = 1 /\ ~(d < 1)
      OBVIOUS
    <3> HIDE DEF a, b
    <3>2. Stands(st, a, b, x, f)
      BY <2>3, <2>4, <2>9, <2>10, <3>1 DEF Stands, Inside
    <3> QED
      BY <3>2 DEF a, b
  <2>12. \E a, b : Stands(st, a, b, x, f) /\ b[1] = hi
    <3>1. [i \in 1..1 |-> hi][1] = hi
      OBVIOUS
    <3> QED
      BY <2>11, <3>1
  <2>13. k = Start => HasMore(st[Len(st)])
    <3> SUFFICES ASSUME k = 0 PROVE HasMore(st[1])
      BY <2>4 DEF Start
    <3>1. ~(1 < s)
      BY <2>1, <2>7
    <3>2. s <= L
      BY <2>1, <2>7, <3>1
    <3> QED
      BY <2>1, <2>5, <3>2 DEF HasMore, L
  <2>14. 0 \in 0..h
    BY <1>1
  <2> QED
    BY <2>2, <2>12, <2>13, <2>14 DEF st
<1>2. ASSUME NEW h \in S, h + 1 \in Levels, NEW n, NEW lo, NEW hi, NEW k, NEW x,
             SearchTree(n, lo, hi, h + 1, f), LeadsTo(k, x, lo, hi),
             InnerOK(n, lo, hi), KidsAre(n, lo, hi, h, f)
      PROVE  Good(n, lo, hi, k, x, h + 1)
  <2> DEFINE c == ChildFor(n.keys, k)
             kid == n.kids[c]
             B(i) == Bound(n.keys, lo, hi, i)
             fr == FrameFor(n, k)
  <2>1. /\ k \in Nat /\ lo \in Nat /\ hi \in Nat /\ lo <= x /\ x < hi /\ x \in Nat
        /\ k = x \/ (k = 0 /\ x = lo)
        /\ IsBounds(lo, hi) /\ InnerShape(n, lo, hi) /\ ~IsLeaf(n)
    BY <1>2, TreeIs DEF LeadsTo, IsBounds, Start, InnerOK, InnerShape
  <2>2. c \in 1..Len(n.kids) /\ B(c-1) <= x /\ x < B(c) /\ (k = x \/ (k = 0 /\ x = B(c-1)))
    <3>1. CASE k = x
      BY <2>1, <3>1, ChildForBound
    <3>2. CASE k = 0 /\ x = lo
      <4>1. /\ Len(n.keys) \in Nat /\ Len(n.kids) = Len(n.keys) + 1
            /\ B(0) = lo /\ n.keys \in Seq(Nat) /\ Ascending(n.keys)
            /\ \A i, j \in 0..Len(n.kids) : i < j => B(i) < B(j)
        BY <2>1, KidBounds DEF InnerShape
      <4>2. \A j \in 1..Len(n.keys) : lo < n.keys[j] /\ n.keys[j] \in Nat
        BY <2>1, ElementOfSeq, LenProperties DEF InnerShape
      <4>3. c = 1
        <5>1. 1 \in 1..Len(n.keys)+1 /\ \A j \in 1..Len(n.keys) : ~(j < 1)
          BY <4>1
        <5>2. \A j \in 1..Len(n.keys) : k < n.keys[j]
          BY <2>1, <3>2, <4>2
        <5> QED
          BY <2>1, <4>1, <5>1, <5>2, ChildForUnique
      <4> HIDE DEF c, B
      <4>4. 0 \in 0..Len(n.kids) /\ 1 \in 0..Len(n.kids) /\ 1 \in 1..Len(n.kids)
        BY <4>1
      <4>5. B(0) < B(1)
        BY <4>1, <4>4
      <4> QED
        BY <2>1, <3>2, <4>1, <4>3, <4>4, <4>5
    <3> QED
      BY <2>1, <3>1, <3>2
  <2>3. SearchTree(kid, B(c-1), B(c), h, f)
    BY <1>2, <2>2 DEF KidsAre
  <2>4. h \in Nat /\ h \in Levels
    BY <1>0, <1>2
  <2>5. LeadsTo(k, x, B(c-1), B(c))
    <3> HIDE DEF B, c
    <3> QED
      BY <2>1, <2>2 DEF LeadsTo, Start
  <2>6. Good(kid, B(c-1), B(c), k, x, h)
    <3> HIDE DEF Good, kid, B, c
    <3> QED
      BY <2>3, <2>4, <2>5
  <2>7. PICK m \in 0..h : Depth(kid, k, m)
    BY <2>6
  <2>8. m + 1 \in Levels /\ m + 1 \in 0..h+1
    BY <1>0, <1>2, <2>4, <2>7
  <2>9. Depth(n, k, m + 1)
    BY <2>1, <2>7, <2>8, DepthOfInner
  <2>10. DescendTo(n, k) = <<fr>> \o DescendTo(kid, k)
    BY <2>1, <2>7, <2>8, DescendToChild
  <2>11. PICK a, b : Stands(DescendTo(kid, k), a, b, x, f) /\ b[1] = B(c)
    BY <2>6
  <2>12. /\ fr.node = n /\ fr.slot = c + 1
    BY <2>1 DEF FrameFor, Frame, ResumeAt
  <2> DEFINE base == <<fr>>
             p == [i \in 1..1 |-> lo]
             q == [i \in 1..1 |-> hi]
  <2>13. IsSequence(base) /\ Len(base) = 1 /\ base[1] = fr
    <3>1. base \in Seq({fr})
      OBVIOUS
    <3> QED
      BY <3>1 DEF IsSequence
  <2>14. /\ p[1] = lo /\ q[1] = hi
    OBVIOUS
  <2>15. FrameOK(fr, lo, hi, f)
    <3>1. c + 1 \in Nat /\ 1 <= c + 1 /\ c + 1 <= Len(n.kids) + 1
      <4>1. Len(n.kids) \in Nat
        BY <2>1, KidBounds
      <4> HIDE DEF c
      <4> QED
        BY <2>2, <4>1
    <3> HIDE DEF fr, c
    <3> QED
      BY <1>2, <2>1, <2>12, <3>1 DEF FrameOK, Places
  <2>16. Reached(fr, lo, hi) = B(c)
    <3>1. (c + 1) - 1 = c
      BY <2>2
    <3> HIDE DEF fr, c
    <3> QED
      BY <2>12, <3>1 DEF Reached
  <2> HIDE DEF base, p, q, fr, B, c, kid
  <2>17. Inside(base, p, q, f) /\ ~IsLeaf(base[Len(base)].node) /\ Len(base) # 0
    <3>1. \A d \in 1..1 : d = 1 /\ ~(d < 1)
      OBVIOUS
    <3>2. FrameOK(base[1], p[1], q[1], f) /\ ~IsLeaf(base[1].node)
      BY <2>1, <2>12, <2>13, <2>14, <2>15
    <3> QED
      BY <2>13, <3>1, <3>2 DEF Inside
  <2>18. Behind(base, p, q, b[1], f)
    BY <2>11, <2>13, <2>14, <2>16, <2>17 DEF Behind
  <2>19. \E a2, b2 : Stands(base \o DescendTo(kid, k), a2, b2, x, f) /\ b2[1] = q[1]
    <3> HIDE DEF Good, S
    <3> QED
      BY <2>11, <2>18, StackOn
  <2>20. DescendTo(n, k) = base \o DescendTo(kid, k)
    BY <2>10 DEF base
  <2>21. k = Start => HasMore(DescendTo(n, k)[Len(DescendTo(n, k))])
    <3> DEFINE st == DescendTo(kid, k)
    <3>1. IsSequence(st) /\ Len(st) \in Nat /\ Len(st) # 0
      BY <2>11, SequenceShape DEF Stands
    <3> HIDE DEF st
    <3>2. /\ Len(base \o st) = 1 + Len(st)
          /\ (base \o st)[1 + Len(st)] = st[Len(st)]
      <4>1. 1 + Len(st) \in 1..1+Len(st) /\ ~(1 + Len(st) <= 1) /\ (1 + Len(st)) - 1 = Len(st)
        BY <3>1
      <4>2. /\ Len(base \o st) = Len(base) + Len(st)
            /\ \A i \in 1..Len(base)+Len(st) :
                  (base \o st)[i] = IF i <= Len(base) THEN base[i] ELSE st[i - Len(base)]
        BY <2>13, <3>1, JoinIs
      <4>3. \A i \in 1..1+Len(st) : (base \o st)[i] = IF i <= 1 THEN base[i] ELSE st[i - 1]
        BY <2>13, <4>2
      <4> QED
        BY <2>13, <4>1, <4>2, <4>3
    <3> QED
      BY <2>6, <2>20, <3>2 DEF st
  <2> QED
    BY <2>8, <2>9, <2>14, <2>19, <2>20, <2>21
<1>3. ASSUME NEW h \in Nat, h \in Levels, NEW n, NEW lo, NEW hi, NEW k, NEW x,
             SearchTree(n, lo, hi, h, f), LeadsTo(k, x, lo, hi), h # 0 => h - 1 \in S
      PROVE  Good(n, lo, hi, k, x, h)
  <2>1. \/ LeafOK(n, lo, hi, f)
        \/ InnerOK(n, lo, hi) /\ h # 0 /\ h - 1 \in Nat /\ KidsAre(n, lo, hi, h-1, f)
    BY <1>3, TreeIs
  <2>2. CASE LeafOK(n, lo, hi, f)
    <3> HIDE DEF Good
    <3> QED
      BY <1>1, <1>3, <2>2
  <2>3. CASE InnerOK(n, lo, hi) /\ h # 0 /\ KidsAre(n, lo, hi, h-1, f)
    <3> DEFINE g == h - 1
    <3>1. g \in S /\ g + 1 = h /\ h - 1 = g
      BY <1>3, <2>3
    <3> HIDE DEF Good, S, g
    <3> QED
      BY <1>2, <1>3, <2>3, <3>1
  <2> QED
    BY <2>1, <2>2, <2>3
<1>4. 0 \in S
  <2> HIDE DEF Good
  <2> QED
    BY <1>3
<1>5. ASSUME NEW h \in S PROVE h + 1 \in S
  <2>1. h + 1 \in Nat /\ h + 1 # 0 /\ (h + 1) - 1 = h /\ h \in S
    OBVIOUS
  <2>2. ASSUME NEW n, NEW lo, NEW hi, NEW k, NEW x,
               h + 1 \in Levels, SearchTree(n, lo, hi, h + 1, f), LeadsTo(k, x, lo, hi)
        PROVE  Good(n, lo, hi, k, x, h + 1)
    <3> HIDE DEF Good, S
    <3> QED
      BY <1>3, <2>1, <2>2
  <2> HIDE DEF Good
  <2> QED
    BY <2>1, <2>2
<1>6. S = Nat
  <2> HIDE DEF S
  <2>1. S \in SUBSET Nat
    BY DEF S
  <2> QED
    BY <1>4, <1>5, <2>1, Induction
<1>7. t \in S
  BY <1>6
<1> HIDE DEF Good
<1>8. \A n, lo, hi, k, x :
         t \in Levels /\ SearchTree(n, lo, hi, t, f) /\ LeadsTo(k, x, lo, hi) => Good(n, lo, hi, k, x, t)
  BY <1>7
<1> QED
  BY <1>8 DEF Good

(* The frame on top of a stack that goes on in another one. *)
LEMMA LastOfJoined ==
  ASSUME NEW base, NEW st, IsSequence(base), IsSequence(st), Len(st) # 0
  PROVE  /\ IsSequence(base \o st) /\ Len(base \o st) # 0
         /\ (base \o st)[Len(base \o st)] = st[Len(st)]
<1>1. Len(base) \in Nat /\ Len(st) \in Nat
  BY SequenceShape
<1>2. /\ IsSequence(base \o st) /\ Len(base \o st) = Len(base) + Len(st)
      /\ \A i \in 1..Len(base)+Len(st) :
            (base \o st)[i] = IF i <= Len(base) THEN base[i] ELSE st[i - Len(base)]
  BY JoinIs
<1> DEFINE m == Len(base) + Len(st)
<1>3. m \in 1..m /\ ~(m <= Len(base)) /\ m - Len(base) = Len(st) /\ m # 0
  BY <1>1
<1> QED
  BY <1>2, <1>3

(* A stack cut off above a frame, and that frame in a place of its own. *)
LEMMA FrameReplaced ==
  ASSUME NEW f, NEW stack, NEW lo, NEW hi, IsSequence(stack), Inside(stack, lo, hi, f),
         NEW e \in 1..Len(stack), NEW frame, FrameOK(frame, lo[e], hi[e], f)
  PROVE  LET rest == Append(SubSeq(stack, 1, e - 1), frame) IN
         IsSequence(rest) /\ Len(rest) = e /\ rest[e] = frame /\ Inside(rest, lo, hi, f)
<1> DEFINE part == SubSeq(stack, 1, e - 1)
           rest == Append(part, frame)
<1>1. Len(stack) \in Nat /\ e - 1 \in 0..Len(stack) /\ (e - 1) + 1 = e /\ e \in Nat
  BY SequenceShape
<1>2. /\ IsSequence(part) /\ Len(part) = e - 1
      /\ \A i \in 1..e-1 : part[i] = stack[i]
  BY <1>1, FirstAre
<1> HIDE DEF part
<1>3. /\ IsSequence(rest) /\ Len(rest) = Len(part) + 1
      /\ \A i \in 1..Len(part) : rest[i] = part[i]
      /\ rest[Len(part) + 1] = frame
  BY <1>2, AppendedIsLast
<1> HIDE DEF rest
<1>4. /\ Len(rest) = e /\ rest[e] = frame
      /\ \A i \in 1..e-1 : rest[i] = stack[i]
  BY <1>1, <1>2, <1>3
<1>5. ASSUME NEW d \in 1..e
      PROVE  /\ FrameOK(rest[d], lo[d], hi[d], f)
             /\ d < e => ~IsLeaf(rest[d].node) /\ hi[d+1] = Reached(rest[d], lo[d], hi[d])
  <2>1. CASE d = e
    BY <1>1, <1>4, <2>1
  <2>2. CASE d # e
    <3>1. d \in 1..e-1 /\ d \in 1..Len(stack) /\ d < Len(stack)
      BY <1>1, <2>2
    <3> QED
      BY <1>4, <3>1 DEF Inside
  <2> QED
    BY <2>1, <2>2
<1> QED
  BY <1>3, <1>4, <1>5 DEF Inside, rest, part

(* Where frames have no more, their bound is reached and no key is left. *)
LEMMA Exhausted ==
  ASSUME NEW f, NEW stack, NEW lo, NEW hi, NEW x, Stands(stack, lo, hi, x, f),
         NEW e \in 1..Len(stack), \A d \in e..Len(stack) : ~HasMore(stack[d])
  PROVE  /\ hi[e] = hi[Len(stack)]
         /\ \A j \in Nat : x <= j /\ j < hi[e] => f[j] = Missing
<1> DEFINE L == Len(stack)
           S == {m \in Nat : e + m <= L => hi[e+m] = hi[e]}
<1>1. L \in Nat /\ e \in Nat /\ 1 <= e /\ e <= L
  BY SequenceShape DEF Stands
<1>2. \A d \in 1..L : FrameOK(stack[d], lo[d], hi[d], f)
                      /\ (d < L => ~IsLeaf(stack[d].node) /\ hi[d+1] = Reached(stack[d], lo[d], hi[d]))
  BY DEF Stands, Inside
<1>3. LeafAt(stack[L], lo[L], hi[L], x)
  BY DEF Stands
<1> HIDE DEF L
<1>4. 0 \in S
  <2>1. e + 0 = e
    BY <1>1
  <2> QED
    BY <2>1
<1>5. ASSUME NEW m \in S PROVE m + 1 \in S
  <2> SUFFICES ASSUME e + (m + 1) <= L PROVE hi[e+(m+1)] = hi[e]
    OBVIOUS
  <2> DEFINE d == e + m
  <2>1. d \in 1..L /\ d < L /\ d \in e..L /\ e + (m + 1) = d + 1 /\ d <= L
    BY <1>1
  <2>2. hi[d] = hi[e]
    BY <2>1
  <2> HIDE DEF d
  <2>3. /\ FrameOK(stack[d], lo[d], hi[d], f) /\ ~IsLeaf(stack[d].node)
        /\ hi[d+1] = Reached(stack[d], lo[d], hi[d]) /\ ~HasMore(stack[d])
    BY <1>2, <2>1 DEF L
  <2> DEFINE n == stack[d].node
             s == stack[d].slot
  <2>4. PICK g \in Levels : SearchTree(n, lo[d], hi[d], g, f)
    BY <2>3 DEF FrameOK
  <2>5. IsBounds(lo[d], hi[d]) /\ InnerShape(n, lo[d], hi[d])
    BY <2>3, <2>4, TreeIs DEF LeafOK, LeafShape, InnerOK
  <2>6. /\ Len(n.keys) \in Nat /\ Len(n.kids) \in Nat
        /\ Bound(n.keys, lo[d], hi[d], Len(n.kids)) = hi[d]
    BY <2>5, KidBounds
  <2>7. s \in Nat /\ s <= Len(n.kids) + 1 /\ ~(s <= Len(n.kids))
    BY <2>3 DEF FrameOK, Places, HasMore
  <2> HIDE DEF n, s
  <2>8. s - 1 = Len(n.kids)
    BY <2>6, <2>7
  <2>9. Reached(stack[d], lo[d], hi[d]) = hi[d]
    BY <2>6, <2>8 DEF Reached, n, s
  <2> QED
    BY <2>1, <2>2, <2>3, <2>9
<1>6. S = Nat
  <2>1. S \in SUBSET Nat
    OBVIOUS
  <2> HIDE DEF S
  <2> QED
    BY <1>4, <1>5, <2>1, Induction
<1>7. hi[e] = hi[L]
  <2>1. L - e \in Nat /\ e + (L - e) = L /\ L <= L
    BY <1>1
  <2>2. L - e \in S
    BY <1>6, <2>1
  <2> QED
    BY <2>1, <2>2
<1>8. ASSUME NEW j \in Nat, x <= j, j < hi[e], f[j] # Missing PROVE FALSE
  <2> DEFINE n == stack[L].node
             s == stack[L].slot
  <2>1. /\ IsLeaf(n) /\ x \in Nat /\ lo[L] <= x /\ x <= hi[L]
        /\ \A i \in 1..Len(n.keys) : i < s => n.keys[i] < x
    BY <1>3 DEF LeafAt
  <2>2. FrameOK(stack[L], lo[L], hi[L], f) /\ ~HasMore(stack[L])
    BY <1>1, <1>2 DEF L
  <2>3. PICK g \in Levels : SearchTree(n, lo[L], hi[L], g, f)
    BY <2>2 DEF FrameOK
  <2>4. IsBounds(lo[L], hi[L]) /\ LeafShape(n, lo[L], hi[L], f)
    BY <2>1, <2>3, TreeIs DEF LeafOK, InnerShape, InnerOK
  <2>5. ~(s <= Len(n.keys)) /\ s \in Nat
    BY <2>1, <2>2 DEF HasMore, FrameOK
  <2>6. Len(n.keys) \in Nat /\ lo[L] \in Nat /\ hi[L] \in Nat /\ \A i \in 1..Len(n.keys) : n.keys[i] \in Nat
    BY <2>4, LenProperties, ElementOfSeq DEF LeafShape, IsBounds
  <2> HIDE DEF n, s
  <2>7. lo[L] <= j /\ j < hi[L]
    BY <1>7, <1>8, <2>1, <2>6
  <2>8. PICK i \in 1..Len(n.keys) : n.keys[i] = j
    BY <1>8, <2>4, <2>7 DEF LeafShape
  <2>9. i < s
    BY <2>5, <2>6
  <2>10. j < x
    BY <2>1, <2>8, <2>9
  <2> QED
    BY <1>8, <2>1, <2>10
<1> QED
  BY <1>7, <1>8 DEF L

\* The entries of f from k to below b, in ascending order.
Given(out, k, b, f) ==
    /\ IsSequence(out) /\ Len(out) < b
    /\ \A i, j \in 1..Len(out) : i < j => out[i][1] < out[j][1]
    /\ \A i \in 1..Len(out) : \E j \in Nat : out[i] = <<j, f[j]>> /\ k <= j /\ j < b /\ f[j] # Missing
    /\ \A j \in Nat : k <= j /\ j < b /\ f[j] # Missing => \E i \in 1..Len(out) : out[i] = <<j, f[j]>>

(* The same entries as far as the next one there is. *)
LEMMA GivenUpTo ==
  ASSUME NEW out, NEW k, NEW x \in Nat, NEW y \in Nat, NEW f, Given(out, k, x, f), x <= y,
         \A j \in Nat : x <= j /\ j < y => f[j] = Missing
  PROVE  Given(out, k, y, f)
<1>1. Len(out) \in Nat
  BY SequenceShape DEF Given
<1>2. IsSequence(out) /\ Len(out) < y
  BY <1>1 DEF Given
<1>3. ASSUME NEW i \in 1..Len(out)
      PROVE  \E j \in Nat : out[i] = <<j, f[j]>> /\ k <= j /\ j < y /\ f[j] # Missing
  <2>1. PICK j \in Nat : out[i] = <<j, f[j]>> /\ k <= j /\ j < x /\ f[j] # Missing
    BY DEF Given
  <2>2. j < y
    BY <2>1
  <2> QED
    BY <2>1, <2>2
<1>4. ASSUME NEW j \in Nat, k <= j, j < y, f[j] # Missing
      PROVE  \E i \in 1..Len(out) : out[i] = <<j, f[j]>>
  <2>1. j < x
    BY <1>4
  <2> QED
    BY <1>4, <2>1 DEF Given
<1> QED
  BY <1>2, <1>3, <1>4 DEF Given

(* One more entry, the next one there is. *)
LEMMA GivenOneMore ==
  ASSUME NEW out, NEW k \in Nat, NEW x \in Nat, NEW y \in Nat, NEW f, Given(out, k, x, f),
         k <= x, x <= y, f[y] # Missing,
         \A j \in Nat : x <= j /\ j < y => f[j] = Missing
  PROVE  Given(Append(out, <<y, f[y]>>), k, y + 1, f)
<1> DEFINE e == <<y, f[y]>>
           L == Len(out)
           new == Append(out, e)
<1>1. Given(out, k, y, f)
  BY GivenUpTo
<1>2. /\ IsSequence(out) /\ L < y
      /\ \A i, j \in 1..L : i < j => out[i][1] < out[j][1]
      /\ \A i \in 1..L : \E j \in Nat : out[i] = <<j, f[j]>> /\ k <= j /\ j < y /\ f[j] # Missing
      /\ \A j \in Nat : k <= j /\ j < y /\ f[j] # Missing => \E i \in 1..L : out[i] = <<j, f[j]>>
  BY <1>1 DEF Given
<1>3. L \in Nat
  BY <1>2, SequenceShape
<1>4. /\ IsSequence(new) /\ Len(new) = L + 1
      /\ \A i \in 1..L : new[i] = out[i]
      /\ new[L+1] = e
  BY <1>2, AppendedIsLast
<1>5. e = <<y, f[y]>> /\ e[1] = y
  OBVIOUS
<1> HIDE DEF e, L, new
<1>6. \A i \in 1..L : out[i][1] < y
  <2> TAKE i \in 1..L
  <2>1. PICK j \in Nat : out[i] = <<j, f[j]>> /\ j < y
    BY <1>2
  <2> QED
    BY <2>1
<1>7. ASSUME NEW i \in 1..L+1, NEW j \in 1..L+1, i < j PROVE new[i][1] < new[j][1]
  <2>1. i \in 1..L
    BY <1>3, <1>7
  <2>2. CASE j = L+1
    BY <1>4, <1>5, <1>6, <2>1, <2>2
  <2>3. CASE j # L+1
    <3>1. j \in 1..L
      BY <1>3, <2>3
    <3> QED
      BY <1>2, <1>4, <1>7, <2>1, <3>1
  <2> QED
    BY <2>2, <2>3
<1>8. ASSUME NEW i \in 1..L+1
      PROVE  \E j \in Nat : new[i] = <<j, f[j]>> /\ k <= j /\ j < y+1 /\ f[j] # Missing
  <2>1. CASE i = L+1
    <3>1. new[i] = <<y, f[y]>> /\ k <= y /\ y < y+1
      BY <1>4, <1>5, <2>1
    <3> QED
      BY <3>1
  <2>2. CASE i # L+1
    <3>1. i \in 1..L
      BY <1>3, <2>2
    <3>2. PICK j \in Nat : out[i] = <<j, f[j]>> /\ k <= j /\ j < y /\ f[j] # Missing
      BY <1>2, <3>1
    <3>3. j < y+1
      BY <3>2
    <3> QED
      BY <1>4, <3>1, <3>2, <3>3
  <2> QED
    BY <2>1, <2>2
<1>9. ASSUME NEW j \in Nat, k <= j, j < y+1, f[j] # Missing
      PROVE  \E i \in 1..L+1 : new[i] = <<j, f[j]>>
  <2>1. CASE j = y
    <3>1. L+1 \in 1..L+1
      BY <1>3
    <3> QED
      BY <1>4, <1>5, <2>1, <3>1
  <2>2. CASE j # y
    <3>1. j < y
      BY <1>9, <2>2
    <3>2. PICK i \in 1..L : out[i] = <<j, f[j]>>
      BY <1>2, <1>9, <3>1
    <3>3. i \in 1..L+1
      BY <1>3
    <3> QED
      BY <1>4, <3>2, <3>3
  <2> QED
    BY <2>1, <2>2
<1>10. L + 1 < y + 1
  BY <1>2, <1>3
<1>11. Given(new, k, y + 1, f)
  BY <1>4, <1>7, <1>8, <1>9, <1>10 DEF Given
<1> QED
  BY <1>11 DEF new, e

\* An iteration from k on after r rounds, with x its next key.
OnAt(it, k, x, lo, hi, r, f) ==
    /\ Stands(it.stack, lo, hi, x, f) /\ hi[1] = NumKeys + 1
    /\ k <= x /\ Given(it.out, k, x, f)
    /\ r <= 2 * Len(it.out) + (IF HasMore(it.stack[Len(it.stack)]) THEN 1 ELSE 0)

Onward(it, k, r, f) == \E x, lo, hi : OnAt(it, k, x, lo, hi, r, f)
Ended(it, k, f) == it.stack = <<>> /\ Given(it.out, k, NumKeys + 1, f)

\* The frames that have more.
More(stack) == {d \in DOMAIN stack : HasMore(stack[d])}

(* The leaf on top and the key it stands at. *)
LEMMA TopLeaf ==
  ASSUME NEW f, NEW stack, NEW lo, NEW hi, NEW x, Stands(stack, lo, hi, x, f)
  PROVE  LET L == Len(stack)
             n == stack[L].node
             s == stack[L].slot
         IN /\ L \in Nat \ {0} /\ DOMAIN stack = 1..L
            /\ LeafOK(n, lo[L], hi[L], f) /\ IsBounds(lo[L], hi[L])
            /\ \E g \in Levels : SearchTree(n, lo[L], hi[L], g, f)
            /\ s \in Nat /\ 1 <= s /\ s <= Len(n.keys) + 1 /\ Len(n.keys) \in Nat
            /\ IsLeaf(n) /\ x \in Nat /\ lo[L] <= x /\ x <= hi[L]
            /\ HasMore(stack[L]) <=> s <= Len(n.keys)
            /\ \A i \in 1..Len(n.keys) : n.keys[i] \in Nat /\ (i < s => n.keys[i] < x) /\ (s <= i => x <= n.keys[i])
            /\ s <= Len(n.keys) => /\ x <= n.keys[s] /\ n.keys[s] < hi[L] /\ n.keys[s] \in Keys
                                   /\ f[n.keys[s]] = n.vals[s] /\ n.vals[s] # Missing
<1> DEFINE L == Len(stack)
           n == stack[L].node
           s == stack[L].slot
<1>1. L \in Nat \ {0} /\ DOMAIN stack = 1..L
  BY SequenceShape DEF Stands
<1>2. FrameOK(stack[L], lo[L], hi[L], f) /\ LeafAt(stack[L], lo[L], hi[L], x)
  BY <1>1 DEF Stands, Inside
<1>3. /\ IsLeaf(n) /\ x \in Nat /\ lo[L] <= x /\ x <= hi[L]
      /\ \A i \in 1..Len(n.keys) : (i < s => n.keys[i] < x) /\ (s <= i => x <= n.keys[i])
  BY <1>2 DEF LeafAt
<1>4. PICK g \in Levels : SearchTree(n, lo[L], hi[L], g, f)
  BY <1>2 DEF FrameOK
<1>5. s \in Nat /\ 1 <= s /\ s <= Len(n.keys) + 1
  BY <1>2, <1>3 DEF FrameOK, Places
<1>6. HasMore(stack[L]) <=> s <= Len(n.keys)
  BY <1>3 DEF HasMore
<1> HIDE DEF L, n, s
<1>7. LeafOK(n, lo[L], hi[L], f) /\ IsBounds(lo[L], hi[L])
  BY <1>3, <1>4, TreeIs DEF InnerOK, InnerShape
<1>8. /\ n.keys \in Seq(Nat) /\ Len(n.keys) \in Nat
      /\ \A i \in 1..Len(n.keys) : /\ n.keys[i] \in Nat /\ lo[L] <= n.keys[i] /\ n.keys[i] < hi[L]
                                   /\ n.vals[i] \in Values[n.keys[i]] /\ f[n.keys[i]] = n.vals[i]
  BY <1>7, LenProperties, ElementOfSeq DEF LeafOK, LeafShape
<1>9. ASSUME s <= Len(n.keys)
      PROVE  /\ x <= n.keys[s] /\ n.keys[s] < hi[L] /\ n.keys[s] \in Keys
             /\ f[n.keys[s]] = n.vals[s] /\ n.vals[s] # Missing
  <2>1. s \in 1..Len(n.keys) /\ s <= s
    BY <1>5, <1>8, <1>9
  <2>2. /\ n.keys[s] \in Nat /\ lo[L] <= n.keys[s] /\ n.keys[s] < hi[L]
        /\ n.vals[s] \in Values[n.keys[s]] /\ f[n.keys[s]] = n.vals[s] /\ x <= n.keys[s]
    BY <1>3, <1>8, <2>1
  <2>3. n.keys[s] \in Keys
    <3>1. \A j \in Nat : lo[L] <= j /\ j < hi[L] => j \in Keys
      BY <1>7, ConstantsAssumption DEF Keys, IsBounds
    <3> QED
      BY <2>2, <3>1
  <2>4. n.vals[s] # Missing
    <3>1. Values[n.keys[s]] \in SUBSET (1..LeafCap)
      BY <2>3, ConstantsAssumption DEF Keys
    <3>2. 0 \notin 1..LeafCap
      BY ConstantsAssumption
    <3> QED
      BY <2>2, <3>1, <3>2 DEF Missing
  <2> QED
    BY <2>2, <2>3, <2>4
<1> QED
  BY <1>1, <1>3, <1>4, <1>5, <1>6, <1>7, <1>8, <1>9 DEF L, n, s

(* What a round does whose lowest frame with more is of a leaf ... *)
LEMMA RoundAtLeaf ==
  ASSUME NEW it, NEW e, NEW n, NEW s, More(it.stack) # {}, Max(More(it.stack)) = e,
         it.stack[e].node = n, it.stack[e].slot = s, IsLeaf(n)
  PROVE  Round(it) = [stack |-> Append(SubSeq(it.stack, 1, e - 1), Frame(n, s + 1)),
                      out |-> Append(it.out, <<n.keys[s], n.vals[s]>>)]
BY Zenon DEF Round, More, ResumeAt

(* ... and of an inner node. *)
LEMMA RoundAtInner ==
  ASSUME NEW it, NEW e, NEW n, NEW s, More(it.stack) # {}, Max(More(it.stack)) = e,
         it.stack[e].node = n, it.stack[e].slot = s, ~IsLeaf(n)
  PROVE  Round(it) = [stack |-> Append(SubSeq(it.stack, 1, e - 1), Frame(n, s + 1)) \o DescendTo(n.kids[s], Start),
                      out |-> it.out]
BY Zenon DEF Round, More, ResumeAt, DescendToLeftmost

(* A round from a leaf with more hands out its next entry. *)
LEMMA RoundGives ==
  ASSUME NEW it, NEW k \in Nat \ {0}, NEW r \in Nat, NEW f, NEW x, NEW lo, NEW hi, OnAt(it, k, x, lo, hi, r, f),
         HasMore(it.stack[Len(it.stack)])
  PROVE  Onward(Round(it), k, r + 1, f)
<1> DEFINE stack == it.stack
           L == Len(stack)
           n == stack[L].node
           s == stack[L].slot
           y == n.keys[s]
           frame == Frame(n, s + 1)
           rest == Append(SubSeq(stack, 1, L - 1), frame)
           new == Append(it.out, <<y, f[y]>>)
<1> HIDE DEF y, frame, rest, new
<1>1. /\ Stands(stack, lo, hi, x, f) /\ hi[1] = NumKeys + 1
      /\ k <= x /\ Given(it.out, k, x, f)
      /\ r <= 2 * Len(it.out) + 1 /\ HasMore(stack[L])
  BY DEF OnAt
<1>2. /\ L \in Nat \ {0} /\ DOMAIN stack = 1..L
      /\ LeafOK(n, lo[L], hi[L], f) /\ IsBounds(lo[L], hi[L])
      /\ \E g \in Levels : SearchTree(n, lo[L], hi[L], g, f)
      /\ s \in Nat /\ 1 <= s /\ s <= Len(n.keys) /\ Len(n.keys) \in Nat
      /\ IsLeaf(n) /\ x \in Nat /\ lo[L] <= x /\ x <= hi[L]
      /\ \A i \in 1..Len(n.keys) : n.keys[i] \in Nat /\ (i < s => n.keys[i] < x) /\ (s <= i => x <= n.keys[i])
      /\ x <= y /\ y < hi[L] /\ y \in Keys /\ f[y] = n.vals[s] /\ n.vals[s] # Missing
  BY <1>1, TopLeaf, ZenonT(40) DEF y
<1>3. stack[L].node = n /\ stack[L].slot = s
  OBVIOUS
<1> HIDE DEF n, s
<1>4. Max(More(stack)) = L /\ More(stack) # {}
  <2> HIDE DEF stack, L
  <2>1. More(stack) \in SUBSET Nat /\ L \in More(stack) /\ \A d \in More(stack) : d <= L
    BY <1>1, <1>2 DEF More
  <2>2. Max(More(stack)) \in More(stack) /\ \A d \in More(stack) : d <= Max(More(stack))
    BY <1>2, <2>1, MaxOfBounded
  <2> QED
    BY <1>2, <2>1, <2>2
<1> HIDE DEF L
<1>5. Round(it) = [stack |-> rest, out |-> new]
  <2>1. /\ More(it.stack) # {} /\ Max(More(it.stack)) = L
        /\ it.stack[L].node = n /\ it.stack[L].slot = s /\ IsLeaf(n)
    BY <1>2, <1>3, <1>4
  <2>2. Round(it) = [stack |-> Append(SubSeq(it.stack, 1, L - 1), Frame(n, s + 1)),
                     out |-> Append(it.out, <<n.keys[s], n.vals[s]>>)]
    BY ONLY <2>1, RoundAtLeaf, ZenonT(40)
  <2>3. n.vals[s] = f[y] /\ n.keys[s] = y
    BY <1>2 DEF y
  <2> QED
    BY <2>2, <2>3, Zenon DEF rest, frame, new
<1>6. L \in 1..L /\ L \in 1..Len(stack) /\ IsSequence(stack) /\ Inside(stack, lo, hi, f)
  BY <1>1, <1>2 DEF Stands, L
<1>7. frame.node = n /\ frame.slot = s + 1
  BY DEF Frame, frame
<1>8. y \in Nat /\ y + 1 \in Nat
  BY <1>2, ConstantsAssumption DEF Keys
<1>9. FrameOK(frame, lo[L], hi[L], f)
  BY <1>2, <1>7 DEF FrameOK, Places
<1>10. IsSequence(rest) /\ Len(rest) = L /\ rest[L] = frame /\ Inside(rest, lo, hi, f)
  BY <1>6, <1>9, FrameReplaced DEF rest
<1>11. ASSUME NEW j \in Nat, x <= j, j < y PROVE f[j] = Missing
  <2> SUFFICES ASSUME f[j] # Missing PROVE FALSE
    OBVIOUS
  <2>1. lo[L] \in Nat /\ hi[L] \in Nat
    BY <1>2 DEF IsBounds
  <2>2. lo[L] <= j /\ j < hi[L]
    BY <1>2, <1>8, <1>11, <2>1
  <2>3. PICK i \in 1..Len(n.keys) : n.keys[i] = j
    BY <1>2, <2>2 DEF LeafOK, LeafShape
  <2>4. ~(i < s)
    BY <1>2, <1>11, <2>3
  <2>5. s \in 1..Len(n.keys)
    BY <1>2
  <2>6. s < i => n.keys[s] < n.keys[i]
    BY <1>2, <2>5 DEF LeafOK, LeafShape, Ascending
  <2>7. y <= j
    BY SMTT(30), <1>2, <1>8, <2>3, <2>4, <2>5, <2>6 DEF y
  <2> QED
    BY <1>8, <1>11, <2>7
<1>12. Given(new, k, y + 1, f)
  BY <1>1, <1>2, <1>8, <1>11, GivenOneMore DEF new
<1>13. LeafAt(frame, lo[L], hi[L], y + 1)
  <2>1. lo[L] <= y + 1 /\ y + 1 <= hi[L]
    BY <1>2, <1>8 DEF IsBounds
  <2>2. ASSUME NEW i \in 1..Len(n.keys), i < s + 1 PROVE n.keys[i] < y + 1
    <3>1. s \in 1..Len(n.keys)
      BY <1>2
    <3>2. i < s => n.keys[i] < n.keys[s]
      BY <1>2, <3>1 DEF LeafOK, LeafShape, Ascending
    <3> QED
      BY SMTT(30), <1>2, <1>8, <2>2, <3>2 DEF y
  <2>3. ASSUME NEW i \in 1..Len(n.keys), s + 1 <= i PROVE y + 1 <= n.keys[i]
    <3>1. s \in 1..Len(n.keys) /\ s < i
      BY <1>2, <2>3
    <3>2. n.keys[s] < n.keys[i]
      BY <1>2, <3>1 DEF LeafOK, LeafShape, Ascending
    <3> QED
      BY SMTT(30), <1>2, <1>8, <3>2 DEF y
  <2> QED
    BY <1>2, <1>7, <1>8, <2>1, <2>2, <2>3 DEF LeafAt
<1>14. Stands(rest, lo, hi, y + 1, f)
  BY <1>2, <1>10, <1>13 DEF Stands
<1>15. Len(new) = Len(it.out) + 1 /\ Len(it.out) \in Nat
  <2>1. IsSequence(it.out)
    BY <1>1 DEF Given
  <2> QED
    BY <2>1, AppendedIsLast, SequenceShape DEF new
<1>16. r + 1 <= 2 * Len(new) + (IF HasMore(rest[Len(rest)]) THEN 1 ELSE 0)
  <2>1. r + 1 <= 2 * Len(new)
    BY <1>1, <1>15
  <2>2. CASE HasMore(rest[Len(rest)])
    <3>1. 2 * Len(new) <= 2 * Len(new) + 1
      BY <1>15
    <3> QED
      BY <1>15, <2>1, <2>2, <3>1
  <2>3. CASE ~HasMore(rest[Len(rest)])
    BY <1>15, <2>1, <2>3
  <2> QED
    BY <2>2, <2>3
<1>17. k <= y + 1
  BY <1>1, <1>2, <1>8
<1>18. Round(it).stack = rest /\ Round(it).out = new
  BY <1>5
<1>19. OnAt(Round(it), k, y + 1, lo, hi, r + 1, f)
  BY <1>1, <1>12, <1>14, <1>16, <1>17, <1>18 DEF OnAt
<1> QED
  BY <1>19 DEF Onward

(* A round from a node with more enters its next child. *)
LEMMA RoundEnters ==
  ASSUME NEW it, NEW k \in Nat \ {0}, NEW r \in Nat, NEW f, NEW x, NEW lo, NEW hi, OnAt(it, k, x, lo, hi, r, f),
         ~HasMore(it.stack[Len(it.stack)]), More(it.stack) # {}
  PROVE  Onward(Round(it), k, r + 1, f)
<1> DEFINE stack == it.stack
           L == Len(stack)
           e == Max(More(stack))
           n == stack[e].node
           s == stack[e].slot
           B(i) == Bound(n.keys, lo[e], hi[e], i)
           kid == n.kids[s]
           frame == Frame(n, s + 1)
           rest == Append(SubSeq(stack, 1, e - 1), frame)
           way == DescendTo(kid, Start)
           all == rest \o way
<1> HIDE DEF frame, rest, way, all
<1>1. /\ Stands(stack, lo, hi, x, f) /\ hi[1] = NumKeys + 1
      /\ k <= x /\ Given(it.out, k, x, f)
      /\ ~HasMore(stack[L])
      /\ r <= 2 * Len(it.out)
  <2>1. Len(it.out) \in Nat
    BY SequenceShape DEF OnAt, Given
  <2>2. r <= 2 * Len(it.out) + 0
    BY DEF OnAt
  <2> QED
    BY <2>1, <2>2 DEF OnAt
<1>2. /\ L \in Nat \ {0} /\ DOMAIN stack = 1..L
      /\ x \in Nat /\ lo[L] <= x /\ x <= hi[L] /\ IsBounds(lo[L], hi[L])
  BY <1>1, TopLeaf
<1>3. e \in 1..L /\ e < L /\ HasMore(stack[e]) /\ \A d \in e+1..L : ~HasMore(stack[d])
  <2>1. More(stack) \in SUBSET Nat /\ More(stack) \in SUBSET (1..L) /\ \A d \in More(stack) : d <= L
    BY <1>2 DEF More
  <2>2. e \in More(stack) /\ \A d \in More(stack) : d <= e
    BY <1>2, <2>1, MaxOfBounded
  <2> HIDE DEF e
  <2>3. e \in 1..L /\ HasMore(stack[e]) /\ e # L
    BY <1>1, <2>1, <2>2 DEF More
  <2>4. ASSUME NEW d \in e+1..L PROVE ~HasMore(stack[d])
    <3>1. d \in 1..L /\ ~(d <= e)
      BY <1>2, <2>3
    <3> QED
      BY <1>2, <2>2, <3>1 DEF More
  <2> QED
    BY <1>2, <2>3, <2>4
<1> HIDE DEF e
<1>4. /\ FrameOK(stack[e], lo[e], hi[e], f) /\ ~IsLeaf(n)
      /\ hi[e+1] = Reached(stack[e], lo[e], hi[e])
      /\ IsSequence(stack) /\ Inside(stack, lo, hi, f)
  BY <1>1, <1>3 DEF Stands, Inside
<1>5. Round(it) = [stack |-> all, out |-> it.out]
  <2>1. /\ More(it.stack) # {} /\ Max(More(it.stack)) = e
        /\ it.stack[e].node = n /\ it.stack[e].slot = s /\ ~IsLeaf(n)
    BY <1>4, Zenon DEF e
  <2> HIDE DEF n, s
  <2>2. Round(it) = [stack |-> Append(SubSeq(it.stack, 1, e - 1), Frame(n, s + 1)) \o DescendTo(n.kids[s], Start),
                     out |-> it.out]
    BY ONLY <2>1, RoundAtInner, ZenonT(40)
  <2> QED
    BY <2>2, Zenon DEF all, rest, way, frame
<1>6. frame.node = n /\ frame.slot = s + 1
  BY DEF Frame, frame
<1>7. PICK g \in Levels : SearchTree(n, lo[e], hi[e], g, f)
  BY <1>4 DEF FrameOK
<1> HIDE DEF n
<1>8. /\ s \in Nat /\ 1 <= s /\ s <= Len(n.kids)
      /\ hi[e+1] = B(s - 1)
  BY <1>3, <1>4 DEF FrameOK, HasMore, Reached, n
<1> HIDE DEF s
<1>9. /\ IsBounds(lo[e], hi[e]) /\ InnerShape(n, lo[e], hi[e])
      /\ g # 0 /\ g - 1 \in Nat /\ KidsAre(n, lo[e], hi[e], g-1, f)
  BY <1>4, <1>7, TreeIs DEF LeafOK, LeafShape, InnerOK
<1>10. s \in 1..Len(n.kids) /\ Len(n.kids) \in Nat /\ s - 1 \in 0..Len(n.kids) /\ s \in 0..Len(n.kids) /\ s - 1 < s
  BY <1>8, <1>9, KidBounds
<1>11. SearchTree(kid, B(s-1), B(s), g-1, f)
  BY <1>9, <1>10 DEF KidsAre
<1>12. B(s-1) \in Nat /\ B(s) \in Nat /\ B(s-1) < B(s)
  BY <1>9, <1>10, KidBounds
<1>13. g - 1 \in Levels
  <2>1. Levels = 0..MaxHeight-1 /\ MaxHeight \in Nat
    BY ConstantsAssumption DEF Levels
  <2> QED
    BY <1>9, <2>1
<1> DEFINE y == B(s-1)
<1>14. e + 1 \in 1..L /\ \A d \in e+1..L : ~HasMore(stack[d])
  BY <1>2, <1>3
<1>15. hi[e+1] = hi[L] /\ \A j \in Nat : x <= j /\ j < hi[e+1] => f[j] = Missing
  BY <1>1, <1>14, Exhausted
<1>16. y \in Nat /\ x <= y /\ \A j \in Nat : x <= j /\ j < y => f[j] = Missing
  BY <1>2, <1>8, <1>12, <1>15
<1>17. LeadsTo(Start, y, B(s-1), B(s))
  <2>1. y = B(s-1) /\ y <= y
    BY <1>16
  <2> HIDE DEF y, B
  <2> QED
    BY <1>12, <2>1 DEF LeadsTo, Start
<1> HIDE DEF B, kid
<1>18. /\ \E a, b : Stands(way, a, b, y, f) /\ b[1] = B(s)
       /\ HasMore(way[Len(way)])
  <2> HIDE DEF y
  <2> QED
    BY <1>9, <1>11, <1>13, <1>17, DescendToStands DEF way
<1>19. FrameOK(frame, lo[e], hi[e], f)
  <2>1. s + 1 \in Nat /\ 1 <= s + 1 /\ s + 1 <= Len(n.kids) + 1
    BY <1>8, <1>10
  <2> QED
    BY <1>4, <1>6, <1>7, <2>1 DEF FrameOK, Places, n
<1>20. IsSequence(rest) /\ Len(rest) = e /\ rest[e] = frame /\ Inside(rest, lo, hi, f)
  BY <1>3, <1>4, <1>19, FrameReplaced DEF rest
<1> HIDE DEF y
<1>21. Reached(frame, lo[e], hi[e]) = B(s)
  <2>1. (s + 1) - 1 = s
    BY <1>8
  <2> QED
    BY <1>6, <2>1 DEF Reached, B
<1>22. Behind(rest, lo, hi, B(s), f)
  <2>1. Len(rest) # 0
    BY <1>2, <1>3, <1>20
  <2> QED
    BY <1>4, <1>6, <1>20, <1>21, <2>1 DEF Behind, n
<1>23. PICK a, b : Stands(way, a, b, y, f) /\ b[1] = B(s)
  BY <1>18
<1>24. Behind(rest, lo, hi, b[1], f)
  BY <1>22, <1>23
<1>25. \E c, d : Stands(rest \o way, c, d, y, f) /\ d[1] = hi[1]
  <2> HIDE DEF all, stack, L
  <2>1. Behind(rest, lo, hi, b[1], f) /\ Stands(way, a, b, y, f)
    BY <1>23, <1>24
  <2> QED
    BY ONLY <2>1, StackOn
<1>26. PICK c, d : Stands(all, c, d, y, f) /\ d[1] = hi[1]
  BY <1>25 DEF all
<1>27. HasMore(all[Len(all)])
  <2>1. IsSequence(way) /\ Len(way) # 0
    BY <1>23 DEF Stands
  <2> QED
    BY <1>18, <1>20, <2>1, LastOfJoined DEF all
<1>28. Given(it.out, k, y, f)
  BY <1>1, <1>2, <1>16, GivenUpTo
<1>29. k <= y
  BY <1>1, <1>2, <1>16
<1>30. r + 1 <= 2 * Len(it.out) + (IF HasMore(all[Len(all)]) THEN 1 ELSE 0)
  <2>1. Len(it.out) \in Nat
    BY <1>1, SequenceShape DEF Given
  <2>2. r + 1 <= 2 * Len(it.out) + 1
    BY <1>1, <2>1
  <2> QED
    BY <1>27, <2>2
<1>31. Round(it).stack = all /\ Round(it).out = it.out
  BY <1>5
<1>32. OnAt(Round(it), k, y, c, d, r + 1, f)
  BY <1>1, <1>26, <1>28, <1>29, <1>30, <1>31 DEF OnAt
<1> QED
  BY <1>32 DEF Onward

(* A round that finds nothing more ends the iteration. *)
LEMMA RoundEnds ==
  ASSUME NEW it, NEW k, NEW f, More(it.stack) = {},
         Ended(it, k, f) \/ \E r : Onward(it, k, r, f)
  PROVE  Ended(Round(it), k, f)
<1>1. Round(it) = [stack |-> <<>>, out |-> it.out]
  BY DEF Round, More
<1>2. CASE Ended(it, k, f)
  BY <1>1, <1>2 DEF Ended
<1>3. CASE \E r : Onward(it, k, r, f)
  <2>1. PICK r, x, lo, hi : OnAt(it, k, x, lo, hi, r, f)
    BY <1>3 DEF Onward
  <2> DEFINE L == Len(it.stack)
  <2>2. Stands(it.stack, lo, hi, x, f) /\ hi[1] = NumKeys + 1 /\ Given(it.out, k, x, f)
    BY <2>1 DEF OnAt
  <2>3. L \in Nat \ {0} /\ DOMAIN it.stack = 1..L /\ x \in Nat /\ x <= hi[L]
    BY <2>2, TopLeaf
  <2>4. \A d \in 1..L : ~HasMore(it.stack[d])
    BY <2>3 DEF More
  <2>5. 1 \in 1..L
    BY <2>3
  <2>6. hi[1] = hi[L] /\ \A j \in Nat : x <= j /\ j < hi[1] => f[j] = Missing
    BY <2>2, <2>4, <2>5, Exhausted
  <2>7. NumKeys + 1 \in Nat
    BY ConstantsAssumption
  <2>8. Given(it.out, k, NumKeys + 1, f)
    BY <2>2, <2>3, <2>6, <2>7, GivenUpTo
  <2> QED
    BY <1>1, <2>8 DEF Ended
<1> QED
  BY <1>2, <1>3

(* An iteration that has not ended has not had all its rounds. *)
LEMMA RoundsAreEnough ==
  ASSUME NEW it, NEW k \in Nat \ {0}, NEW r \in Nat, NEW f, Onward(it, k, r, f)
  PROVE  r < 2 * NumKeys + 1
<1>1. PICK x, lo, hi : OnAt(it, k, x, lo, hi, r, f)
  BY DEF Onward
<1> DEFINE L == Len(it.stack)
           n == it.stack[L].node
           s == it.stack[L].slot
           O == Len(it.out)
<1>2. /\ Stands(it.stack, lo, hi, x, f) /\ Given(it.out, k, x, f)
      /\ r <= 2 * O + (IF HasMore(it.stack[L]) THEN 1 ELSE 0)
  BY <1>1 DEF OnAt
<1>3. O \in Nat /\ O < x /\ NumKeys \in Nat
  BY <1>2, SequenceShape, ConstantsAssumption DEF Given
<1>4. /\ x \in Nat /\ x <= hi[L] /\ IsBounds(lo[L], hi[L])
      /\ HasMore(it.stack[L]) => x <= n.keys[s] /\ n.keys[s] \in Keys
  BY <1>2, TopLeaf
<1> HIDE DEF O, n, s, L
<1>5. x <= NumKeys + 1
  BY <1>3, <1>4 DEF IsBounds
<1>6. CASE HasMore(it.stack[L])
  <2>1. x <= NumKeys
    BY <1>3, <1>4, <1>6 DEF Keys
  <2>2. r <= 2 * O + 1
    BY <1>2, <1>6
  <2> QED
    BY <1>3, <1>4, <2>1, <2>2
<1>7. CASE ~HasMore(it.stack[L])
  <2>1. r <= 2 * O + 0
    BY <1>2, <1>7
  <2> QED
    BY <1>3, <1>4, <1>5, <2>1
<1> QED
  BY <1>6, <1>7

(* A walk is its rounds, one after another. *)
LEMMA WalkIs ==
  ASSUME NEW n, NEW k
  PROVE  \E after : /\ after[0] = [stack |-> IteratorFrom(n, k), out |-> <<>>]
                    /\ \A r \in Rounds : r # 0 => after[r] = Round(after[r-1])
                    /\ Walk(n, k) = after[2*NumKeys+1]
<1> DEFINE first == [stack |-> IteratorFrom(n, k), out |-> <<>>]
           N == 2*NumKeys+1
           Solves(g, l) ==
              /\ g = [i \in 0..l |-> g[i]] /\ g[0] = first
              /\ \A i \in 1..l : g[i] = Round(g[i-1])
           Good == {l \in Nat : \E g : Solves(g, l)}
           Step(g) == [r \in Rounds |-> IF r = 0 THEN first ELSE Round(g[r-1])]
<1>0. N \in Nat /\ Rounds = 0..N
  BY ConstantsAssumption DEF Rounds
<1> HIDE DEF first, N
<1>1. 0 \in Good
  <2>1. Solves([i \in 0..0 |-> first], 0)
    OBVIOUS
  <2> HIDE DEF Solves
  <2> QED
    BY <2>1
<1>2. ASSUME NEW l \in Good PROVE l + 1 \in Good
  <2>1. l \in Nat
    OBVIOUS
  <2>2. PICK g : Solves(g, l)
    OBVIOUS
  <2> DEFINE h == [i \in 0..l+1 |-> IF i <= l THEN g[i] ELSE Round(g[l])]
  <2>3. h = [i \in 0..l+1 |-> h[i]]
    OBVIOUS
  <2>4. h[0] = first
    BY <2>1, <2>2
  <2>5. ASSUME NEW i \in 1..l+1 PROVE h[i] = Round(h[i-1])
    <3>1. i \in 0..l+1 /\ i - 1 \in 0..l+1 /\ i - 1 <= l
      BY <2>1
    <3>2. h[i-1] = g[i-1]
      BY <3>1
    <3>3. CASE i <= l
      <4>1. h[i] = g[i] /\ i \in 1..l
        BY <2>1, <3>1, <3>3
      <4>2. g[i] = Round(g[i-1])
        BY <2>2, <4>1
      <4> HIDE DEF h
      <4> QED
        BY <3>2, <4>1, <4>2
    <3>4. CASE ~(i <= l)
      <4>1. i - 1 = l
        BY <2>1, <3>4
      <4>2. h[i] = Round(g[l])
        BY <3>1, <3>4
      <4> HIDE DEF h
      <4> QED
        BY <3>2, <4>1, <4>2
    <3> QED
      BY <3>3, <3>4
  <2>6. Solves(h, l + 1)
    <3> HIDE DEF h
    <3> QED
      BY <2>3, <2>4, <2>5
  <2>7. l + 1 \in Nat /\ \E e : Solves(e, l + 1)
    <3> HIDE DEF Solves, h
    <3> QED
      BY <2>1, <2>6
  <2> HIDE DEF Solves
  <2> QED
    BY <2>7
<1>3. Good = Nat
  <2> HIDE DEF Good
  <2>1. Good \in SUBSET Nat
    BY DEF Good
  <2> QED
    BY <1>1, <1>2, <2>1, Induction
<1>5. PICK g : Solves(g, N)
  <2> HIDE DEF Solves
  <2> QED
    BY <1>0, <1>3
<1>6. g = Step(g)
  <2>1. ASSUME NEW r \in Rounds PROVE g[r] = IF r = 0 THEN first ELSE Round(g[r-1])
    <3>1. r = 0 \/ (r # 0 /\ r \in 1..N)
      BY <1>0
    <3> QED
      BY <1>5, <3>1
  <2>2. g = [r \in Rounds |-> g[r]]
    BY <1>0, <1>5
  <2>3. [r \in Rounds |-> g[r]] = Step(g)
    BY <2>1
  <2> HIDE DEF Step
  <2> QED
    BY <2>2, <2>3
<1> DEFINE e == CHOOSE e : e = Step(e)
<1>7. Walk(n, k) = e[N]
  BY DEF Walk, first, N
<1>8. e = Step(e)
  <2> HIDE DEF Step
  <2> QED
    BY <1>6
<1> HIDE DEF e
<1>9. e[0] = first
  <2>1. 0 \in Rounds
    BY <1>0
  <2> QED
    BY <1>8, <2>1
<1>10. ASSUME NEW r \in Rounds, r # 0 PROVE e[r] = Round(e[r-1])
  <2>1. Step(e)[r] = Round(e[r-1])
    BY <1>10
  <2> HIDE DEF Step
  <2> QED
    BY <1>8, <2>1
<1> QED
  BY <1>7, <1>9, <1>10 DEF first, N

(* The key an iteration starts at. *)
From(k) == IF k = Start THEN 1 ELSE k

(* Before its first round it stands there. *)
LEMMA WalkStarts ==
  ASSUME NEW n, NEW f, Root(n, f), NEW k \in Keys \cup {Start}
  PROVE  LET it == [stack |-> IteratorFrom(n, k), out |-> <<>>] IN
         Ended(it, From(k), f) \/ Onward(it, From(k), 0, f)
<1> DEFINE x == From(k)
           it == [stack |-> IteratorFrom(n, k), out |-> <<>>]
<1>1. /\ NumKeys \in Nat /\ Keys = 1..NumKeys /\ MaxHeight - 1 \in Nat /\ MaxHeight - 1 \in Levels
  BY ConstantsAssumption DEF Keys, Levels
<1>2. x \in Nat \ {0} /\ k \in Nat /\ (k = x \/ (k = Start /\ x = 1)) /\ x <= NumKeys + 1 /\ (x <= NumKeys \/ k = Start)
  BY <1>1 DEF From, Start
<1> HIDE DEF x
<1>3. Given(<<>>, x, x, f)
  <2>1. IsSequence(<<>>) /\ Len(<<>>) = 0
    <3>1. <<>> \in Seq({})
      OBVIOUS
    <3> QED
      BY <3>1 DEF IsSequence
  <2>2. 0 < x /\ \A i \in 1..0 : FALSE
    BY <1>2
  <2>3. \A j \in Nat : ~(x <= j /\ j < x)
    BY <1>2
  <2> QED
    BY <2>1, <2>2, <2>3 DEF Given
<1>4. CASE n = EmptyNode /\ \A j \in Nat : 1 <= j /\ j < NumKeys + 1 => f[j] = Missing
  <2>1. IteratorFrom(n, k) = <<>>
    BY <1>4 DEF IteratorFrom
  <2>2. \A j \in Nat : x <= j /\ j < NumKeys + 1 => f[j] = Missing
    BY <1>2, <1>4
  <2>3. Given(<<>>, x, NumKeys + 1, f)
    BY <1>1, <1>2, <1>3, <2>2, GivenUpTo
  <2>4. Ended(it, x, f)
    BY <2>1, <2>3 DEF Ended
  <2> QED
    BY <2>4 DEF x
<1>5. CASE SearchTree(n, 1, NumKeys + 1, MaxHeight - 1, f)
  <2> DEFINE h == MaxHeight - 1
             hi == NumKeys + 1
             st == DescendTo(n, k)
  <2>1. hi \in Nat /\ 1 < hi
    BY <1>5, TreeIs DEF IsBounds
  <2>2. LeadsTo(k, x, 1, hi)
    <3>1. 1 <= x /\ x < hi
      BY <1>1, <1>2, <2>1 DEF From, x
    <3> QED
      BY <1>2, <3>1 DEF LeadsTo
  <2>3. n # EmptyNode
    BY <1>5, TreeNotEmpty
  <2>4. \E a, b : Stands(st, a, b, x, f) /\ b[1] = hi
    <3>1. h \in Nat /\ h \in Levels /\ SearchTree(n, 1, hi, h, f)
      BY <1>1, <1>5
    <3> HIDE DEF h, hi
    <3> QED
      BY <2>2, <3>1, DescendToStands
  <2>5. PICK a, b : Stands(st, a, b, x, f) /\ b[1] = hi
    BY <2>4
  <2>6. it.stack = st /\ it.out = <<>>
    BY <2>3 DEF IteratorFrom
  <2>7. 0 <= 2 * Len(<<>>) + (IF HasMore(st[Len(st)]) THEN 1 ELSE 0)
    OBVIOUS
  <2>8. OnAt(it, x, x, a, b, 0, f)
    BY <1>2, <1>3, <2>5, <2>6, <2>7 DEF OnAt
  <2> QED
    BY <2>8 DEF Onward, x
<1> QED
  BY <1>4, <1>5 DEF Root

(* So a walk ends, and has handed out all entries. *)
LEMMA WalkEnds ==
  ASSUME NEW n, NEW f, Root(n, f), NEW k \in Keys \cup {Start}
  PROVE  Ended(Walk(n, k), From(k), f)
<1> DEFINE N == 2 * NumKeys + 1
           x == From(k)
           State(it, r) == Ended(it, x, f) \/ Onward(it, x, r, f)
<1>1. N \in Nat /\ Rounds = 0..N /\ x \in Nat \ {0}
  BY ConstantsAssumption DEF Rounds, From, Start, Keys
<1>2. PICK after : /\ after[0] = [stack |-> IteratorFrom(n, k), out |-> <<>>]
                   /\ \A r \in Rounds : r # 0 => after[r] = Round(after[r-1])
                   /\ Walk(n, k) = after[N]
  BY WalkIs
<1> DEFINE S == {r \in Nat : r <= N => State(after[r], r)}
<1> HIDE DEF N, x
<1>3. 0 \in S
  BY <1>2, WalkStarts DEF x
<1>4. ASSUME NEW r \in S PROVE r + 1 \in S
  <2> SUFFICES ASSUME r + 1 <= N PROVE State(after[r+1], r+1)
    OBVIOUS
  <2> DEFINE it == after[r]
  <2>1. r \in Nat /\ r <= N /\ r + 1 \in Rounds /\ r + 1 # 0 /\ (r + 1) - 1 = r
    BY <1>1
  <2>2. after[r+1] = Round(it)
    BY <1>2, <2>1
  <2>3. State(it, r)
    BY <2>1
  <2> HIDE DEF it
  <2>4. CASE More(it.stack) = {}
    BY <2>2, <2>3, <2>4, RoundEnds
  <2>5. CASE More(it.stack) # {}
    <3>1. ~Ended(it, x, f)
      <4>1. DOMAIN <<>> = {}
        OBVIOUS
      <4> QED
        BY <2>5, <4>1 DEF Ended, More
    <3>2. PICK y, lo, hi : OnAt(it, x, y, lo, hi, r, f)
      BY <2>3, <3>1 DEF Onward
    <3>3. Onward(Round(it), x, r + 1, f)
      <4>1. CASE HasMore(it.stack[Len(it.stack)])
        BY <1>1, <2>1, <3>2, <4>1, RoundGives
      <4>2. CASE ~HasMore(it.stack[Len(it.stack)])
        BY <1>1, <2>1, <2>5, <3>2, <4>2, RoundEnters
      <4> QED
        BY <4>1, <4>2
    <3> QED
      BY <2>2, <3>3
  <2> QED
    BY <2>4, <2>5
<1>5. S = Nat
  <2>1. S \in SUBSET Nat
    OBVIOUS
  <2> HIDE DEF S
  <2> QED
    BY <1>3, <1>4, <2>1, Induction
<1>6. State(after[N], N)
  <2>1. N \in S /\ N <= N
    BY <1>1, <1>5
  <2> QED
    BY <2>1
<1>7. ~Onward(after[N], x, N, f)
  <2> SUFFICES ASSUME Onward(after[N], x, N, f) PROVE FALSE
    OBVIOUS
  <2>1. N < 2 * NumKeys + 1
    BY <1>1, RoundsAreEnough
  <2> QED
    BY <1>1, <2>1 DEF N
<1> QED
  BY <1>2, <1>6, <1>7 DEF x

(* Iteration from any key on, or from the start, gives the entries of the   *)
(* history in ascending order, each once and none missing, and ends         *)
(* (btree.zig 430-571).                                                     *)
THEOREM WalksAreSorted ==
  ASSUME AnyOrder = FALSE
  PROVE  Spec => []WalkIsSorted
<1>1. ASSUME TreeInv PROVE WalkIsSorted
  <2> SUFFICES ASSUME NEW c \in Trees, NEW k \in Keys \cup {Start}
               PROVE  LET walk == Walk(tree[c], k) IN
                      /\ walk.stack = <<>>
                      /\ \A i, j \in DOMAIN walk.out : i < j => walk.out[i][1] < walk.out[j][1]
                      /\ Range(walk.out) = {<<j, stored[c][j]>> : j \in {x \in Keys : x >= k /\ stored[c][x] # Missing}}
    BY DEF WalkIsSorted
  <2> DEFINE walk == Walk(tree[c], k)
             f == stored[c]
             out == walk.out
  <2>1. Ended(walk, From(k), f)
    BY <1>1, WalkEnds DEF TreeInv
  <2> HIDE DEF walk, f
  <2>2. walk.stack = <<>> /\ Given(out, From(k), NumKeys + 1, f)
    BY <2>1 DEF Ended
  <2> HIDE DEF out
  <2>3. DOMAIN out = 1..Len(out)
    BY <2>2, SequenceShape DEF Given
  <2>4. \A j \in Nat : From(k) <= j /\ j < NumKeys + 1 <=> j \in Keys /\ j >= k
    BY ConstantsAssumption DEF From, Start, Keys
  <2>5. Keys \in SUBSET Nat
    BY ConstantsAssumption DEF Keys
  <2>6. Range(out) = {<<j, f[j]>> : j \in {x \in Keys : x >= k /\ f[x] # Missing}}
    <3>1. ASSUME NEW e \in Range(out) PROVE e \in {<<j, f[j]>> : j \in {x \in Keys : x >= k /\ f[x] # Missing}}
      <4>1. PICK i \in 1..Len(out) : e = out[i]
        BY <2>3 DEF Range
      <4>2. PICK j \in Nat : out[i] = <<j, f[j]>> /\ From(k) <= j /\ j < NumKeys + 1 /\ f[j] # Missing
        BY <2>2 DEF Given
      <4> QED
        BY <2>4, <4>1, <4>2
    <3>2. ASSUME NEW j \in Keys, j >= k, f[j] # Missing PROVE <<j, f[j]>> \in Range(out)
      <4>1. PICK i \in 1..Len(out) : out[i] = <<j, f[j]>>
        BY <2>2, <2>4, <2>5, <3>2 DEF Given
      <4> QED
        BY <2>3, <4>1 DEF Range
    <3> QED
      BY <3>1, <3>2
  <2>7. \A i, j \in DOMAIN out : i < j => out[i][1] < out[j][1]
    BY <2>2, <2>3 DEF Given
  <2> QED
    BY <2>2, <2>6, <2>7 DEF walk, f, out
<1> QED
  BY <1>1, TreeInvariant, PTL
=============================================================================
