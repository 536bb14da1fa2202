------------------------- MODULE TransactionsProofs -------------------------
(***************************************************************************)
(* What Transactions guarantees for any threads, collections and documents *)
(* and transactions of any length, proved with TLAPS.                      *)
(*                                                                         *)
(* The argument is about the buffers of one transaction: what it has read  *)
(* it has recorded with the value its snapshot gave (RecordedReads), what  *)
(* a get or a query returned follows from what is recorded (ExplainedGets, *)
(* ReportsAnswer), a put without an insert before it has a read            *)
(* (CoveredPuts).  A commit compares the records with the live trees, so   *)
(* that all this carries over to them.                                     *)
(***************************************************************************)
EXTENDS Transactions, NumberTheorems, FiniteSetTheorems, FunctionTheorems, TLAPS

-----------------------------------------------------------------------------
(* Sequences of staged writes.                                              *)

(* What transactions are asked for is of its type. *)
LEMMA InputTypes ==
  /\ \A u \in Universe : u[1] \in Colls /\ u[2] \in Ids /\ u[3] \in Docs
  /\ \A k \in Keys : k[1] \in Colls /\ k[2] \in Ids
  /\ \A p \in Puts : p[1] \in Colls /\ p[2] \in Ids /\ p[3] \in Docs \cup {Missing}
<1>1. \A u \in Universe : u[1] \in Colls /\ u[2] \in Ids /\ u[3] \in Docs
  BY ConstantsAssumption DEF Colls, Ids
<1>2. \A k \in Keys : k[1] \in Colls /\ k[2] \in Ids
  BY <1>1 DEF Keys
<1>3. ASSUME NEW k \in Keys
      PROVE  LET p == <<k[1], k[2], Missing>>
             IN p[1] \in Colls /\ p[2] \in Ids /\ p[3] \in Docs \cup {Missing}
  BY <1>2
<1> QED
  BY <1>1, <1>2, <1>3 DEF Puts

(* The last write to a key is one of them. *)
LEMMA LastWrite ==
  ASSUME NEW ws \in Seq(Writes), NEW c, NEW i, WritesTo(ws, c, i) # {}
  PROVE  /\ Max(WritesTo(ws, c, i)) \in WritesTo(ws, c, i)
         /\ Max(WritesTo(ws, c, i)) \in DOMAIN ws
<1>1. /\ WritesTo(ws, c, i) \in SUBSET Nat /\ Len(ws) \in Nat
      /\ \A n \in WritesTo(ws, c, i) : n <= Len(ws)
  BY DEF WritesTo
<1>2. Max(WritesTo(ws, c, i)) \in WritesTo(ws, c, i)
  BY <1>1, MaxOfBounded
<1> QED
  BY <1>2 DEF WritesTo

(* Writes make databases of databases, and leave other keys alone. *)
LEMMA AfterType ==
  ASSUME NEW ws \in Seq(Writes), NEW trees \in Databases
  PROVE  After(ws, trees) \in Databases
<1>1. ASSUME NEW c \in Colls, NEW i \in Ids
      PROVE  (IF WritesTo(ws, c, i) = {} THEN trees[c][i] ELSE ws[Max(WritesTo(ws, c, i))].doc)
                \in Docs \cup {Missing}
  <2>1. CASE WritesTo(ws, c, i) = {}
    BY <2>1 DEF Databases, Trees
  <2>2. CASE WritesTo(ws, c, i) # {}
    <3>1. ws[Max(WritesTo(ws, c, i))] \in Writes
      BY <2>2, LastWrite
    <3> QED
      BY <2>2, <3>1 DEF Writes
  <2> QED
    BY <2>1, <2>2
<1> QED
  BY <1>1 DEF After, Databases, Trees

LEMMA AfterAt ==
  ASSUME NEW ws, NEW trees, NEW c \in Colls, NEW i \in Ids
  PROVE  After(ws, trees)[c][i] =
            IF WritesTo(ws, c, i) = {} THEN trees[c][i] ELSE ws[Max(WritesTo(ws, c, i))].doc
  BY DEF After

LEMMA AfterElsewhere ==
  ASSUME NEW ws, NEW trees \in Databases, NEW c \in Colls, \A n \in DOMAIN ws : ws[n].coll # c
  PROVE  After(ws, trees)[c] = trees[c]
<1>1. \A i \in Ids : WritesTo(ws, c, i) = {}
  BY DEF WritesTo
<1>2. After(ws, trees)[c] = [i \in Ids |-> trees[c][i]]
  BY <1>1 DEF After
<1> QED
  BY <1>2 DEF Databases, Trees

-----------------------------------------------------------------------------
(* The ids a query yields.                                                  *)

(* Ids are in a strict total order by ids, and by values. *)
LEMMA BeforeIsOrder ==
  ASSUME NEW kind, NEW tree \in Trees
  PROVE  /\ \A i \in Ids : ~Before(kind, tree, i, i)
         /\ \A i, j \in Ids : i # j => Before(kind, tree, i, j) \/ Before(kind, tree, j, i)
         /\ \A i, j, k \in Ids :
               Before(kind, tree, i, j) /\ Before(kind, tree, j, k) => Before(kind, tree, i, k)
<1>1. Ids \subseteq Nat /\ \A i \in Ids : tree[i] \in Nat
  <2>1. Ids \subseteq Nat /\ Docs \cup {Missing} \subseteq Nat
    BY ConstantsAssumption DEF Ids, Missing
  <2>2. \A i \in Ids : tree[i] \in Docs \cup {Missing}
    BY DEF Trees
  <2> QED
    BY <2>1, <2>2
<1> QED
  BY <1>1 DEF Before

(* The answer to a query is the matching ids, once each, in order.  The order *)
(* exists: the place of an id is the number of those before it. *)
LEMMA AnswerIs ==
  ASSUME NEW kind, NEW docs, NEW tree \in Trees
  PROVE  LET M == {i \in Ids : tree[i] \in docs}
             ids == Answer(kind, docs, tree)
         IN /\ ids \in Seq(Ids) /\ ids \in [1..Len(ids) -> M]
            /\ \A m, n \in 1..Len(ids) : m < n => Before(kind, tree, ids[m], ids[n])
            /\ \A m, n \in 1..Len(ids) : ids[m] = ids[n] => m = n
            /\ \A i \in M : \E n \in 1..Len(ids) : ids[n] = i
<1> DEFINE M == {i \in Ids : tree[i] \in docs}
           n == Cardinality(M)
           L(x) == {y \in M : Before(kind, tree, y, x)}
           rank == [x \in M |-> Cardinality(L(x)) + 1]
           Sorted(s) == \A a, b \in DOMAIN s : a < b => Before(kind, tree, s[a], s[b])
<1>1. IsFiniteSet(M) /\ n \in Nat /\ M \subseteq Ids
  <2>1. IsFiniteSet(Ids)
    BY FS_Interval, ConstantsAssumption DEF Ids
  <2>2. M \in SUBSET Ids
    OBVIOUS
  <2> QED
    BY <2>1, <2>2, FS_Subset, FS_CardinalityType
<1>2. \A x \in M : L(x) \subseteq M \ {x} /\ IsFiniteSet(L(x)) /\ Cardinality(L(x)) \in 0..(n - 1)
  <2> SUFFICES ASSUME NEW x \in M
               PROVE  L(x) \subseteq M \ {x} /\ IsFiniteSet(L(x)) /\ Cardinality(L(x)) \in 0..(n - 1)
    OBVIOUS
  <2>1. L(x) \in SUBSET (M \ {x})
    BY <1>1, BeforeIsOrder
  <2>2. IsFiniteSet(M \ {x}) /\ Cardinality(M \ {x}) = n - 1
    BY <1>1, FS_RemoveElement
  <2> HIDE DEF L
  <2>3. IsFiniteSet(L(x)) /\ Cardinality(L(x)) <= n - 1 /\ Cardinality(L(x)) \in Nat
    BY <2>1, <2>2, FS_Subset, FS_CardinalityType
  <2> QED
    BY <1>1, <2>1, <2>3
<1>3. rank \in [M -> 1..n]
  <2> HIDE DEF L, n
  <2> QED
    BY <1>1, <1>2
<1>4. \A x, y \in M : Before(kind, tree, x, y) => rank[x] < rank[y]
  <2> SUFFICES ASSUME NEW x \in M, NEW y \in M, Before(kind, tree, x, y) PROVE rank[x] < rank[y]
    OBVIOUS
  <2>1. L(x) \in SUBSET (L(y) \ {x}) /\ x \in L(y)
    BY <1>1, BeforeIsOrder
  <2>2. IsFiniteSet(L(y)) /\ Cardinality(L(x)) \in Nat /\ Cardinality(L(y)) \in Nat
    <3> HIDE DEF L, n
    <3> QED
      BY <1>1, <1>2
  <2> HIDE DEF L
  <2>3. IsFiniteSet(L(y) \ {x}) /\ Cardinality(L(y) \ {x}) = Cardinality(L(y)) - 1
    BY <2>1, <2>2, FS_RemoveElement
  <2>4. Cardinality(L(x)) <= Cardinality(L(y)) - 1
    BY <2>1, <2>3, FS_Subset
  <2> QED
    BY <2>2, <2>4
<1>5. \A x, y \in M : x # y => rank[x] < rank[y] \/ rank[y] < rank[x]
  BY <1>1, <1>4, BeforeIsOrder
<1>6. rank \in Bijection(M, 1..n)
  <2> HIDE DEF rank, M
  <2>1. \A x, y \in M : rank[x] = rank[y] => x = y
    <3>1. \A x \in M : rank[x] \in Nat
      BY <1>1, <1>3
    <3> QED
      BY <1>5, <3>1
  <2>2. rank \in Injection(M, 1..n)
    BY <1>3, <2>1, Fun_IsInj
  <2>3. IsFiniteSet(1..n) /\ Cardinality(1..n) = n
    BY <1>1, FS_Interval
  <2>4. rank \in Surjection(M, 1..n)
    BY <2>2, <2>3, FS_Injection
  <2> QED
    BY <2>2, <2>4, Fun_IsBij
<1> HIDE DEF rank, L
<1>7. \E s \in [1..n -> M] : Sorted(s)
  <2> DEFINE s == Inverse(rank, M, 1..n)
  <2>1. s \in Bijection(1..n, M)
    BY <1>6, Fun_BijInverse
  <2>2. Range(rank) = 1..n
    BY <1>6, Fun_BijectionProperties, Fun_SurjectionProperties
  <2>3. \A k \in 1..n : rank[s[k]] = k
    BY ZenonT(40), <1>3, <2>2, Fun_InverseProperties
  <2> HIDE DEF s
  <2>4. s \in [1..n -> M]
    <3> HIDE DEF n, M
    <3> QED
      BY <2>1, Fun_BijectionProperties
  <2>5. ASSUME NEW a \in 1..n, NEW b \in 1..n, a < b PROVE Before(kind, tree, s[a], s[b])
    <3>1. s[a] \in M /\ s[b] \in M /\ rank[s[a]] = a /\ rank[s[b]] = b
      BY <2>3, <2>4
    <3>2. ~(rank[s[b]] < rank[s[a]])
      BY <1>1, <2>5, <3>1
    <3>3. ~Before(kind, tree, s[b], s[a])
      BY <1>4, <3>1, <3>2
    <3>4. s[a] # s[b]
      BY <1>1, <2>5, <3>1
    <3> QED
      BY <1>1, <3>1, <3>3, <3>4, BeforeIsOrder
  <2> QED
    BY <2>4, <2>5
<1> DEFINE ids == Answer(kind, docs, tree)
<1>8. ids \in [1..n -> M] /\ Sorted(ids)
  BY <1>7 DEF Answer
<1> HIDE DEF ids, M
<1>9. ids \in Seq(Ids) /\ Len(ids) = n /\ DOMAIN ids = 1..n
  <2> HIDE DEF n
  <2> QED
    BY <1>1, <1>8
<1>10. \A a, b \in 1..n : ids[a] = ids[b] => a = b
  <2>1. \A a \in 1..n : ids[a] \in Ids
    BY <1>1, <1>8
  <2>2. \A a, b \in 1..n : a < b => ids[a] # ids[b]
    BY <1>8, <1>9, <2>1, BeforeIsOrder
  <2>3. \A a, b \in 1..n : a = b \/ a < b \/ b < a
    BY <1>1
  <2> QED
    BY <2>2, <2>3
<1>11. \A i \in M : \E a \in 1..n : ids[a] = i
  <2>1. ids \in Injection(1..n, M)
    BY <1>8, <1>10, Fun_IsInj
  <2>2. Cardinality(1..n) = n
    BY <1>1, FS_Interval
  <2>3. ids \in Surjection(1..n, M)
    BY <1>1, <2>1, <2>2, FS_Injection
  <2> HIDE DEF n
  <2> QED
    BY <2>3 DEF Surjection
<1> QED
  BY <1>8, <1>9, <1>10, <1>11 DEF ids, M

-----------------------------------------------------------------------------
(* Steps.                                                                   *)

\* A step of a transaction's own, and a step that ends one.
Reading(t) ==
    \/ \E c \in Colls, i \in Ids : Get(t, c, i)
    \/ \E c \in Colls, docs \in SUBSET Docs, complete \in BOOLEAN : Find(t, c, docs, complete)
    \/ \E c \in Colls, n \in 0..MaxId, complete \in BOOLEAN : Iterate(t, c, n, complete)

Writing(t) ==
    \/ \E c \in Colls, i \in Ids, doc \in Docs \cup {Missing} : Put(t, c, i, doc)
    \/ \E c \in Colls, doc \in Docs : Insert(t, c, doc)

Ending(t) ==
    \/ CommitOptimistic(t) \/ CommitOptimisticFail(t)
    \/ Conflict(t) \/ CommitRefused(t) \/ AbortOptimistic(t)

Pessimistic(t) ==
    \/ \E c \in Colls, i \in Ids, doc \in Docs \cup {Missing} :
          AutoPut(t, c, i, doc) \/ TxnPut(t, c, i, doc)
    \/ \E c \in Colls, doc \in Docs : AutoInsert(t, c, doc)
    \/ Begin(t) \/ Commit(t) \/ CommitFail(t) \/ Abort(t)

(* Every step is one of these. *)
LEMMA Steps ==
  ASSUME [Next]_vars
  PROVE  \/ UNCHANGED vars \/ Reopen
         \/ \E t \in Threads :
               BeginOptimistic(t) \/ Reading(t) \/ Writing(t) \/ Ending(t) \/ Pessimistic(t)
<1>1. ASSUME NEW t \in Threads, OptimisticStep(t)
      PROVE  BeginOptimistic(t) \/ Reading(t) \/ Writing(t) \/ Ending(t)
  <2>1. ASSUME NEW k \in Keys, Get(t, k[1], k[2]) PROVE Reading(t)
    BY <2>1, InputTypes DEF Reading
  <2>2. ASSUME NEW c \in Colls, NEW docs \in SUBSET Docs \ {{}}, NEW complete \in BOOLEAN,
               Find(t, c, docs, complete)
        PROVE  Reading(t)
    BY <2>2 DEF Reading
  <2>3. ASSUME NEW p \in Puts, Put(t, p[1], p[2], p[3]) PROVE Writing(t)
    BY <2>3, InputTypes DEF Writing
  <2>4. ASSUME NEW u \in Universe, Insert(t, u[1], u[3]) PROVE Writing(t)
    BY <2>4, InputTypes DEF Writing
  <2>5. ASSUME NEW c \in Colls, NEW n \in 0..MaxId, NEW complete \in BOOLEAN,
               Iterate(t, c, n, complete)
        PROVE  Reading(t)
    BY <2>5 DEF Reading
  <2> QED
    BY <1>1, <2>1, <2>2, <2>3, <2>4, <2>5 DEF OptimisticStep, Ending
<1>2. ASSUME NEW t \in Threads, PessimisticStep(t)
      PROVE  Pessimistic(t)
  <2>1. ASSUME NEW p \in Puts, AutoPut(t, p[1], p[2], p[3]) \/ TxnPut(t, p[1], p[2], p[3])
        PROVE  Pessimistic(t)
    BY <2>1, InputTypes DEF Pessimistic
  <2>2. ASSUME NEW u \in Universe, AutoInsert(t, u[1], u[3]) PROVE Pessimistic(t)
    BY <2>2, InputTypes DEF Pessimistic
  <2> QED
    BY <1>2, <2>1, <2>2 DEF PessimisticStep, Pessimistic
<1> QED
  BY <1>1, <1>2 DEF Next

-----------------------------------------------------------------------------
(* Types.                                                                   *)

LEMMA NothingType == Nothing \in Databases
  BY DEF Nothing, EmptyTree, Databases, Trees

LEMMA PutType ==
  ASSUME NEW d \in Databases, NEW c \in Colls, NEW i \in Ids, NEW doc \in Docs \cup {Missing}
  PROVE  [d EXCEPT ![c][i] = doc] \in Databases
  BY DEF Databases, Trees

(* The buffers stay of their types. *)
LEMMA DiscardType ==
  ASSUME TypeOK, NEW t \in Threads, Discard(t)
  PROVE  /\ running' \subseteq Optimistic
         /\ snapshot' \in [Threads -> Databases]
         /\ read_set' \in [Threads -> SUBSET Reads]
         /\ range_set' \in [Threads -> SUBSET Reports]
         /\ write_set' \in [Threads -> Seq(Writes)]
         /\ gets' \in [Threads -> SUBSET Gets]
  BY NothingType DEF Discard, TypeOK

LEMMA StageType ==
  ASSUME TypeOK, NEW t \in Threads, NEW kind \in {"insert", "put"}, NEW c \in Colls, NEW i \in Ids,
         NEW doc \in Docs \cup {Missing}, Stage(t, kind, c, i, doc)
  PROVE  write_set' \in [Threads -> Seq(Writes)]
<1>1. [kind |-> kind, coll |-> c, id |-> i, doc |-> doc] \in Writes
  BY DEF Writes
<1> QED
  BY <1>1 DEF Stage, TypeOK

LEMMA RecordType ==
  ASSUME TypeOK, NEW t \in Threads, NEW c \in Colls, NEW i \in Ids,
         Record(t, c, i, snapshot[t][c][i])
  PROVE  read_set' \in [Threads -> SUBSET Reads]
<1>1. [coll |-> c, id |-> i, doc |-> snapshot[t][c][i]] \in Reads
  BY DEF TypeOK, Databases, Trees, Reads
<1> QED
  BY <1>1 DEF Record, TypeOK

(* Every variable keeps its type; no step of a commit's application leaves a *)
(* key without a document or Missing. *)
LEMMA TypeStep == TypeOK /\ [Next]_vars => TypeOK'
<1> SUFFICES ASSUME TypeOK, [Next]_vars PROVE TypeOK'
  OBVIOUS
<1>1. ASSUME NEW t \in Threads, BeginOptimistic(t) PROVE TypeOK'
  BY <1>1 DEF BeginOptimistic, TypeOK, db
<1>2. ASSUME NEW t \in Threads, NEW c \in Colls, NEW i \in Ids, Get(t, c, i) PROVE TypeOK'
  <2>1. gets' \in [Threads -> SUBSET Gets]
    <3>1. Value(t, c, i) \in Docs \cup {Missing}
      <4>1. write_set[t] \in Seq(Writes) /\ snapshot[t] \in Databases
        BY DEF TypeOK
      <4> QED
        BY <4>1, AfterType DEF Value, Databases, Trees
    <3>2. Len(write_set[t]) \in Nat
      BY DEF TypeOK
    <3>3. [coll |-> c, id |-> i, doc |-> Value(t, c, i), after |-> Len(write_set[t])] \in Gets
      BY <3>1, <3>2 DEF Gets
    <3> HIDE DEF Value
    <3> QED
      BY <1>2, <3>3 DEF Get, TypeOK
  <2>2. read_set' \in [Threads -> SUBSET Reads]
    <3>1. CASE UNCHANGED read_set
      BY <3>1 DEF TypeOK
    <3>2. CASE Record(t, c, i, snapshot[t][c][i])
      BY <3>2, RecordType
    <3> QED
      BY <1>2, <3>1, <3>2 DEF Get
  <2> QED
    BY <1>2, <2>1, <2>2 DEF Get, TypeOK, db
<1>3. ASSUME NEW t \in Threads, NEW c \in Colls, NEW i \in Ids, NEW doc \in Docs \cup {Missing},
             Put(t, c, i, doc)
      PROVE  TypeOK'
  <2>1. write_set' \in [Threads -> Seq(Writes)]
    BY <1>3, StageType DEF Put
  <2>2. read_set' \in [Threads -> SUBSET Reads]
    <3>1. CASE UNCHANGED read_set
      BY <3>1 DEF TypeOK
    <3>2. CASE Record(t, c, i, snapshot[t][c][i])
      BY <3>2, RecordType
    <3> QED
      BY <1>3, <3>1, <3>2 DEF Put, ImplicitRead
  <2> QED
    BY <1>3, <2>1, <2>2 DEF Put, TypeOK, db
<1>4. ASSUME NEW t \in Threads, NEW c \in Colls, NEW doc \in Docs, Insert(t, c, doc) PROVE TypeOK'
  <2>1. next_doc_id \in Ids /\ next_doc_id' \in 1..(MaxId + 1)
    BY <1>4, ConstantsAssumption DEF Insert, TypeOK, Ids
  <2>2. write_set' \in [Threads -> Seq(Writes)]
    BY <1>4, <2>1, StageType DEF Insert
  <2> QED
    BY <1>4, <2>1, <2>2 DEF Insert, TypeOK, db
<1>5. ASSUME NEW t \in Threads, NEW c \in Colls, NEW docs \in SUBSET Docs, NEW complete \in BOOLEAN,
             Find(t, c, docs, complete)
      PROVE  TypeOK'
  <2> DEFINE answer == Answer("index", docs, snapshot[t][c])
             ids == IF complete THEN answer ELSE <<Head(answer)>>
  <2>1. answer \in Seq(Ids)
    <3>1. snapshot[t][c] \in Trees
      BY DEF TypeOK, Databases
    <3> QED
      BY <3>1, AnswerIs
  <2>2. ~complete => answer # <<>>
    BY <1>5 DEF Find
  <2>3. range_set' = [range_set EXCEPT ![t] = @ \cup
           {[kind |-> "index", coll |-> c, docs |-> docs, complete |-> complete, ids |-> ids]}]
    BY <1>5 DEF Find
  <2> HIDE DEF answer
  <2>4. ids \in Seq(Ids)
    BY <2>1, <2>2
  <2> HIDE DEF ids
  <2>5. [kind |-> "index", coll |-> c, docs |-> docs, complete |-> complete, ids |-> ids] \in Reports
    BY <2>4 DEF Reports
  <2>6. range_set' \in [Threads -> SUBSET Reports]
    BY <2>3, <2>5 DEF TypeOK
  <2> QED
    BY <1>5, <2>6 DEF Find, TypeOK, db
<1>6. ASSUME NEW t \in Threads, NEW c \in Colls, NEW n \in 0..MaxId, NEW complete \in BOOLEAN,
             Iterate(t, c, n, complete)
      PROVE  TypeOK'
  <2> DEFINE answer == Answer("scan", Docs, IF c = 0 THEN snapshot[t][0] ELSE EmptyTree)
             ids == SubSeq(answer, 1, n)
  <2>1. answer \in Seq(Ids) /\ c \in Colls
    <3>1. c \in Colls /\ 0 \in Colls
      BY ConstantsAssumption DEF Colls
    <3>2. (IF c = 0 THEN snapshot[t][0] ELSE EmptyTree) \in Trees
      BY <3>1 DEF TypeOK, Databases, Trees, EmptyTree
    <3> QED
      BY <3>1, <3>2, AnswerIs
  <2>2. /\ n \in 0..Len(answer)
        /\ range_set' = [range_set EXCEPT ![t] = @ \cup
           {[kind |-> "scan", coll |-> c, docs |-> Docs, complete |-> complete, ids |-> ids]}]
    BY <1>6, ConstantsAssumption DEF Iterate
  <2> HIDE DEF answer
  <2>3. ids \in Seq(Ids)
    BY <2>1, <2>2
  <2> HIDE DEF ids
  <2>4. [kind |-> "scan", coll |-> c, docs |-> Docs, complete |-> complete, ids |-> ids] \in Reports
    BY <2>1, <2>3 DEF Reports
  <2>5. range_set' \in [Threads -> SUBSET Reports]
    BY <2>2, <2>4 DEF TypeOK
  <2> QED
    BY <1>6, <2>5 DEF Iterate, TypeOK, db
<1>7. ASSUME NEW t \in Threads, Ending(t) PROVE TypeOK'
  <2>1. Discard(t)
    BY <1>7 DEF Ending, CommitOptimistic, CommitOptimisticFail, Conflict, CommitRefused, AbortOptimistic
  <2>2. After(write_set[t], live) \in Databases
    BY AfterType DEF TypeOK
  <2>3. CommitCollection(write_set[t]) \in Colls
    <3>1. 0 \in Colls
      BY ConstantsAssumption DEF Colls
    <3>2. write_set[t] # <<>> => write_set[t][1] \in Writes
      BY DEF TypeOK
    <3> QED
      BY <3>1, <3>2 DEF CommitCollection, Writes
  <2>4. live' \in Databases /\ work' \in Databases
    <3>1. CASE UNCHANGED <<live, work>>
      BY <3>1 DEF TypeOK
    <3>2. CASE CommitOptimisticFail(t)
      BY <2>2, <3>2 DEF CommitOptimisticFail, TypeOK
    <3>3. CASE CommitOptimistic(t)
      <4> DEFINE cid == CommitCollection(write_set[t])
      <4>1. /\ live' = [live EXCEPT ![cid] = After(write_set[t], live)[cid]]
            /\ work' = work /\ cid \in Colls
        BY <2>3, <3>3 DEF CommitOptimistic
      <4> HIDE DEF cid
      <4> QED
        BY <2>2, <4>1 DEF TypeOK, Databases
    <3> QED
      BY <1>7, <3>1, <3>2, <3>3 DEF Ending, Conflict, CommitRefused, AbortOptimistic, db
  <2>5. /\ owner' = owner /\ in_txn' \in BOOLEAN /\ next_doc_id' = next_doc_id
        /\ failures' \in 0..MaxFailures
        /\ outcome' \in {"none", "committed", "conflict", "refused", "failed", "aborted"}
    <3>1. /\ owner' = owner /\ in_txn' \in {in_txn, TRUE} /\ next_doc_id' = next_doc_id
          /\ outcome' \in {"committed", "conflict", "refused", "failed", "aborted"}
      BY <1>7 DEF Ending, CommitOptimistic, CommitOptimisticFail, Conflict, CommitRefused,
                  AbortOptimistic, db
    <3>2. \/ failures' = failures
          \/ failures < MaxFailures /\ failures' = failures + 1
      BY <1>7 DEF Ending, CommitOptimistic, CommitOptimisticFail, Conflict, CommitRefused,
                  AbortOptimistic, db
    <3>3. failures' \in 0..MaxFailures
      BY <3>2, ConstantsAssumption DEF TypeOK
    <3>4. in_txn' \in BOOLEAN
      BY <3>1 DEF TypeOK
    <3> QED
      BY <3>1, <3>3, <3>4
  <2> QED
    BY <2>1, <2>4, <2>5, DiscardType DEF TypeOK
<1>8. ASSUME NEW t \in Threads, Pessimistic(t) PROVE TypeOK'
  <2>1. live' \in Databases /\ work' \in Databases
    <3>1. 0 \in Colls
      BY ConstantsAssumption DEF Colls
    <3>2. live \in Databases /\ work \in Databases
      BY DEF TypeOK
    <3>3. ASSUME NEW c \in Colls, NEW i \in Ids, NEW doc \in Docs \cup {Missing},
                 AutoPut(t, c, i, doc) \/ TxnPut(t, c, i, doc)
          PROVE  live' \in Databases /\ work' \in Databases
      <4>1. [live EXCEPT ![c][i] = doc] \in Databases /\ [work EXCEPT ![c][i] = doc] \in Databases
        BY <3>2, PutType
      <4>2. live' \in {live, [live EXCEPT ![c][i] = doc]}
        BY <3>3 DEF AutoPut, TxnPut
      <4>3. work' \in {work, [work EXCEPT ![c][i] = doc]}
        BY <3>3 DEF AutoPut, TxnPut
      <4> QED
        BY <3>2, <4>1, <4>2, <4>3
    <3>4. ASSUME NEW c \in Colls, NEW doc \in Docs, AutoInsert(t, c, doc)
          PROVE  live' \in Databases /\ work' \in Databases
      <4>1. next_doc_id \in Ids
        BY <3>4, ConstantsAssumption DEF AutoInsert, TypeOK, Ids
      <4>2. [live EXCEPT ![c][next_doc_id] = doc] \in Databases
        BY <3>2, <4>1, PutType
      <4> QED
        BY <3>2, <3>4, <4>2 DEF AutoInsert
    <3>5. ASSUME Commit(t) PROVE live' \in Databases /\ work' \in Databases
      BY <3>1, <3>5, NothingType DEF Commit, TypeOK, Databases
    <3>6. ASSUME Begin(t) \/ CommitFail(t) \/ Abort(t) PROVE live' \in Databases /\ work' \in Databases
      BY <3>6, NothingType DEF Begin, CommitFail, Abort, TypeOK
    <3> QED
      BY <1>8, <3>3, <3>4, <3>5, <3>6 DEF Pessimistic
  <2>2. UNCHANGED buffers
    BY <1>8 DEF Pessimistic, AutoPut, TxnPut, AutoInsert, Begin, Commit, CommitFail, Abort
  <2>3. /\ owner' \in Threads \cup {NoThread} /\ in_txn' \in BOOLEAN
        /\ next_doc_id' \in 1..(MaxId + 1)
        /\ failures' \in 0..MaxFailures
        /\ outcome' \in {"none", "committed", "conflict", "refused", "failed", "aborted"}
    <3>1. /\ owner' \in {owner, t, NoThread} /\ in_txn' \in {in_txn, TRUE, FALSE}
          /\ outcome' \in {"none", "committed", "failed", "aborted"}
      BY <1>8 DEF Pessimistic, AutoPut, TxnPut, AutoInsert, Begin, Commit, CommitFail, Abort
    <3>2. \/ next_doc_id' = next_doc_id
          \/ next_doc_id <= MaxId /\ next_doc_id' = next_doc_id + 1
      BY <1>8 DEF Pessimistic, AutoPut, TxnPut, AutoInsert, Begin, Commit, CommitFail, Abort
    <3>3. \/ failures' = failures
          \/ failures < MaxFailures /\ failures' = failures + 1
      BY <1>8 DEF Pessimistic, AutoPut, TxnPut, AutoInsert, Begin, Commit, CommitFail, Abort
    <3>4. next_doc_id' \in 1..(MaxId + 1) /\ failures' \in 0..MaxFailures
      BY <3>2, <3>3, ConstantsAssumption DEF TypeOK
    <3>5. in_txn' \in BOOLEAN
      BY <3>1 DEF TypeOK
    <3> QED
      BY <3>1, <3>4, <3>5 DEF TypeOK
  <2> QED
    BY <2>1, <2>2, <2>3 DEF TypeOK, buffers
<1>9. CASE Reopen
  BY <1>9, NothingType DEF Reopen, TypeOK, buffers
<1>10. CASE UNCHANGED vars
  BY <1>10 DEF vars, TypeOK
<1> QED
  BY <1>1, <1>2, <1>3, <1>4, <1>5, <1>6, <1>7, <1>8, <1>9, <1>10, Steps DEF Reading, Writing

(* Every variable has its type. *)
THEOREM TypeCorrect == Spec => []TypeOK
<1>1. Init => TypeOK
  <2> SUFFICES ASSUME Init PROVE TypeOK
    OBVIOUS
  <2>1. live \in Databases
    BY DEF Init
  <2>2. write_set \in [Threads -> Seq(Writes)]
    BY DEF Init
  <2>3. /\ read_set \in [Threads -> SUBSET Reads] /\ range_set \in [Threads -> SUBSET Reports]
        /\ gets \in [Threads -> SUBSET Gets] /\ snapshot \in [Threads -> Databases]
    BY NothingType DEF Init
  <2>4. failures \in 0..MaxFailures /\ next_doc_id \in 1..(MaxId + 1)
    BY ConstantsAssumption DEF Init
  <2> QED
    BY <2>1, <2>2, <2>3, <2>4, NothingType DEF Init, TypeOK
<1> QED
  BY <1>1, TypeStep, PTL DEF Spec
-----------------------------------------------------------------------------
(* The buffers of a transaction, against its snapshot.                      *)

\* The buffers of a thread without a transaction are empty.
EmptyUnlessRunning(t) ==
    t \notin running =>
       /\ read_set[t] = {} /\ range_set[t] = {} /\ write_set[t] = <<>> /\ gets[t] = {}

\* What is to be validated of a key is what the snapshot has there.
RecordedReads(t) == \A r \in read_set[t] : r.doc = snapshot[t][r.coll][r.id]

\* A get returned the latest write before it, or a recorded read.
ExplainedGets(t) ==
    \A g \in gets[t] :
       LET ws == SubSeq(write_set[t], 1, g.after)
       IN /\ g.after <= Len(write_set[t])
          /\ After(ws, snapshot[t])[g.coll][g.id] = g.doc
          /\ WritesTo(ws, g.coll, g.id) = {} =>
                [coll |-> g.coll, id |-> g.id, doc |-> snapshot[t][g.coll][g.id]] \in read_set[t]

\* A key that puts alone have written has been recorded as read.
CoveredPuts(t) ==
    \A c \in Colls, i \in Ids :
       LET ws == WritesTo(write_set[t], c, i)
       IN ws # {} /\ (\A n \in ws : write_set[t][n].kind = "put") =>
             [coll |-> c, id |-> i, doc |-> snapshot[t][c][i]] \in read_set[t]

\* What is to be validated of a query is what the snapshot answers.
ReportsAnswer(t) ==
    \A r \in range_set[t] : Astray(r) \/ Confirmed(r, snapshot[t][r.coll])

\* With one collection to a transaction, its writes go to one.
WritesOneCollection(t) ==
    OneCollection =>
       \A m, n \in DOMAIN write_set[t] : write_set[t][m].coll = write_set[t][n].coll

Consistent(t) ==
    /\ EmptyUnlessRunning(t) /\ RecordedReads(t) /\ ExplainedGets(t) /\ CoveredPuts(t)
    /\ ReportsAnswer(t) /\ WritesOneCollection(t)

\* An explicit transaction writes the collection whose root it publishes.
OwnerWritesDefault ==
    OneCollection /\ owner # NoThread => \A c \in Colls \ {0} : work[c] = live[c]

BufferInv == (\A t \in Threads : Consistent(t)) /\ OwnerWritesDefault

-----------------------------------------------------------------------------
(* A thread's buffers change in its own steps only.                         *)

SameBuffers(t) ==
    /\ t \in running' <=> t \in running
    /\ snapshot'[t] = snapshot[t] /\ read_set'[t] = read_set[t] /\ range_set'[t] = range_set[t]
    /\ write_set'[t] = write_set[t] /\ gets'[t] = gets[t]

LEMMA OwnSteps ==
  ASSUME TypeOK, [Next]_vars, NEW t \in Threads
  PROVE  SameBuffers(t) \/ BeginOptimistic(t) \/ Reading(t) \/ Writing(t) \/ Ending(t)
<1>1. CASE UNCHANGED buffers
  BY <1>1 DEF buffers, SameBuffers
<1>2. CASE UNCHANGED vars \/ Reopen \/ \E u \in Threads : Pessimistic(u)
  <2>1. UNCHANGED buffers
    BY <1>2 DEF vars, buffers, Reopen, Pessimistic, AutoPut, TxnPut, AutoInsert, Begin, Commit,
                CommitFail, Abort
  <2> QED
    BY <1>1, <2>1
<1>3. ASSUME NEW u \in Threads, u # t, BeginOptimistic(u) PROVE SameBuffers(t)
  BY <1>3 DEF BeginOptimistic, SameBuffers, TypeOK
<1>4. ASSUME NEW u \in Threads, u # t, Ending(u) PROVE SameBuffers(t)
  <2>1. Discard(u)
    BY <1>4 DEF Ending, CommitOptimistic, CommitOptimisticFail, Conflict, CommitRefused, AbortOptimistic
  <2> QED
    BY <1>4, <2>1 DEF Discard, SameBuffers, TypeOK
<1>5. ASSUME NEW u \in Threads, u # t, Reading(u) PROVE SameBuffers(t)
  <2>1. /\ UNCHANGED <<running, snapshot, write_set>>
        /\ \/ UNCHANGED read_set
           \/ \E c \in Colls, i \in Ids : Record(u, c, i, snapshot[u][c][i])
        /\ \/ UNCHANGED range_set
           \/ \E r : range_set' = [range_set EXCEPT ![u] = @ \cup {r}]
        /\ \/ UNCHANGED gets
           \/ \E g : gets' = [gets EXCEPT ![u] = @ \cup {g}]
    <3>1. ASSUME NEW c \in Colls, NEW i \in Ids, Get(u, c, i)
          PROVE  /\ UNCHANGED <<running, snapshot, write_set, range_set>>
                 /\ UNCHANGED read_set \/ Record(u, c, i, snapshot[u][c][i])
                 /\ \E g : gets' = [gets EXCEPT ![u] = @ \cup {g}]
      BY <3>1 DEF Get
    <3>2. ASSUME NEW c, NEW docs, NEW complete, Find(u, c, docs, complete)
          PROVE  /\ UNCHANGED <<running, snapshot, write_set, read_set, gets>>
                 /\ \E r : range_set' = [range_set EXCEPT ![u] = @ \cup {r}]
      BY <3>2 DEF Find
    <3>3. ASSUME NEW c, NEW n, NEW complete, Iterate(u, c, n, complete)
          PROVE  /\ UNCHANGED <<running, snapshot, write_set, read_set, gets>>
                 /\ \E r : range_set' = [range_set EXCEPT ![u] = @ \cup {r}]
      BY <3>3 DEF Iterate
    <3> QED
      BY <1>5, <3>1, <3>2, <3>3 DEF Reading
  <2> QED
    BY <1>5, <2>1 DEF Record, SameBuffers, TypeOK
<1>6. ASSUME NEW u \in Threads, u # t, Writing(u) PROVE SameBuffers(t)
  <2>1. /\ UNCHANGED <<running, snapshot, range_set, gets>>
        /\ \/ UNCHANGED read_set
           \/ \E c \in Colls, i \in Ids : Record(u, c, i, snapshot[u][c][i])
        /\ \E w : write_set' = [write_set EXCEPT ![u] = Append(@, w)]
    BY <1>6 DEF Writing, Put, Insert, ImplicitRead, Stage
  <2> QED
    BY <1>6, <2>1 DEF Record, SameBuffers, TypeOK
<1> QED
  BY <1>2, <1>3, <1>4, <1>5, <1>6, Steps

LEMMA SameBuffersKeep ==
  ASSUME NEW t \in Threads, SameBuffers(t), Consistent(t)
  PROVE  Consistent(t)'
<1>1. EmptyUnlessRunning(t)' /\ RecordedReads(t)'
  BY DEF SameBuffers, Consistent, EmptyUnlessRunning, RecordedReads
<1>2. ExplainedGets(t)'
  BY DEF SameBuffers, Consistent, ExplainedGets
<1>3. CoveredPuts(t)'
  BY DEF SameBuffers, Consistent, CoveredPuts
<1>4. ReportsAnswer(t)' /\ WritesOneCollection(t)'
  BY DEF SameBuffers, Consistent, ReportsAnswer, WritesOneCollection
<1> QED
  BY <1>1, <1>2, <1>3, <1>4 DEF Consistent

-----------------------------------------------------------------------------
(* Each of a transaction's own steps keeps its buffers consistent.          *)

(* Empty buffers are. *)
LEMMA EmptyIsConsistent ==
  ASSUME NEW t \in Threads,
         read_set'[t] = {}, range_set'[t] = {}, write_set'[t] = <<>>, gets'[t] = {}
  PROVE  Consistent(t)'
<1>1. DOMAIN write_set'[t] = {}
  OBVIOUS
<1>2. \A c \in Colls, i \in Ids : WritesTo(write_set'[t], c, i) = {}
  BY <1>1 DEF WritesTo
<1>3. CoveredPuts(t)'
  BY <1>2 DEF CoveredPuts
<1> QED
  BY <1>1, <1>3 DEF Consistent, EmptyUnlessRunning, RecordedReads, ExplainedGets, ReportsAnswer,
                    WritesOneCollection

LEMMA BeginKeeps ==
  ASSUME TypeOK, NEW t \in Threads, BeginOptimistic(t), Consistent(t)
  PROVE  Consistent(t)'
<1>1. read_set[t] = {} /\ range_set[t] = {} /\ write_set[t] = <<>> /\ gets[t] = {}
  BY DEF BeginOptimistic, Consistent, EmptyUnlessRunning
<1>2. read_set'[t] = {} /\ range_set'[t] = {} /\ write_set'[t] = <<>> /\ gets'[t] = {}
  BY <1>1 DEF BeginOptimistic
<1> QED
  BY <1>2, EmptyIsConsistent

LEMMA EndKeeps ==
  ASSUME TypeOK, NEW t \in Threads, Ending(t)
  PROVE  Consistent(t)'
<1>1. Discard(t)
  BY DEF Ending, CommitOptimistic, CommitOptimisticFail, Conflict, CommitRefused, AbortOptimistic
<1>2. read_set'[t] = {} /\ range_set'[t] = {} /\ write_set'[t] = <<>> /\ gets'[t] = {}
  BY <1>1 DEF Discard, TypeOK
<1> QED
  BY <1>2, EmptyIsConsistent

(* What a sequence of writes makes of a key when one more is staged. *)
LEMMA WritesAppended ==
  ASSUME NEW ws \in Seq(Writes), NEW w \in Writes, NEW c, NEW i
  PROVE  /\ Append(ws, w) \in Seq(Writes) /\ Len(Append(ws, w)) = Len(ws) + 1
         /\ DOMAIN Append(ws, w) = DOMAIN ws \cup {Len(ws) + 1}
         /\ \A n \in DOMAIN ws : Append(ws, w)[n] = ws[n]
         /\ Append(ws, w)[Len(ws) + 1] = w
         /\ WritesTo(Append(ws, w), c, i) =
               WritesTo(ws, c, i) \cup (IF w.coll = c /\ w.id = i THEN {Len(ws) + 1} ELSE {})
         /\ \A k \in 0..Len(ws) : SubSeq(Append(ws, w), 1, k) = SubSeq(ws, 1, k)
<1>1. /\ Append(ws, w) \in Seq(Writes) /\ Len(Append(ws, w)) = Len(ws) + 1
      /\ DOMAIN Append(ws, w) = DOMAIN ws \cup {Len(ws) + 1}
      /\ \A n \in DOMAIN ws : Append(ws, w)[n] = ws[n]
      /\ Append(ws, w)[Len(ws) + 1] = w
  OBVIOUS
<1>2. Len(ws) + 1 \notin DOMAIN ws
  OBVIOUS
<1>3. ASSUME NEW k \in 0..Len(ws)
      PROVE  SubSeq(Append(ws, w), 1, k) = SubSeq(ws, 1, k)
  OBVIOUS
<1>4. WritesTo(Append(ws, w), c, i) =
         WritesTo(ws, c, i) \cup (IF w.coll = c /\ w.id = i THEN {Len(ws) + 1} ELSE {})
  BY <1>1, <1>2 DEF WritesTo
<1> QED
  BY <1>1, <1>3, <1>4

LEMMA GetKeeps ==
  ASSUME TypeOK, NEW t \in Threads, NEW c \in Colls, NEW i \in Ids, Get(t, c, i), Consistent(t)
  PROVE  Consistent(t)'
<1> DEFINE read == [coll |-> c, id |-> i, doc |-> snapshot[t][c][i]]
           got == [coll |-> c, id |-> i, doc |-> Value(t, c, i), after |-> Len(write_set[t])]
<1>1. /\ t \in running' /\ snapshot'[t] = snapshot[t] /\ range_set'[t] = range_set[t]
      /\ write_set'[t] = write_set[t]
  BY DEF Get, MayOperate
<1>2. gets'[t] = gets[t] \cup {got}
  <2> HIDE DEF got
  <2> QED
    BY DEF Get, TypeOK, got
<1>3. \/ WritesTo(write_set[t], c, i) # {} /\ read_set'[t] = read_set[t]
      \/ read_set'[t] = read_set[t] \cup {read}
  <2> HIDE DEF read
  <2> QED
    BY DEF Get, Record, TypeOK, read
<1>4. write_set[t] \in Seq(Writes) /\ Len(write_set[t]) \in Nat
  BY DEF TypeOK
<1>5. EmptyUnlessRunning(t)' /\ ReportsAnswer(t)' /\ WritesOneCollection(t)'
  BY <1>1 DEF Consistent, EmptyUnlessRunning, ReportsAnswer, WritesOneCollection
<1>6. RecordedReads(t)'
  <2>1. read.doc = snapshot[t][read.coll][read.id]
    OBVIOUS
  <2> HIDE DEF read
  <2> QED
    BY <1>1, <1>3, <2>1 DEF Consistent, RecordedReads
<1> HIDE DEF read
<1>7. CoveredPuts(t)'
  BY <1>1, <1>3 DEF Consistent, CoveredPuts
<1>8. ExplainedGets(t)'
  <2> DEFINE Explained(g, reads) ==
               LET ws == SubSeq(write_set[t], 1, g.after)
               IN /\ g.after <= Len(write_set[t])
                  /\ After(ws, snapshot[t])[g.coll][g.id] = g.doc
                  /\ WritesTo(ws, g.coll, g.id) = {} =>
                        [coll |-> g.coll, id |-> g.id, doc |-> snapshot[t][g.coll][g.id]] \in reads
  <2>1. ASSUME NEW g \in gets[t] PROVE Explained(g, read_set'[t])
    BY <1>3 DEF Consistent, ExplainedGets
  <2>2. Explained(got, read_set'[t])
    <3>1. SubSeq(write_set[t], 1, Len(write_set[t])) = write_set[t]
      BY <1>4
    <3>2. /\ got.after = Len(write_set[t]) /\ got.coll = c /\ got.id = i
          /\ got.doc = After(write_set[t], snapshot[t])[c][i]
      BY DEF Value
    <3>3. WritesTo(write_set[t], c, i) = {} =>
             [coll |-> c, id |-> i, doc |-> snapshot[t][c][i]] \in read_set'[t]
      BY <1>3 DEF read
    <3> HIDE DEF got
    <3>4. SubSeq(write_set[t], 1, got.after) = write_set[t] /\ got.after <= Len(write_set[t])
      BY <1>4, <3>1, <3>2
    <3>5. After(SubSeq(write_set[t], 1, got.after), snapshot[t])[got.coll][got.id] = got.doc
      BY <3>2, <3>4
    <3>6. WritesTo(SubSeq(write_set[t], 1, got.after), got.coll, got.id) = {} =>
             [coll |-> got.coll, id |-> got.id, doc |-> snapshot[t][got.coll][got.id]]
                \in read_set'[t]
      BY <3>2, <3>3, <3>4
    <3> QED
      BY <3>4, <3>5, <3>6
  <2>3. ASSUME NEW g \in gets'[t] PROVE Explained(g, read_set'[t])
    <3> HIDE DEF Explained, got
    <3> QED
      BY <1>2, <2>1, <2>2
  <2> QED
    BY <1>1, <2>3 DEF ExplainedGets
<1> QED
  BY <1>5, <1>6, <1>7, <1>8 DEF Consistent

(* A report of a query that the snapshot confirms. *)
LEMMA ReportKeeps ==
  ASSUME TypeOK, NEW t \in Threads, NEW r, Consistent(t),
         t \in running, UNCHANGED <<running, snapshot, read_set, write_set, gets>>,
         range_set' = [range_set EXCEPT ![t] = @ \cup {r}],
         Astray(r) \/ Confirmed(r, snapshot[t][r.coll])
  PROVE  Consistent(t)'
<1>1. range_set'[t] = range_set[t] \cup {r}
  BY DEF TypeOK
<1>2. EmptyUnlessRunning(t)' /\ RecordedReads(t)' /\ CoveredPuts(t)' /\ WritesOneCollection(t)'
  BY DEF Consistent, EmptyUnlessRunning, RecordedReads, CoveredPuts, WritesOneCollection
<1>3. ExplainedGets(t)'
  BY DEF Consistent, ExplainedGets
<1>4. ReportsAnswer(t)'
  BY <1>1 DEF Consistent, ReportsAnswer
<1> QED
  BY <1>2, <1>3, <1>4 DEF Consistent

LEMMA FindKeeps ==
  ASSUME TypeOK, NEW t \in Threads, NEW c \in Colls, NEW docs \in SUBSET Docs,
         NEW complete \in BOOLEAN, Find(t, c, docs, complete), Consistent(t)
  PROVE  Consistent(t)'
<1> DEFINE answer == Answer("index", docs, snapshot[t][c])
           r == [kind |-> "index", coll |-> c, docs |-> docs, complete |-> complete,
                 ids |-> IF complete THEN answer ELSE <<Head(answer)>>]
<1>1. answer \in Seq(Ids)
  <2>1. snapshot[t][c] \in Trees
    BY DEF TypeOK, Databases
  <2> QED
    BY <2>1, AnswerIs
<1>2. /\ t \in running /\ UNCHANGED <<running, snapshot, read_set, write_set, gets>>
      /\ range_set' = [range_set EXCEPT ![t] = @ \cup {r}]
      /\ ~complete => answer # <<>>
  BY DEF Find, MayOperate
<1>3. /\ r.coll = c /\ Answer(r.kind, r.docs, snapshot[t][c]) = answer
      /\ r.ids = (IF complete THEN answer ELSE <<Head(answer)>>) /\ r.complete = complete
  OBVIOUS
<1> HIDE DEF answer, r
<1>4. Confirmed(r, snapshot[t][r.coll])
  <2>1. CASE complete
    BY <1>1, <1>3, <2>1 DEF Confirmed, IsPrefix
  <2>2. CASE ~complete
    <3>1. answer # <<>>
      BY <1>2, <2>2
    <3>2. IsPrefix(<<Head(answer)>>, answer)
      BY <1>1, <3>1 DEF IsPrefix
    <3> QED
      BY <1>3, <2>2, <3>2 DEF Confirmed
  <2> QED
    BY <2>1, <2>2
<1> QED
  BY <1>2, <1>4, ReportKeeps

LEMMA IterateKeeps ==
  ASSUME TypeOK, NEW t \in Threads, NEW c \in Colls, NEW n \in 0..MaxId,
         NEW complete \in BOOLEAN, Iterate(t, c, n, complete), Consistent(t)
  PROVE  Consistent(t)'
<1> DEFINE answer == Answer("scan", Docs, IF c = 0 THEN snapshot[t][0] ELSE EmptyTree)
           r == [kind |-> "scan", coll |-> c, docs |-> Docs, complete |-> complete,
                 ids |-> SubSeq(answer, 1, n)]
<1>1. /\ t \in running /\ UNCHANGED <<running, snapshot, read_set, write_set, gets>>
      /\ range_set' = [range_set EXCEPT ![t] = @ \cup {r}]
      /\ IF complete THEN n = Len(answer) ELSE n <= Len(answer)
  BY DEF Iterate, MayOperate
<1>2. Astray(r) \/ Confirmed(r, snapshot[t][r.coll])
  <2> SUFFICES ASSUME ~Astray(r) PROVE Confirmed(r, snapshot[t][r.coll])
    OBVIOUS
  <2>1. c = 0
    BY DEF Astray
  <2>2. answer \in Seq(Ids)
    <3>1. snapshot[t][0] \in Trees
      BY ConstantsAssumption DEF TypeOK, Databases, Colls
    <3> QED
      BY <2>1, <3>1, AnswerIs
  <2>3. /\ r.coll = c /\ Answer(r.kind, r.docs, snapshot[t][c]) = answer
        /\ r.ids = SubSeq(answer, 1, n) /\ r.complete = complete
    BY <2>1
  <2> HIDE DEF answer, r
  <2>4. n \in 0..Len(answer) /\ (complete => n = Len(answer))
    BY <1>1, <2>2, ConstantsAssumption
  <2>5. IsPrefix(SubSeq(answer, 1, n), answer)
    BY <2>2, <2>4 DEF IsPrefix
  <2>6. complete => SubSeq(answer, 1, n) = answer
    BY <2>2, <2>4
  <2> QED
    BY <2>3, <2>5, <2>6 DEF Confirmed
<1> HIDE DEF answer, r
<1> QED
  BY <1>1, <1>2, ReportKeeps

(* A write that is staged with what it needs in the read set. *)
LEMMA StageKeeps ==
  ASSUME TypeOK, NEW t \in Threads, NEW kind \in {"insert", "put"}, NEW c \in Colls, NEW i \in Ids,
         NEW doc \in Docs \cup {Missing}, Stage(t, kind, c, i, doc), Consistent(t),
         t \in running, UNCHANGED <<running, snapshot, range_set, gets>>,
         read_set[t] \subseteq read_set'[t],
         \A r \in read_set'[t] \ read_set[t] : r.doc = snapshot[t][r.coll][r.id],
         kind = "put" /\ WritesTo(write_set[t], c, i) = {} =>
            [coll |-> c, id |-> i, doc |-> snapshot[t][c][i]] \in read_set'[t]
  PROVE  Consistent(t)'
<1> DEFINE ws == write_set[t]
           w == [kind |-> kind, coll |-> c, id |-> i, doc |-> doc]
<1>1. ws \in Seq(Writes) /\ Len(ws) \in Nat /\ w \in Writes
  <2>1. w \in Writes
    BY DEF Writes
  <2> HIDE DEF w
  <2> QED
    BY <2>1 DEF TypeOK
<1>2. write_set'[t] = Append(ws, w)
  BY DEF Stage, TypeOK
<1>3. w.kind = kind /\ w.coll = c /\ w.id = i /\ w.doc = doc
  OBVIOUS
<1>4. OneCollection => \A n \in DOMAIN ws : ws[n].coll = c
  BY DEF Stage
<1> HIDE DEF w
<1>5. EmptyUnlessRunning(t)' /\ ReportsAnswer(t)'
  BY DEF Consistent, EmptyUnlessRunning, ReportsAnswer
<1>6. RecordedReads(t)'
  BY DEF Consistent, RecordedReads
<1>7. WritesOneCollection(t)'
  <2>1. OneCollection => \A n \in DOMAIN Append(ws, w) : Append(ws, w)[n].coll = c
    BY <1>1, <1>3, <1>4, WritesAppended
  <2> QED
    BY <1>2, <2>1 DEF WritesOneCollection
<1>8. CoveredPuts(t)'
  <2> SUFFICES ASSUME NEW d \in Colls, NEW j \in Ids,
                      WritesTo(Append(ws, w), d, j) # {},
                      \A n \in WritesTo(Append(ws, w), d, j) : Append(ws, w)[n].kind = "put"
               PROVE  [coll |-> d, id |-> j, doc |-> snapshot[t][d][j]] \in read_set'[t]
    BY ZenonT(40), <1>2 DEF CoveredPuts
  <2>1. CASE WritesTo(ws, d, j) # {}
    <3>1. \A n \in WritesTo(ws, d, j) : n \in WritesTo(Append(ws, w), d, j) /\ n \in DOMAIN ws
      BY <1>1, WritesAppended DEF WritesTo
    <3>2. \A n \in WritesTo(ws, d, j) : ws[n].kind = "put"
      <4>1. \A n \in DOMAIN ws : Append(ws, w)[n] = ws[n]
        BY <1>1, WritesAppended
      <4> QED
        BY <3>1, <4>1
    <3> QED
      BY <2>1, <3>2 DEF Consistent, CoveredPuts
  <2>2. CASE WritesTo(ws, d, j) = {}
    <3>1. d = c /\ j = i /\ Len(ws) + 1 \in WritesTo(Append(ws, w), d, j)
      <4>1. WritesTo(Append(ws, w), d, j) =
               WritesTo(ws, d, j) \cup (IF w.coll = d /\ w.id = j THEN {Len(ws) + 1} ELSE {})
        BY <1>1, WritesAppended
      <4> QED
        BY <1>3, <2>2, <4>1
    <3>2. Append(ws, w)[Len(ws) + 1] = w
      BY <1>1, WritesAppended
    <3>3. kind = "put"
      BY <1>3, <3>1, <3>2
    <3> QED
      BY <2>2, <3>1, <3>3
  <2> QED
    BY <2>1, <2>2
<1>9. ExplainedGets(t)'
  <2>1. ASSUME NEW g \in gets[t]
        PROVE  /\ g.after \in 0..Len(ws)
               /\ SubSeq(Append(ws, w), 1, g.after) = SubSeq(ws, 1, g.after)
               /\ g.after <= Len(Append(ws, w))
    <3>1. g.after \in 0..Len(ws)
      <4>1. g.after \in Nat
        BY DEF TypeOK, Gets
      <4>2. g.after <= Len(ws)
        BY DEF Consistent, ExplainedGets
      <4> QED
        BY <1>1, <4>1, <4>2
    <3>2. Len(Append(ws, w)) = Len(ws) + 1
      BY <1>1, WritesAppended
    <3>3. SubSeq(Append(ws, w), 1, g.after) = SubSeq(ws, 1, g.after)
      BY <1>1, <3>1, WritesAppended
    <3> QED
      BY <1>1, <3>1, <3>2, <3>3
  <2>2. gets'[t] = gets[t] /\ snapshot'[t] = snapshot[t]
    OBVIOUS
  <2>3. ASSUME NEW g \in gets[t]
        PROVE  LET now == SubSeq(write_set'[t], 1, g.after)
               IN /\ g.after <= Len(write_set'[t])
                  /\ After(now, snapshot[t])[g.coll][g.id] = g.doc
                  /\ WritesTo(now, g.coll, g.id) = {} =>
                        [coll |-> g.coll, id |-> g.id, doc |-> snapshot[t][g.coll][g.id]]
                           \in read_set'[t]
    <3>1. SubSeq(write_set'[t], 1, g.after) = SubSeq(ws, 1, g.after) /\ g.after <= Len(write_set'[t])
      BY <1>2, <2>1
    <3>2. /\ After(SubSeq(ws, 1, g.after), snapshot[t])[g.coll][g.id] = g.doc
          /\ WritesTo(SubSeq(ws, 1, g.after), g.coll, g.id) = {} =>
                [coll |-> g.coll, id |-> g.id, doc |-> snapshot[t][g.coll][g.id]] \in read_set'[t]
      BY DEF Consistent, ExplainedGets
    <3> HIDE DEF ws
    <3> QED
      BY <3>1, <3>2
  <2> QED
    BY <2>2, <2>3 DEF ExplainedGets
<1> QED
  BY <1>5, <1>6, <1>7, <1>8, <1>9 DEF Consistent

LEMMA PutKeeps ==
  ASSUME TypeOK, NEW t \in Threads, NEW c \in Colls, NEW i \in Ids, NEW doc \in Docs \cup {Missing},
         Put(t, c, i, doc), Consistent(t)
  PROVE  Consistent(t)'
<1> DEFINE read == [coll |-> c, id |-> i, doc |-> snapshot[t][c][i]]
<1>1. \/ WritesTo(write_set[t], c, i) # {} /\ read_set'[t] = read_set[t]
      \/ read_set'[t] = read_set[t] \cup {read}
  <2> HIDE DEF read
  <2> QED
    BY DEF Put, ImplicitRead, Record, TypeOK, read
<1>2. \A r \in read_set'[t] \ read_set[t] : r.doc = snapshot[t][r.coll][r.id]
  <2>1. read.doc = snapshot[t][read.coll][read.id]
    OBVIOUS
  <2> HIDE DEF read
  <2> QED
    BY <1>1, <2>1
<1>3. /\ Stage(t, "put", c, i, doc) /\ t \in running
      /\ UNCHANGED <<running, snapshot, range_set, gets>>
  BY DEF Put, MayOperate
<1> QED
  BY <1>1, <1>2, <1>3, StageKeeps

LEMMA InsertKeeps ==
  ASSUME TypeOK, NEW t \in Threads, NEW c \in Colls, NEW doc \in Docs, Insert(t, c, doc), Consistent(t)
  PROVE  Consistent(t)'
<1>1. next_doc_id \in Ids
  BY ConstantsAssumption DEF Insert, TypeOK, Ids
<1>2. /\ Stage(t, "insert", c, next_doc_id, doc) /\ t \in running
      /\ UNCHANGED <<running, snapshot, read_set, range_set, gets>>
  BY DEF Insert, MayOperate
<1> QED
  BY <1>1, <1>2, StageKeeps

(* Every step keeps the buffers of every thread consistent. *)
LEMMA ConsistentStep ==
  ASSUME TypeOK, [Next]_vars, NEW t \in Threads, Consistent(t)
  PROVE  Consistent(t)'
<1>1. CASE Reading(t)
  BY <1>1, GetKeeps, FindKeeps, IterateKeeps DEF Reading
<1>2. CASE Writing(t)
  BY <1>2, PutKeeps, InsertKeeps DEF Writing
<1> QED
  BY <1>1, <1>2, OwnSteps, SameBuffersKeep, BeginKeeps, EndKeeps

(* The changes to what an explicit transaction works on. *)
LEMMA OwnerStep ==
  ASSUME TypeOK, [Next]_vars, owner' # NoThread
  PROVE  \/ UNCHANGED <<owner, live, work>>
         \/ work' = live /\ live' = live
         \/ /\ owner' = owner /\ live' = live
            /\ \E c \in Colls, i \in Ids, doc \in Docs \cup {Missing} :
                  /\ OneCollection => c = 0
                  /\ work' = [work EXCEPT ![c][i] = doc]
<1>1. ASSUME NEW t \in Threads, BeginOptimistic(t) PROVE UNCHANGED <<owner, live, work>>
  BY <1>1 DEF BeginOptimistic, db
<1>2. ASSUME NEW t \in Threads, Reading(t) \/ Writing(t) PROVE UNCHANGED <<owner, live, work>>
  BY <1>2 DEF Reading, Writing, Get, Find, Iterate, Put, Insert, db
<1>3. ASSUME NEW t \in Threads, Ending(t) PROVE UNCHANGED <<owner, live, work>>
  BY <1>3 DEF Ending, CommitOptimistic, CommitOptimisticFail, Conflict, CommitRefused,
              AbortOptimistic, MayCommit, db
<1>4. ASSUME NEW t \in Threads, NEW c \in Colls, NEW i \in Ids, NEW doc \in Docs \cup {Missing},
             TxnPut(t, c, i, doc)
      PROVE  /\ owner' = owner /\ live' = live /\ (OneCollection => c = 0)
             /\ work' = [work EXCEPT ![c][i] = doc]
  BY <1>4 DEF TxnPut
<1>5. ASSUME NEW t \in Threads, Begin(t) PROVE work' = live /\ live' = live
  BY <1>5 DEF Begin
<1>6. ASSUME NEW t \in Threads,
             \/ Commit(t) \/ CommitFail(t) \/ Abort(t)
             \/ \E c, i, doc : AutoPut(t, c, i, doc)
             \/ \E c, doc : AutoInsert(t, c, doc)
      PROVE  FALSE
  BY <1>6 DEF Commit, CommitFail, Abort, AutoPut, AutoInsert
<1>7. CASE Reopen \/ UNCHANGED vars
  BY <1>7 DEF Reopen, vars
<1> QED
  BY <1>1, <1>2, <1>3, <1>4, <1>5, <1>6, <1>7, Steps DEF Pessimistic

LEMMA OwnerWritesDefaultStep ==
  TypeOK /\ OwnerWritesDefault /\ [Next]_vars => OwnerWritesDefault'
<1> SUFFICES ASSUME TypeOK, OwnerWritesDefault, [Next]_vars, OneCollection, owner' # NoThread,
                    NEW c \in Colls \ {0}
             PROVE  work'[c] = live'[c]
  BY DEF OwnerWritesDefault
<1>1. CASE UNCHANGED <<owner, live, work>>
  BY <1>1 DEF OwnerWritesDefault
<1>2. CASE work' = live /\ live' = live
  BY <1>2
<1>3. ASSUME owner' = owner, live' = live, NEW i \in Ids, NEW doc \in Docs \cup {Missing},
             work' = [work EXCEPT ![0][i] = doc]
      PROVE  work'[c] = live'[c]
  <2>1. work'[c] = work[c]
    BY <1>3 DEF TypeOK, Databases
  <2> QED
    BY <1>3, <2>1 DEF OwnerWritesDefault
<1> QED
  BY <1>1, <1>2, <1>3, OwnerStep

(* What transactions have buffered agrees with their snapshots, always. *)
THEOREM BuffersInvariant == Spec => []BufferInv
<1>1. Init => BufferInv
  <2> SUFFICES ASSUME Init PROVE BufferInv
    OBVIOUS
  <2>1. OwnerWritesDefault
    BY DEF Init, OwnerWritesDefault
  <2>2. ASSUME NEW t \in Threads PROVE Consistent(t)
    <3>1. read_set[t] = {} /\ range_set[t] = {} /\ write_set[t] = <<>> /\ gets[t] = {}
      BY DEF Init
    <3>2. \A c \in Colls, i \in Ids : WritesTo(write_set[t], c, i) = {}
      BY <3>1 DEF WritesTo
    <3>3. CoveredPuts(t)
      BY <3>2 DEF CoveredPuts
    <3> QED
      BY <3>1, <3>3 DEF Consistent, EmptyUnlessRunning, RecordedReads, ExplainedGets,
                        ReportsAnswer, WritesOneCollection
  <2> QED
    BY <2>1, <2>2 DEF BufferInv
<1>2. TypeOK /\ BufferInv /\ [Next]_vars => BufferInv'
  BY ConsistentStep, OwnerWritesDefaultStep DEF BufferInv
<1> QED
  BY <1>1, <1>2, TypeCorrect, PTL DEF Spec

-----------------------------------------------------------------------------
(* The outcomes of transactions.                                            *)

LEMMA EndIs ==
  ASSUME TypeOK, [Next]_vars, NEW t \in Threads
  PROVE  /\ Ends(t, "committed") => CommitOptimistic(t)
         /\ Ends(t, "conflict") => Conflict(t)
<1> SUFFICES ASSUME t \in running, t \notin running', outcome' \in {"committed", "conflict"}
             PROVE  IF outcome' = "committed" THEN CommitOptimistic(t) ELSE Conflict(t)
  BY DEF Ends
<1>1. Ending(t)
  BY OwnSteps DEF SameBuffers, BeginOptimistic, Reading, Writing, Get, Find, Iterate, Put, Insert
<1> QED
  BY <1>1 DEF Ending, CommitOptimistic, CommitOptimisticFail, Conflict, CommitRefused, AbortOptimistic

(* A commit overwrites or deletes only documents as the snapshot had them: of *)
(* each key that puts alone have written there is a read to validate. *)
THEOREM NeverLosesUpdate == Spec => NoLostUpdate
<1>1. TypeOK /\ BufferInv /\ [Next]_vars =>
         \A t \in Threads : Ends(t, "committed") =>
          \A c \in Colls, i \in Ids :
             LET ws == WritesTo(write_set[t], c, i)
             IN ws # {} /\ (\A n \in ws : write_set[t][n].kind = "put") =>
                   live[c][i] = snapshot[t][c][i]
  <2> SUFFICES ASSUME TypeOK, BufferInv, [Next]_vars, NEW t \in Threads, Ends(t, "committed"),
                      NEW c \in Colls, NEW i \in Ids,
                      WritesTo(write_set[t], c, i) # {},
                      \A n \in WritesTo(write_set[t], c, i) : write_set[t][n].kind = "put"
               PROVE  live[c][i] = snapshot[t][c][i]
    OBVIOUS
  <2> DEFINE read == [coll |-> c, id |-> i, doc |-> snapshot[t][c][i]]
  <2>1. read \in read_set[t]
    BY DEF BufferInv, Consistent, CoveredPuts
  <2>2. \A r \in read_set[t] : live[r.coll][r.id] = r.doc
    BY EndIs DEF CommitOptimistic, Valid
  <2>3. live[read.coll][read.id] = read.doc
    BY <2>1, <2>2
  <2> QED
    BY <2>3
<1> QED
  BY <1>1, TypeCorrect, BuffersInvariant, PTL DEF NoLostUpdate, Spec

(* If what a transaction is validated against is its snapshot, it is valid, *)
(* or it has iterated over a created collection: there an iterator reports  *)
(* the default tree (db.zig:1304), and that is all that may go wrong.       *)
THEOREM ConflictsMeanChange == Spec => ConflictMeansChange
<1>1. TypeOK /\ BufferInv /\ [Next]_vars =>
         \A t \in Threads : Ends(t, "conflict") =>
            live # snapshot[t] \/ \E r \in range_set[t] : Astray(r)
  <2> SUFFICES ASSUME TypeOK, BufferInv, [Next]_vars, NEW t \in Threads, Ends(t, "conflict"),
                      live = snapshot[t], \A r \in range_set[t] : ~Astray(r)
               PROVE  FALSE
    OBVIOUS
  <2>1. \A r \in read_set[t] : live[r.coll][r.id] = r.doc
    BY DEF BufferInv, Consistent, RecordedReads
  <2>2. \A r \in range_set[t] : Confirmed(r, live[r.coll])
    BY DEF BufferInv, Consistent, ReportsAnswer
  <2> QED
    BY <2>1, <2>2, EndIs DEF Conflict, Valid
<1> QED
  BY <1>1, TypeCorrect, BuffersInvariant, PTL DEF ConflictMeansChange, Spec

(* A report that is confirmed by a tree is what a query of the tree yields. *)
LEMMA ConfirmedAnswers ==
  ASSUME NEW r \in Reports, NEW tree \in Trees, Confirmed(r, tree)
  PROVE  Answers(r, tree)
<1> DEFINE M == {i \in Ids : tree[i] \in r.docs}
           now == Answer(r.kind, r.docs, tree)
           ids == r.ids
<1>1. /\ now \in Seq(Ids) /\ now \in [1..Len(now) -> M]
      /\ \A m, n \in 1..Len(now) : m < n => Before(r.kind, tree, now[m], now[n])
      /\ \A m, n \in 1..Len(now) : now[m] = now[n] => m = n
      /\ \A i \in M : \E n \in 1..Len(now) : now[n] = i
  BY AnswerIs
<1>2. /\ ids \in Seq(Ids) /\ Len(ids) <= Len(now)
      /\ SubSeq(ids, 1, Len(ids)) = SubSeq(now, 1, Len(ids))
      /\ r.complete => ids = now
  <2>1. ids \in Seq(Ids)
    BY DEF Reports
  <2>2. IsPrefix(ids, now) /\ (r.complete => ids = now)
    BY DEF Confirmed
  <2> HIDE DEF ids, now
  <2> QED
    BY <2>1, <2>2 DEF IsPrefix
<1> HIDE DEF now
<1>3. /\ Len(ids) \in Nat /\ Len(now) \in Nat /\ DOMAIN ids = 1..Len(ids)
      /\ \A n \in 1..Len(ids) : n \in 1..Len(now) /\ ids[n] = now[n]
  <2> HIDE DEF ids
  <2>1. Len(ids) \in Nat /\ Len(now) \in Nat /\ DOMAIN ids = 1..Len(ids)
    BY <1>1, <1>2
  <2>2. ASSUME NEW n \in 1..Len(ids) PROVE n \in 1..Len(now) /\ ids[n] = now[n]
    <3>1. SubSeq(ids, 1, Len(ids))[n] = ids[n]
      BY <1>2, <2>1
    <3>2. SubSeq(now, 1, Len(ids))[n] = now[n]
      BY <1>1, <1>2, <2>1
    <3> QED
      BY <1>2, <2>1, <3>1, <3>2
  <2> QED
    BY <2>1, <2>2
<1>4. ToSet(ids) = {ids[n] : n \in 1..Len(ids)}
  BY <1>3 DEF ToSet
<1> HIDE DEF ids, M
<1>5. ToSet(ids) \subseteq M
  BY <1>1, <1>3, <1>4
<1>6. Cardinality(ToSet(ids)) = Len(ids)
  <2> DEFINE f == [n \in 1..Len(ids) |-> ids[n]]
  <2>1. f \in [1..Len(ids) -> ToSet(ids)]
    BY <1>4
  <2>2. \A m, n \in 1..Len(ids) : f[m] = f[n] => m = n
    BY <1>1, <1>3
  <2>3. \A i \in ToSet(ids) : \E n \in 1..Len(ids) : f[n] = i
    BY <1>4
  <2> HIDE DEF f
  <2>4. f \in Injection(1..Len(ids), ToSet(ids))
    BY <2>1, <2>2, Fun_IsInj
  <2>5. f \in Surjection(1..Len(ids), ToSet(ids))
    BY <2>1, <2>3, Fun_IsSurj
  <2>6. f \in Bijection(1..Len(ids), ToSet(ids))
    BY <2>4, <2>5, Fun_IsBij
  <2>7. IsFiniteSet(1..Len(ids)) /\ Cardinality(1..Len(ids)) = Len(ids)
    <3> DEFINE n == Len(ids)
    <3>1. n \in Nat
      BY <1>3
    <3> HIDE DEF n
    <3>2. IsFiniteSet(1..n) /\ Cardinality(1..n) = IF 1 > n THEN 0 ELSE n - 1 + 1
      BY <3>1, FS_Interval
    <3> QED
      BY <3>1, <3>2 DEF n
  <2>8. ExistsBijection(1..Len(ids), ToSet(ids))
    BY <2>6 DEF ExistsBijection
  <2> QED
    BY <2>7, <2>8, FS_Bijection
<1>7. r.complete => ToSet(ids) = M
  <2> SUFFICES ASSUME r.complete, NEW i \in M PROVE i \in ToSet(ids)
    BY <1>5
  <2>1. ids = now
    BY <1>2
  <2>2. PICK n \in 1..Len(now) : now[n] = i
    BY <1>1
  <2> QED
    BY <1>4, <2>1, <2>2
<1>8. ASSUME r.kind = "scan", NEW i \in M, NEW j \in ToSet(ids), i < j
      PROVE  i \in ToSet(ids)
  <2>1. PICK m \in 1..Len(ids) : ids[m] = j
    BY <1>4
  <2>2. PICK n \in 1..Len(now) : now[n] = i
    BY <1>1
  <2>3. now[m] = j /\ m \in 1..Len(now)
    BY <1>3, <2>1
  <2>4. i \in Nat /\ j \in Nat
    BY <1>5, <1>8 DEF M, Ids
  <2>5. ~Before(r.kind, tree, j, i)
    BY <1>8, <2>4 DEF Before
  <2>6. ~(m < n)
    BY <1>1, <2>2, <2>3, <2>5
  <2>7. n \in 1..Len(ids)
    BY <1>3, <2>6
  <2>8. ids[n] = i
    BY <1>3, <2>2, <2>7
  <2> QED
    BY <1>4, <2>7, <2>8
<1> QED
  BY <1>5, <1>6, <1>7, <1>8 DEF Answers, M, ids

(* A collection's writes published are all of them if they are its own. *)
LEMMA CommitPublishesWrites ==
  ASSUME TypeOK, NEW t \in Threads, WritesOneCollection(t), OneCollection, CommitOptimistic(t)
  PROVE  live' = After(write_set[t], live)
<1> DEFINE ws == write_set[t]
           cid == CommitCollection(ws)
<1>1. live' = [live EXCEPT ![cid] = After(ws, live)[cid]]
  BY DEF CommitOptimistic
<1>2. \A n \in DOMAIN ws : ws[n].coll = cid
  <2>1. ws \in Seq(Writes)
    BY DEF TypeOK
  <2>2. CASE ws = <<>>
    BY <2>2
  <2>3. CASE ws # <<>>
    <3>1. 1 \in DOMAIN ws
      BY <2>1, <2>3
    <3>2. \A n \in DOMAIN ws : ws[n].coll = ws[1].coll
      BY <3>1 DEF WritesOneCollection
    <3> QED
      BY <2>3, <3>2 DEF CommitCollection
  <2> QED
    BY <2>2, <2>3
<1>3. live \in Databases /\ live \in [Colls -> Trees]
  BY DEF TypeOK, Databases
<1> HIDE DEF cid, ws
<1>4. ASSUME NEW c \in Colls PROVE live'[c] = After(ws, live)[c]
  <2>1. CASE c = cid
    BY <1>1, <1>3, <2>1
  <2>2. CASE c # cid
    <3>1. After(ws, live)[c] = live[c]
      BY <1>2, <1>3, <2>2, AfterElsewhere
    <3> QED
      BY <1>1, <1>3, <2>2, <3>1
  <2> QED
    BY <2>1, <2>2
<1>5. live' = [c \in Colls |-> live'[c]]
  BY <1>1, <1>3
<1>6. After(ws, live) = [c \in Colls |-> After(ws, live)[c]]
  BY DEF After
<1> QED
  BY <1>4, <1>5, <1>6 DEF ws

(* A transaction that commits might have run alone at its commit, if what it *)
(* writes is in one collection. *)
THEOREM CommitsSerialise ==
  ASSUME OneCollection
  PROVE  Spec => Serialisable
<1>1. TypeOK /\ BufferInv /\ [Next]_vars =>
         \A t \in Threads : Ends(t, "committed") =>
          /\ \A g \in gets[t] :
                After(SubSeq(write_set[t], 1, g.after), live)[g.coll][g.id] = g.doc
          /\ \A r \in range_set[t] : Answers(r, live[r.coll])
          /\ live' = After(write_set[t], live)
  <2> SUFFICES ASSUME TypeOK, BufferInv, [Next]_vars, NEW t \in Threads, Ends(t, "committed")
               PROVE  /\ \A g \in gets[t] :
                            After(SubSeq(write_set[t], 1, g.after), live)[g.coll][g.id] = g.doc
                      /\ \A r \in range_set[t] : Answers(r, live[r.coll])
                      /\ live' = After(write_set[t], live)
    OBVIOUS
  <2>1. CommitOptimistic(t) /\ Consistent(t)
    BY EndIs DEF BufferInv
  <2>2. /\ \A r \in read_set[t] : live[r.coll][r.id] = r.doc
        /\ \A r \in range_set[t] : Confirmed(r, live[r.coll])
    BY <2>1 DEF CommitOptimistic, Valid
  <2>3. ASSUME NEW g \in gets[t]
        PROVE  After(SubSeq(write_set[t], 1, g.after), live)[g.coll][g.id] = g.doc
    <3> DEFINE ws == SubSeq(write_set[t], 1, g.after)
               read == [coll |-> g.coll, id |-> g.id, doc |-> snapshot[t][g.coll][g.id]]
    <3>1. g.coll \in Colls /\ g.id \in Ids
      BY DEF TypeOK, Gets
    <3>2. /\ After(ws, snapshot[t])[g.coll][g.id] = g.doc
          /\ WritesTo(ws, g.coll, g.id) = {} => read \in read_set[t]
      BY <2>1 DEF Consistent, ExplainedGets
    <3> HIDE DEF ws
    <3>3. CASE WritesTo(ws, g.coll, g.id) = {}
      <4>1. live[read.coll][read.id] = read.doc
        BY <2>2, <3>2, <3>3
      <4>2. live[g.coll][g.id] = snapshot[t][g.coll][g.id]
        BY <4>1
      <4> QED
        BY <3>1, <3>2, <3>3, <4>2, AfterAt DEF ws
    <3>4. CASE WritesTo(ws, g.coll, g.id) # {}
      BY <3>1, <3>2, <3>4, AfterAt DEF ws
    <3> QED
      BY <3>3, <3>4
  <2>4. ASSUME NEW r \in range_set[t] PROVE Answers(r, live[r.coll])
    <3>1. r \in Reports /\ live \in Databases
      BY DEF TypeOK
    <3>2. live[r.coll] \in Trees
      BY <3>1 DEF Reports, Databases
    <3> QED
      BY <2>2, <3>1, <3>2, ConfirmedAnswers
  <2>5. live' = After(write_set[t], live)
    BY <2>1, OneCollection, CommitPublishesWrites DEF Consistent
  <2> QED
    BY <2>3, <2>4, <2>5
<1> QED
  BY <1>1, TypeCorrect, BuffersInvariant, PTL DEF Serialisable, Spec

(* An explicit transaction publishes all that it wrote, if it writes the *)
(* default collection only: the commit publishes the root of that one. *)
THEOREM CommitsPublishAll ==
  ASSUME OneCollection
  PROVE  Spec => CommitPublishesAll
<1>1. TypeOK /\ BufferInv /\ [Next]_vars =>
         \A t \in Threads : owner = t /\ owner' # t /\ outcome' = "committed" => live' = work
  <2> SUFFICES ASSUME TypeOK, BufferInv, [Next]_vars, NEW t \in Threads,
                      owner = t, owner' # t, outcome' = "committed"
               PROVE  live' = work
    OBVIOUS
  <2>1. t # NoThread
    BY ConstantsAssumption
  <2>2. Commit(t)
    <3>1. ASSUME NEW u \in Threads, Reading(u) \/ Writing(u) PROVE FALSE
      BY <3>1 DEF Reading, Writing, Get, Find, Iterate, Put, Insert
    <3>2. ASSUME NEW u \in Threads, BeginOptimistic(u) \/ Ending(u) PROVE FALSE
      BY <2>1, <3>2 DEF BeginOptimistic, Ending, CommitOptimistic, CommitOptimisticFail, Conflict,
                        CommitRefused, AbortOptimistic, MayCommit, db
    <3>3. ASSUME NEW u \in Threads, Pessimistic(u) PROVE Commit(t)
      BY <2>1, <3>3 DEF Pessimistic, AutoPut, TxnPut, AutoInsert, Begin, Commit, CommitFail, Abort
    <3> QED
      BY <3>1, <3>2, <3>3, Steps DEF Reopen, vars
  <2>3. \A c \in Colls \ {0} : work[c] = live[c]
    BY <2>1, OneCollection DEF BufferInv, OwnerWritesDefault
  <2>4. live' = [live EXCEPT ![0] = work[0]]
    BY <2>2 DEF Commit
  <2>5. live \in [Colls -> Trees] /\ work \in [Colls -> Trees]
    BY DEF TypeOK, Databases
  <2>6. live' \in [Colls -> Trees]
    BY <2>4, <2>5
  <2>7. \A c \in Colls : live'[c] = work[c]
    BY <2>3, <2>4, <2>5
  <2> QED
    BY <2>5, <2>6, <2>7
<1> QED
  BY <1>1, TypeCorrect, BuffersInvariant, PTL DEF CommitPublishesAll, Spec
=============================================================================
