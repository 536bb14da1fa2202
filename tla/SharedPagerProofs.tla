-------------------------- MODULE SharedPagerProofs --------------------------
(***************************************************************************)
(* What SharedPager guarantees for any processes, collections and keys and *)
(* any number of commits, opens and crashes, proved with TLAPS.            *)
(*                                                                         *)
(* The argument has three storeys.  TypeInv: who holds which lock, that no *)
(* two records have one number, and that whoever waits for a number or a   *)
(* page gets one.  PageInv: what is reachable is below num_pages, and a    *)
(* transaction has its page to itself and builds on the live root; a       *)
(* writer's abort breaks this beside a writer of another collection, hence *)
(* RollbackAlone.  KeptInv: numbers grow along the WAL, so that a replay   *)
(* ends with the newest write of each key; holes, failed replays and those *)
(* that die beside a live process break this, hence Calm and PeersGone.    *)
(***************************************************************************)
EXTENDS SharedPager, NumberTheorems, FiniteSetTheorems, FunctionTheorems, TLAPS

(* The inductive invariant.                                                 *)

\* A transaction that has its number, and one that has its page.
Active == {"txn", "dirty", "appended", "written"}
Owning == {"dirty", "appended", "written"}

\* Processes that hold byte 0 EXCL, and SHARED.
ExclPcs == {"opening", "replay", "checkpoint"}
SharedPcs == {"begin", "locked"} \cup Active

\* Who holds which lock: byte 0 never both ways, byte 16+coll by the one
\* transaction that is past BeginWriter.
Locks ==
    /\ shared = {p \in Procs : pc[p] \in SharedPcs}
    /\ \A p \in Procs : excl = p <=> pc[p] \in ExclPcs
    /\ excl # NoProc => shared = {}
    /\ \A p \in Procs : pc[p] \in {"locked"} \cup Active => writer[txn[p].coll] = p

\* A snapshot under capture has a slot left; a replay scanned the WAL before,
\* and left no zeros in it.
Scans ==
    \A p \in Procs :
        /\ pc[p] = "capture" => Len(snap[p]) < NumColls
        /\ pc[p] = "replay" => pos[p] \in 1..(Len(wal) + 1) /\ wal \in Seq(Records)

\* No two records or transactions have the same number.
Numbered ==
    /\ \A i, j \in DOMAIN wal :
          wal[i] # Hole /\ wal[j] # Hole =>
              wal[i].id < nextTxn /\ (wal[i].id = wal[j].id => i = j)
    /\ \A p \in Procs : pc[p] \in Active => txn[p].id \in 1..(nextTxn - 1)
    /\ \A p, q \in Procs :
          pc[p] \in Active /\ pc[q] \in Active /\ txn[p].id = txn[q].id => p = q
    /\ \A p \in Procs : pc[p] \in Active \ {"appended", "written"} =>
          \A i \in DOMAIN wal : wal[i] # Hole => wal[i].id # txn[p].id
    /\ \A p \in Procs : pc[p] \in Owning => txn[p].put # <<>>

\* A transaction that waits for its number finds one.
Quota == nextTxn + Cardinality(Waiting) <= MaxTxns + 1

\* The page ids that transactions begun and opens, each of at most MaxTxns
\* records, have been able to use so far.
Started == {p \in Procs : pc[p] = "txn"}
Budget == nextTxn + opens * MaxTxns - Cardinality(Started)

\* A page for whoever is going to take one; an abort does not change that.
Room ==
    /\ numPages <= Budget
    /\ \A p \in Procs :
          /\ pc[p] = "opening" => numPages + MaxTxns <= Budget
          /\ pc[p] = "replay" => numPages + MaxTxns + 1 - pos[p] <= Budget
          /\ pc[p] \in Active => txn[p].pages # 0 /\ txn[p].pages <= Budget

TypeInv == TypeOK /\ Locks /\ Scans /\ Numbered /\ Quota /\ Room

(* What holds where an abort's roll-back of num_pages meets no other          *)
(* transaction.                                                             *)

SingleProcess == \A p, q \in Procs : p = q
Alone == SingleProcess \/ NumColls = 1
RollbackAlone == MaxAborts = 0 \/ Alone

\* Trees in use are below num_pages, and below what an abort may put back;
\* the page of a transaction is its own.
Private ==
    /\ \A g \in Reachable : g < numPages
    /\ \A p \in Procs : pc[p] \in Owning =>
          /\ txn[p].page \in Pages /\ txn[p].page < numPages
          /\ txn[p].page \notin Reachable
    /\ \A p, q \in Procs :
          pc[p] \in Owning /\ pc[q] \in Owning /\ txn[p].page = txn[q].page => p = q
    /\ MaxAborts # 0 => \A p \in Procs : pc[p] \in Active =>
          /\ txn[p].pages <= numPages
          /\ \A g \in Reachable : g < txn[p].pages

\* A transaction builds on the root that is live, and its page is its tree.
BasedAt(p) ==
    /\ txn[p].base = roots[txn[p].coll]
    /\ pc[p] \in Owning =>
          txn[p].tree = [Tree(txn[p].base) EXCEPT ![Head(txn[p].put)] = txn[p].id]
    /\ pc[p] = "written" => file[txn[p].page] = txn[p].tree

Based == \A p \in Procs : pc[p] \in Active => BasedAt(p)

PageInv == TypeInv /\ Private /\ Based

(* What holds until a record goes behind a hole, a replay fails, or a       *)
(* process dies in its replay beside others.                                *)

NoHole == \A i \in DOMAIN wal : wal[i] # Hole
Calm == NoHole /\ replayErrors = 0

\* Of a step: no process has the file open when another dies in its replay.
PeersGone ==
    \A p \in Procs : pc[p] = "replay" /\ pc'[p] = "closed" =>
        \A q \in Procs : pc'[q] = "closed"

\* The records of a collection and key.
Logged(c, k) == {i \in DOMAIN wal : wal[i].coll = c /\ wal[i].key = k}

\* A collection's numbers grow: along the WAL, and from what is published to
\* the transaction under way, whose record is the last.
OrderedAt(p) ==
    /\ \A k \in Keys : published[txn[p].coll][k] < txn[p].id
    /\ \A i \in DOMAIN wal : wal[i].coll = txn[p].coll => wal[i].id <= txn[p].id
    /\ pc[p] \in {"appended", "written"} =>
          \E i \in Logged(txn[p].coll, Head(txn[p].put)) : wal[i].id = txn[p].id

Ordered ==
    /\ \A i, j \in DOMAIN wal : wal[i].coll = wal[j].coll /\ i < j => wal[i].id < wal[j].id
    /\ \A c \in Colls, k \in Keys : published[c][k] < nextTxn
    /\ \A p \in Procs : pc[p] \in Active => OrderedAt(p)

\* A live tree has what is published in a key; a replay may put back an older
\* write, but has the newest in the WAL before it ends.
Kept(c, k) == Tree(roots[c])[k] >= published[c][k]

RestoredAt(c, k) ==
    IF Logged(c, k) = {} THEN Kept(c, k)
    ELSE \E i \in Logged(c, k) : wal[i].id >= published[c][k]

Restored ==
    /\ \A c \in Colls, k \in Keys : RestoredAt(c, k)
    /\ \A p \in Procs : pc[p] = "replay" =>
          \A i \in 1..(pos[p] - 1) : Tree(roots[wal[i].coll])[wal[i].key] >= wal[i].id
    /\ (\E p \in Procs : pc[p] \notin {"closed", "opening", "replay"})
          /\ (\A p \in Procs : pc[p] # "replay") =>
             \A c \in Colls, k \in Keys : Kept(c, k)

KeptInv == PageInv /\ Ordered /\ Restored

-----------------------------------------------------------------------------
(* What the steps of a commit do to the transaction's record.               *)

(* BeginShared sets the collection, and nothing of another transaction. *)
LEMMA BeginSharedTxn ==
  ASSUME TypeOK, NEW p \in Procs, NEW c \in Colls, BeginShared(p, c)
  PROVE  /\ txn' \in [Procs -> Transactions]
         /\ \A q \in Procs \ {p} : txn'[q] = txn[q]
         /\ txn'[p].coll = c
<1>1. \A q \in Procs \ {p} : txn'[q] = txn[q]
  BY DEF BeginShared, TypeOK
<1>2. txn'[p] \in Transactions
  BY ZenonT(40) DEF BeginShared, TypeOK, Transactions
<1>3. txn'[p].coll = c
  BY DEF BeginShared, TypeOK, Transactions
<1> QED
  BY <1>1, <1>2, <1>3 DEF BeginShared, TypeOK

(* Refresh sets the number, the root to build on and the page count. *)
LEMMA RefreshTxn ==
  ASSUME TypeOK, NEW p \in Procs, Refresh(p)
  PROVE  /\ nextTxn <= MaxTxns => txn' \in [Procs -> Transactions]
         /\ \A q \in Procs \ {p} : txn'[q] = txn[q]
         /\ txn'[p].coll = txn[p].coll
         /\ txn'[p].base = roots[txn[p].coll]
         /\ txn'[p].pages = numPages
         /\ txn'[p].id = nextTxn
         /\ pc[p] = "locked" /\ pc' = [pc EXCEPT ![p] = "txn"]
         /\ nextTxn' = nextTxn + 1
         /\ UNCHANGED <<excl, shared, writer, numPages, roots, file, wal, walEnd, pos, snap,
                        opens, crashes, aborts, replayErrors, published>>
<1>1. \A q \in Procs \ {p} : txn'[q] = txn[q]
  BY DEF Refresh, TypeOK
<1>2. nextTxn <= MaxTxns => txn'[p] \in Transactions
  <2>1. txn[p].coll \in Colls
    BY DEF TypeOK, Transactions
  <2>2. roots[txn[p].coll] \in {0} \cup Pages
    BY <2>1 DEF TypeOK
  <2>3. numPages \in Nat
    BY DEF TypeOK
  <2>4. nextTxn <= MaxTxns => nextTxn \in 0..MaxTxns
    BY ConstantsAssumption DEF TypeOK
  <2> QED
    BY ZenonT(40), <2>2, <2>3, <2>4 DEF Refresh, TypeOK, Transactions
<1>3. /\ txn'[p].coll = txn[p].coll
      /\ txn'[p].base = roots[txn[p].coll]
      /\ txn'[p].pages = numPages
      /\ txn'[p].id = nextTxn
  BY DEF Refresh, TypeOK, Transactions
<1> QED
  BY <1>1, <1>2, <1>3 DEF Refresh, TypeOK, Goto, locks, shm, log

(* Put makes a new tree of the base and takes a page for it. *)
LEMMA PutTxn ==
  ASSUME TypeOK, NEW p \in Procs, NEW k \in Keys, Put(p, k)
  PROVE  /\ numPages \in Pages => txn' \in [Procs -> Transactions]
         /\ \A q \in Procs \ {p} : txn'[q] = txn[q]
         /\ txn'[p].coll = txn[p].coll
         /\ txn'[p].base = txn[p].base
         /\ txn'[p].pages = txn[p].pages
         /\ txn'[p].id = txn[p].id
         /\ txn'[p].put = <<k>>
         /\ txn'[p].page = numPages
         /\ txn'[p].tree = [Tree(txn[p].base) EXCEPT ![k] = txn[p].id]
         /\ pc[p] = "txn" /\ pc' = [pc EXCEPT ![p] = "dirty"]
         /\ numPages' = numPages + 1
         /\ UNCHANGED <<excl, shared, writer, roots, file, wal, walEnd, pos, snap, nextTxn,
                        opens, crashes, aborts, replayErrors, published>>
<1>1. \A q \in Procs \ {p} : txn'[q] = txn[q]
  BY DEF Put, TypeOK
<1>2. numPages \in Pages => txn'[p] \in Transactions
  <2>1. txn[p].base \in {0} \cup Pages /\ txn[p].id \in 0..MaxTxns
    BY DEF TypeOK, Transactions
  <2>2. Tree(txn[p].base) \in Trees
    BY <2>1, ConstantsAssumption DEF Tree, EmptyTree, Trees, TypeOK
  <2>3. [Tree(txn[p].base) EXCEPT ![k] = txn[p].id] \in Trees
    BY <2>1, <2>2 DEF Trees
  <2> HIDE DEF Tree
  <2> QED
    BY ZenonT(40), <2>3 DEF Put, TypeOK, Transactions
<1>3. /\ txn'[p].coll = txn[p].coll
      /\ txn'[p].base = txn[p].base
      /\ txn'[p].pages = txn[p].pages
      /\ txn'[p].id = txn[p].id
      /\ txn'[p].put = <<k>>
      /\ txn'[p].page = numPages
      /\ txn'[p].tree = [Tree(txn[p].base) EXCEPT ![k] = txn[p].id]
  BY DEF Put, TypeOK, Transactions
<1> QED
  BY <1>1, <1>2, <1>3 DEF Put, TypeOK, Goto, locks, log, counts

(* CommitAppend writes the transaction's record behind both ends, over zeros. *)
LEMMA CommitAppendWal ==
  ASSUME TypeOK, Numbered, NEW p \in Procs, CommitAppend(p)
  PROVE  \E end \in Nat, rec \in Records :
            /\ Len(wal) <= end /\ walEnd[p] <= end /\ end \in {Len(wal), walEnd[p]}
            /\ wal' \in Seq(Records \cup {Hole}) /\ Len(wal') = end + 1
            /\ \A i \in 1..Len(wal) : wal'[i] = wal[i]
            /\ \A i \in (Len(wal) + 1)..end : wal'[i] = Hole
            /\ wal'[end + 1] = rec
            /\ rec = [coll |-> txn[p].coll, key |-> Head(txn[p].put), id |-> txn[p].id]
            /\ walEnd' = [walEnd EXCEPT ![p] = end + 1]
<1> DEFINE end == Max({walEnd[p], Len(wal)})
           rec == [coll |-> txn[p].coll, key |-> Head(txn[p].put), id |-> txn[p].id]
           old == [i \in 1..end |-> IF i <= Len(wal) THEN wal[i] ELSE Hole]
<1>1. walEnd[p] \in Nat /\ Len(wal) \in Nat
  BY DEF TypeOK
<1>2. /\ end \in Nat /\ Len(wal) <= end /\ walEnd[p] <= end
      /\ end \in {Len(wal), walEnd[p]}
  <2>1. /\ {walEnd[p], Len(wal)} \in SUBSET Nat
        /\ {walEnd[p], Len(wal)} # {}
        /\ walEnd[p] + Len(wal) \in Nat
        /\ \A n \in {walEnd[p], Len(wal)} : n <= walEnd[p] + Len(wal)
    BY <1>1
  <2>2. end \in {walEnd[p], Len(wal)} /\ \A n \in {walEnd[p], Len(wal)} : n <= end
    BY <2>1, MaxOfBounded
  <2> QED
    BY <1>1, <2>2
<1>3. rec \in Records
  <2>1. /\ txn[p] \in Transactions /\ pc[p] = "dirty"
    BY DEF CommitAppend, TypeOK
  <2>2. txn[p].id \in Txns
    BY <2>1, ConstantsAssumption DEF Numbered, Active, Transactions, Txns, TypeOK
  <2>3. txn[p].put # <<>>
    BY <2>1 DEF Numbered, Owning
  <2>4. Head(txn[p].put) \in Keys
    BY <2>1, <2>3 DEF Transactions
  <2>5. txn[p].coll \in Colls
    BY <2>1 DEF Transactions
  <2> QED
    BY <2>2, <2>4, <2>5 DEF Records
<1>4. wal' = old \o <<rec>> /\ walEnd' = [walEnd EXCEPT ![p] = end + 1]
  BY DEF CommitAppend
<1> HIDE DEF end, rec
<1>5. old \in Seq(Records \cup {Hole}) /\ Len(old) = end
  <2>1. wal \in Seq(Records \cup {Hole})
    BY DEF TypeOK
  <2> QED
    BY <1>1, <1>2, <2>1
<1>6. /\ \A i \in 1..Len(wal) : old[i] = wal[i]
      /\ \A i \in (Len(wal) + 1)..end : old[i] = Hole
  BY <1>1, <1>2
<1> HIDE DEF old
<1>7. /\ wal' \in Seq(Records \cup {Hole}) /\ Len(wal') = end + 1
      /\ \A i \in 1..end : wal'[i] = old[i]
      /\ wal'[end + 1] = rec
  <2>1. <<rec>> \in Seq(Records \cup {Hole}) /\ Len(<<rec>>) = 1 /\ <<rec>>[1] = rec
    BY <1>3
  <2>2. old \o <<rec>> \in Seq(Records \cup {Hole}) /\ Len(old \o <<rec>>) = end + 1
    BY <1>2, <1>5, <2>1
  <2>3. \A i \in 1..end : (old \o <<rec>>)[i] = old[i]
    BY <1>2, <1>5, <2>1
  <2>4. (old \o <<rec>>)[end + 1] = rec
    BY <1>2, <1>5, <2>1
  <2> QED
    BY <1>4, <2>2, <2>3, <2>4
<1>8. /\ \A i \in 1..Len(wal) : wal'[i] = wal[i]
      /\ \A i \in (Len(wal) + 1)..end : wal'[i] = Hole
  BY <1>1, <1>2, <1>6, <1>7
<1>9. rec = [coll |-> txn[p].coll, key |-> Head(txn[p].put), id |-> txn[p].id]
  BY DEF rec
<1> QED
  BY <1>2, <1>3, <1>4, <1>7, <1>8, <1>9

(* A checkpoint that fails keeps the WAL, or leaves zeros in its place. *)
LEMMA CheckpointFailWal ==
  ASSUME TypeOK, NEW p \in Procs, NEW l \in {"idle", "closed"}, CheckpointFail(p, l)
  PROVE  /\ wal' \in Seq(Records \cup {Hole})
         /\ Len(wal') = Len(wal) /\ DOMAIN wal' = DOMAIN wal
         /\ \A i \in DOMAIN wal : wal'[i] # Hole => wal'[i] = wal[i]
         /\ wal' = wal \/ \A i \in DOMAIN wal : wal'[i] = Hole
<1>1. wal \in Seq(Records \cup {Hole})
  BY DEF TypeOK
<1>2. CASE wal' = wal
  BY <1>1, <1>2
<1>3. CASE wal' = [i \in DOMAIN wal |-> Hole]
  BY <1>1, <1>3
<1> QED
  BY <1>2, <1>3 DEF CheckpointFail

(* No transaction: the record of an idle process is of its type. *)
LEMMA NoTxnType == NoTxn \in Transactions
  BY ConstantsAssumption DEF NoTxn, Transactions, Colls, EmptyTree, Trees

(* How the number of waiting transactions and of those without a page changes *)
(* when one process goes on. *)
LEMMA Moves ==
  ASSUME TypeOK, NEW p \in Procs, \A q \in Procs \ {p} : pc'[q] = pc[q]
  PROVE  /\ Cardinality(Waiting) \in Nat /\ Cardinality(Started) \in Nat
         /\ Cardinality(Waiting') = Cardinality(Waiting)
               + (IF pc'[p] \in {"begin", "locked"} THEN 1 ELSE 0)
               - (IF pc[p] \in {"begin", "locked"} THEN 1 ELSE 0)
         /\ Cardinality(Started') = Cardinality(Started)
               + (IF pc'[p] = "txn" THEN 1 ELSE 0) - (IF pc[p] = "txn" THEN 1 ELSE 0)
<1>1. pc \in [Procs -> Pcs]
  BY DEF TypeOK
<1>2. IsFiniteSet(Waiting) /\ IsFiniteSet(Started)
  <2>1. Waiting \in SUBSET Procs /\ Started \in SUBSET Procs
    BY DEF Waiting, Started
  <2> QED
    BY <2>1, FS_Subset, ConstantsAssumption
<1>3. Cardinality(Waiting) \in Nat /\ Cardinality(Started) \in Nat
  BY <1>2, FS_CardinalityType
<1>4. Waiting' = IF pc'[p] \in {"begin", "locked"} THEN Waiting \cup {p} ELSE Waiting \ {p}
  BY <1>1 DEF Waiting
<1>5. Started' = IF pc'[p] = "txn" THEN Started \cup {p} ELSE Started \ {p}
  BY <1>1 DEF Started
<1>6. p \in Waiting <=> pc[p] \in {"begin", "locked"}
  BY DEF Waiting
<1>7. p \in Started <=> pc[p] = "txn"
  BY DEF Started
<1>8. /\ Cardinality(Waiting \cup {p}) =
            IF p \in Waiting THEN Cardinality(Waiting) ELSE Cardinality(Waiting) + 1
      /\ Cardinality(Waiting \ {p}) =
            IF p \in Waiting THEN Cardinality(Waiting) - 1 ELSE Cardinality(Waiting)
  BY <1>2, FS_AddElement, FS_RemoveElement
<1>9. /\ Cardinality(Started \cup {p}) =
            IF p \in Started THEN Cardinality(Started) ELSE Cardinality(Started) + 1
      /\ Cardinality(Started \ {p}) =
            IF p \in Started THEN Cardinality(Started) - 1 ELSE Cardinality(Started)
  BY <1>2, FS_AddElement, FS_RemoveElement
<1>10. Cardinality(Waiting') = Cardinality(Waiting)
          + (IF pc'[p] \in {"begin", "locked"} THEN 1 ELSE 0)
          - (IF pc[p] \in {"begin", "locked"} THEN 1 ELSE 0)
  BY <1>3, <1>4, <1>6, <1>8
<1>11. Cardinality(Started') = Cardinality(Started)
          + (IF pc'[p] = "txn" THEN 1 ELSE 0) - (IF pc[p] = "txn" THEN 1 ELSE 0)
  BY <1>3, <1>5, <1>7, <1>9
<1> QED
  BY <1>3, <1>10, <1>11

(* ReplayScan keeps the records in front of the first zeros. *)
LEMMA GoodPrefixIsGood ==
  ASSUME TypeOK
  PROVE  /\ GoodPrefix \in 0..Len(wal)
         /\ \A i \in 1..GoodPrefix : wal[i] \in Records
         /\ Hole \notin {wal[i] : i \in DOMAIN wal} => GoodPrefix = Len(wal)
<1> DEFINE G == {n \in 0..Len(wal) : \A i \in 1..n : wal[i] # Hole}
<1>1. wal \in Seq(Records \cup {Hole}) /\ Len(wal) \in Nat
  BY DEF TypeOK
<1>2. G \in SUBSET Nat /\ 0 \in G /\ \A n \in G : n <= Len(wal)
  BY <1>1
<1>3. GoodPrefix = Max(G)
  BY DEF GoodPrefix
<1>4. Max(G) \in G /\ \A n \in G : n <= Max(G)
  <2> HIDE DEF G
  <2> QED
    BY <1>1, <1>2, MaxOfBounded
<1>5. Hole \notin {wal[i] : i \in DOMAIN wal} => Len(wal) \in G
  BY <1>1
<1>6. \A i \in 1..GoodPrefix : wal[i] \in Records
  BY <1>1, <1>3, <1>4
<1> QED
  BY SMTT(30), <1>1, <1>3, <1>4, <1>5, <1>6

(* Nobody opens or checkpoints the file beside a transaction. *)
LEMMA NoExclBesideShared ==
  ASSUME TypeOK, Locks, NEW p \in Procs, pc[p] \in SharedPcs
  PROVE  \A q \in Procs : pc[q] \notin ExclPcs
<1>1. excl = NoProc
  BY DEF Locks
<1> QED
  BY <1>1, ConstantsAssumption DEF Locks

(* Records with different numbers below MaxTxns + 1 are at most MaxTxns. *)
LEMMA WalFits ==
  ASSUME TypeOK, Numbered, wal \in Seq(Records)
  PROVE  Len(wal) <= MaxTxns
<1> DEFINE f == [i \in 1..Len(wal) |-> wal[i].id]
<1>1. \A i \in 1..Len(wal) : wal[i] \in Records /\ wal[i] # Hole
  BY HoleAssumption
<1>2. f \in [1..Len(wal) -> 1..MaxTxns]
  BY <1>1 DEF Records, Txns
<1>3. \A i, j \in 1..Len(wal) : f[i] = f[j] => i = j
  BY <1>1 DEF Numbered
<1>4. f \in Injection(1..Len(wal), 1..MaxTxns)
  BY <1>2, <1>3, Fun_IsInj
<1>5. ExistsInjection(1..Len(wal), 1..MaxTxns)
  BY <1>4 DEF ExistsInjection
<1>6. Len(wal) \in Nat
  OBVIOUS
<1> QED
  BY <1>5, <1>6, Fun_NatInjLeq, ConstantsAssumption


-----------------------------------------------------------------------------


(* Every step keeps the locks with their holders. *)
LEMMA LocksStep == TypeOK /\ Locks /\ [Next]_vars => Locks'
<1> SUFFICES ASSUME TypeOK /\ Locks, [Next]_vars PROVE Locks'
  OBVIOUS
<1>0. /\ pc \in [Procs -> Pcs] /\ excl \in Procs \cup {NoProc}
      /\ txn \in [Procs -> Transactions] /\ \A p \in Procs : txn[p].coll \in Colls
      /\ writer \in [Colls -> Procs \cup {NoProc}]
  BY DEF TypeOK, Transactions
<1> USE ConstantsAssumption DEF Locks, Active, ExclPcs, SharedPcs, Pcs
<1>1. ASSUME NEW p \in Procs, NEW c \in Colls, BeginShared(p, c) PROVE Locks'
  BY <1>1, <1>0, BeginSharedTxn DEF BeginShared, Goto, locks, shm, log, counts
<1>2. ASSUME NEW p \in Procs, BeginWriter(p) PROVE Locks'
  BY <1>2, <1>0 DEF BeginWriter, Goto, locks, shm, log, counts
<1>3. ASSUME NEW p \in Procs, Refresh(p) PROVE Locks'
  BY <1>3, <1>0, RefreshTxn
<1>4. ASSUME NEW p \in Procs, NEW k \in Keys, Put(p, k) PROVE Locks'
  <2>1. /\ \A q \in Procs : txn'[q].coll = txn[q].coll
        /\ pc[p] = "txn" /\ pc' = [pc EXCEPT ![p] = "dirty"]
        /\ UNCHANGED <<excl, shared, writer>>
    BY <1>4, PutTxn
  <2> QED
    BY <1>0, <2>1
<1>5. ASSUME NEW p \in Procs, CommitAppend(p) PROVE Locks'
  BY <1>5, <1>0 DEF CommitAppend, Goto, locks, shm, log, counts
<1>6. ASSUME NEW p \in Procs, WritePages(p) PROVE Locks'
  BY <1>6, <1>0 DEF WritePages, Goto, locks, shm, log, counts
<1>7. ASSUME NEW p \in Procs, Publish(p) PROVE Locks'
  BY <1>7, <1>0 DEF Publish, Goto, StoreRoot, Finish, locks, shm, log, counts
<1>8. ASSUME NEW p \in Procs, Abort(p) PROVE Locks'
  BY <1>8, <1>0 DEF Abort, Goto, Finish, locks, shm, log, counts
<1>9. ASSUME NEW p \in Procs, SnapshotBegin(p) PROVE Locks'
  BY <1>9, <1>0 DEF SnapshotBegin, Goto, locks, shm, log, counts
<1>10. ASSUME NEW p \in Procs, SnapshotSlot(p) PROVE Locks'
  BY <1>10, <1>0 DEF SnapshotSlot, Goto, locks, shm, log, counts
<1>11. ASSUME NEW p \in Procs, SnapshotClose(p) PROVE Locks'
  BY <1>11, <1>0 DEF SnapshotClose, Goto, locks, shm, log, counts
<1>12. ASSUME NEW p \in Procs, CheckpointLock(p) PROVE Locks'
  BY <1>12, <1>0 DEF CheckpointLock, Goto, locks, shm, log, counts
<1>13. ASSUME NEW p \in Procs, NEW l \in {"idle", "closed"}, CheckpointReset(p, l) PROVE Locks'
  BY <1>13, <1>0 DEF CheckpointReset, Goto, MayLeave, locks, shm, log, counts
<1>14. ASSUME NEW p \in Procs, NEW l \in {"idle", "closed"}, CheckpointFail(p, l) PROVE Locks'
  BY <1>14, <1>0 DEF CheckpointFail, Goto, MayLeave, locks, shm, log, counts
<1>15. ASSUME NEW p \in Procs, OpenLock(p) PROVE Locks'
  BY <1>15, <1>0 DEF OpenLock, Goto, locks, shm, log, counts
<1>16. ASSUME NEW p \in Procs, ReplayScan(p) PROVE Locks'
  BY <1>16, <1>0 DEF ReplayScan, Goto, locks, shm, log, counts
<1>17. ASSUME NEW p \in Procs, ReplayRecord(p) PROVE Locks'
  BY <1>17, <1>0 DEF ReplayRecord, Goto, StoreRoot, locks, shm, log, counts
<1>18. ASSUME NEW p \in Procs, ReplayError(p) PROVE Locks'
  BY <1>18, <1>0 DEF ReplayError, Goto, locks, shm, log, counts
<1>19. ASSUME NEW p \in Procs, OpenDone(p) PROVE Locks'
  BY <1>19, <1>0 DEF OpenDone, Goto, locks, shm, log, counts
<1>20. ASSUME NEW p \in Procs, Crash(p) PROVE Locks'
  BY <1>20, <1>0 DEF Crash, Goto, locks, shm, log, counts
<1>21. CASE UNCHANGED vars
  BY <1>21, <1>0 DEF vars, locks, shm, log, counts
<1> QED
  BY <1>1, <1>2, <1>3, <1>4, <1>5, <1>6, <1>7, <1>8, <1>9, <1>10,
     <1>11, <1>12, <1>13, <1>14, <1>15, <1>16, <1>17, <1>18, <1>19, <1>20, <1>21
     DEF Next, Commit, Snapshot, Checkpoint, Open

(* Every waiting transaction keeps a number left for it. *)
LEMMA QuotaStep == TypeOK /\ Quota /\ [Next]_vars => Quota'
<1> SUFFICES ASSUME TypeOK /\ Quota, [Next]_vars PROVE Quota'
  OBVIOUS
<1>0. /\ pc \in [Procs -> Pcs] /\ nextTxn \in Nat /\ MaxTxns \in Nat
  BY ConstantsAssumption DEF TypeOK
<1> USE DEF Quota
<1>1. ASSUME NEW p \in Procs, NEW c \in Colls, BeginShared(p, c) PROVE Quota'
  <2>0. pc' = [pc EXCEPT ![p] = "begin"] /\ pc[p] = "idle"
    BY <1>1 DEF BeginShared, Goto
  <2>1. Cardinality(Waiting) \in Nat /\ Cardinality(Waiting') = Cardinality(Waiting) + 1
    BY <2>0, <1>0, Moves DEF Pcs
  <2> QED
    BY <1>1, <1>0, <2>1 DEF BeginShared, counts
<1>2. ASSUME NEW p \in Procs, BeginWriter(p) PROVE Quota'
  <2>0. pc' = [pc EXCEPT ![p] = "locked"] /\ pc[p] = "begin"
    BY <1>2 DEF BeginWriter, Goto
  <2>1. Cardinality(Waiting) \in Nat /\ Cardinality(Waiting') = Cardinality(Waiting)
    BY <2>0, <1>0, Moves DEF Pcs
  <2> QED
    BY <1>2, <1>0, <2>1 DEF BeginWriter, counts
<1>3. ASSUME NEW p \in Procs, Refresh(p) PROVE Quota'
  <2>0. pc' = [pc EXCEPT ![p] = "txn"] /\ pc[p] = "locked"
    BY <1>3 DEF Refresh, Goto
  <2>1. Cardinality(Waiting) \in Nat /\ Cardinality(Waiting') = Cardinality(Waiting) - 1
    BY <2>0, <1>0, Moves DEF Pcs
  <2> QED
    BY <1>3, <1>0, <2>1 DEF Refresh, counts
<1>4. ASSUME NEW p \in Procs, NEW k \in Keys, Put(p, k) PROVE Quota'
  <2>0. pc' = [pc EXCEPT ![p] = "dirty"] /\ pc[p] = "txn"
    BY <1>4 DEF Put, Goto
  <2>1. Cardinality(Waiting) \in Nat /\ Cardinality(Waiting') = Cardinality(Waiting)
    BY <2>0, <1>0, Moves DEF Pcs
  <2> QED
    BY <1>4, <1>0, <2>1 DEF Put, counts
<1>5. ASSUME NEW p \in Procs, CommitAppend(p) PROVE Quota'
  <2>0. pc' = [pc EXCEPT ![p] = "appended"] /\ pc[p] = "dirty"
    BY <1>5 DEF CommitAppend, Goto
  <2>1. Cardinality(Waiting) \in Nat /\ Cardinality(Waiting') = Cardinality(Waiting)
    BY <2>0, <1>0, Moves DEF Pcs
  <2> QED
    BY <1>5, <1>0, <2>1 DEF CommitAppend, counts
<1>6. ASSUME NEW p \in Procs, WritePages(p) PROVE Quota'
  <2>0. pc' = [pc EXCEPT ![p] = "written"] /\ pc[p] = "appended"
    BY <1>6 DEF WritePages, Goto
  <2>1. Cardinality(Waiting) \in Nat /\ Cardinality(Waiting') = Cardinality(Waiting)
    BY <2>0, <1>0, Moves DEF Pcs
  <2> QED
    BY <1>6, <1>0, <2>1 DEF WritePages, counts
<1>7. ASSUME NEW p \in Procs, Publish(p) PROVE Quota'
  <2>0. pc' = [pc EXCEPT ![p] = "idle"] /\ pc[p] = "written"
    BY <1>7 DEF Publish, Goto, StoreRoot, Finish
  <2>1. Cardinality(Waiting) \in Nat /\ Cardinality(Waiting') = Cardinality(Waiting)
    BY <2>0, <1>0, Moves DEF Pcs
  <2> QED
    BY <1>7, <1>0, <2>1 DEF Publish, counts, StoreRoot, Finish
<1>8. ASSUME NEW p \in Procs, Abort(p) PROVE Quota'
  <2>0. pc' = [pc EXCEPT ![p] = "idle"] /\ pc[p] \in {"txn", "dirty", "appended", "written"}
    BY <1>8 DEF Abort, Goto, Finish
  <2>1. Cardinality(Waiting) \in Nat /\ Cardinality(Waiting') = Cardinality(Waiting)
    BY <2>0, <1>0, Moves DEF Pcs
  <2> QED
    BY <1>8, <1>0, <2>1 DEF Abort, counts, Finish
<1>9. ASSUME NEW p \in Procs, SnapshotBegin(p) PROVE Quota'
  <2>0. pc' = [pc EXCEPT ![p] = "capture"] /\ pc[p] = "idle"
    BY <1>9 DEF SnapshotBegin, Goto
  <2>1. Cardinality(Waiting) \in Nat /\ Cardinality(Waiting') = Cardinality(Waiting)
    BY <2>0, <1>0, Moves DEF Pcs
  <2> QED
    BY <1>9, <1>0, <2>1 DEF SnapshotBegin, counts
<1>10. ASSUME NEW p \in Procs, SnapshotSlot(p) PROVE Quota'
  <2>0. pc' = [pc EXCEPT ![p] = IF Len(snap[p]) + 1 = NumColls THEN "idle" ELSE "capture"] /\ pc[p] = "capture"
    BY <1>10 DEF SnapshotSlot, Goto
  <2>1. Cardinality(Waiting) \in Nat /\ Cardinality(Waiting') = Cardinality(Waiting)
    BY SMTT(30), <2>0, <1>0, Moves DEF Pcs
  <2> QED
    BY <1>10, <1>0, <2>1 DEF SnapshotSlot, counts
<1>11. ASSUME NEW p \in Procs, SnapshotClose(p) PROVE Quota'
  BY <1>11 DEF SnapshotClose, Waiting, counts
<1>12. ASSUME NEW p \in Procs, CheckpointLock(p) PROVE Quota'
  <2>0. pc' = [pc EXCEPT ![p] = "checkpoint"] /\ pc[p] = "idle"
    BY <1>12 DEF CheckpointLock, Goto
  <2>1. Cardinality(Waiting) \in Nat /\ Cardinality(Waiting') = Cardinality(Waiting)
    BY <2>0, <1>0, Moves DEF Pcs
  <2> QED
    BY <1>12, <1>0, <2>1 DEF CheckpointLock, counts
<1>13. ASSUME NEW p \in Procs, NEW l \in {"idle", "closed"}, CheckpointReset(p, l) PROVE Quota'
  <2>0. pc' = [pc EXCEPT ![p] = l] /\ pc[p] = "checkpoint"
    BY <1>13 DEF CheckpointReset, Goto, MayLeave
  <2>1. Cardinality(Waiting) \in Nat /\ Cardinality(Waiting') = Cardinality(Waiting)
    BY <2>0, <1>0, Moves DEF Pcs
  <2> QED
    BY <1>13, <1>0, <2>1 DEF CheckpointReset, counts, MayLeave
<1>14. ASSUME NEW p \in Procs, NEW l \in {"idle", "closed"}, CheckpointFail(p, l) PROVE Quota'
  <2>0. pc' = [pc EXCEPT ![p] = l] /\ pc[p] = "checkpoint"
    BY <1>14 DEF CheckpointFail, Goto, MayLeave
  <2>1. Cardinality(Waiting) \in Nat /\ Cardinality(Waiting') = Cardinality(Waiting)
    BY <2>0, <1>0, Moves DEF Pcs
  <2> QED
    BY <1>14, <1>0, <2>1 DEF CheckpointFail, counts, MayLeave
<1>15. ASSUME NEW p \in Procs, OpenLock(p) PROVE Quota'
  <2>0. pc' = [pc EXCEPT ![p] = "opening"] /\ pc[p] = "closed"
    BY <1>15 DEF OpenLock, Goto
  <2>1. Cardinality(Waiting) \in Nat /\ Cardinality(Waiting') = Cardinality(Waiting)
    BY <2>0, <1>0, Moves DEF Pcs
  <2> QED
    BY <1>15, <1>0, <2>1 DEF OpenLock, counts
<1>16. ASSUME NEW p \in Procs, ReplayScan(p) PROVE Quota'
  <2>0. pc' = [pc EXCEPT ![p] = "replay"] /\ pc[p] = "opening"
    BY <1>16 DEF ReplayScan, Goto
  <2>1. Cardinality(Waiting) \in Nat /\ Cardinality(Waiting') = Cardinality(Waiting)
    BY <2>0, <1>0, Moves DEF Pcs
  <2> QED
    BY <1>16, <1>0, <2>1 DEF ReplayScan, counts
<1>17. ASSUME NEW p \in Procs, ReplayRecord(p) PROVE Quota'
  BY <1>17 DEF ReplayRecord, Waiting, counts
<1>18. ASSUME NEW p \in Procs, ReplayError(p) PROVE Quota'
  <2>0. pc' = [pc EXCEPT ![p] = "closed"] /\ pc[p] \in {"opening", "replay"}
    BY <1>18 DEF ReplayError, Goto
  <2>1. Cardinality(Waiting) \in Nat /\ Cardinality(Waiting') = Cardinality(Waiting)
    BY <2>0, <1>0, Moves DEF Pcs
  <2> QED
    BY <1>18, <1>0, <2>1 DEF ReplayError, counts
<1>19. ASSUME NEW p \in Procs, OpenDone(p) PROVE Quota'
  <2>0. pc' = [pc EXCEPT ![p] = "idle"] /\ pc[p] \in {"opening", "replay"}
    BY <1>19 DEF OpenDone, Goto
  <2>1. Cardinality(Waiting) \in Nat /\ Cardinality(Waiting') = Cardinality(Waiting)
    BY <2>0, <1>0, Moves DEF Pcs
  <2> QED
    BY <1>19, <1>0, <2>1 DEF OpenDone, counts
<1>20. ASSUME NEW p \in Procs, Crash(p) PROVE Quota'
  <2>0. pc' = [pc EXCEPT ![p] = "closed"]
    BY <1>20 DEF Crash, Goto
  <2>1. /\ Cardinality(Waiting) \in Nat /\ Cardinality(Waiting') \in Int
        /\ Cardinality(Waiting') <= Cardinality(Waiting)
    BY <2>0, <1>0, Moves DEF Pcs
  <2> QED
    BY <1>20, <1>0, <2>1 DEF Crash
<1>21. CASE UNCHANGED vars
  BY <1>21 DEF vars, Waiting
<1> QED
  BY <1>1, <1>2, <1>3, <1>4, <1>5, <1>6, <1>7, <1>8, <1>9, <1>10,
     <1>11, <1>12, <1>13, <1>14, <1>15, <1>16, <1>17, <1>18, <1>19, <1>20, <1>21
     DEF Next, Commit, Snapshot, Checkpoint, Open

(* Every step keeps a capture within the slots and a replay within a clean WAL. *)
LEMMA ScansStep == TypeOK /\ Locks /\ Scans /\ [Next]_vars => Scans'
<1> SUFFICES ASSUME TypeOK /\ Locks /\ Scans, [Next]_vars PROVE Scans'
  OBVIOUS
<1>0. /\ pc \in [Procs -> Pcs] /\ snap \in [Procs -> Seq({0} \cup Pages)]
      /\ wal \in Seq(Records \cup {Hole}) /\ pos \in [Procs -> Nat]
      /\ excl \in Procs \cup {NoProc}
  BY DEF TypeOK
<1> USE ConstantsAssumption DEF Scans, Locks, ExclPcs, SharedPcs, Active, Pcs
<1>1. ASSUME NEW p \in Procs, NEW c \in Colls, BeginShared(p, c) PROVE Scans'
  BY <1>1, <1>0 DEF BeginShared, Goto, locks, shm, log, counts
<1>2. ASSUME NEW p \in Procs, BeginWriter(p) PROVE Scans'
  BY <1>2, <1>0 DEF BeginWriter, Goto, locks, shm, log, counts
<1>3. ASSUME NEW p \in Procs, Refresh(p) PROVE Scans'
  BY <1>3, <1>0, RefreshTxn
<1>4. ASSUME NEW p \in Procs, NEW k \in Keys, Put(p, k) PROVE Scans'
  <2>1. pc' = [pc EXCEPT ![p] = "dirty"] /\ UNCHANGED <<wal, pos, snap>>
    BY <1>4, PutTxn
  <2> QED
    BY <1>0, <2>1
<1>5. ASSUME NEW p \in Procs, CommitAppend(p) PROVE Scans'
  BY <1>5, <1>0 DEF CommitAppend, Goto, locks, shm, log, counts
<1>6. ASSUME NEW p \in Procs, WritePages(p) PROVE Scans'
  BY <1>6, <1>0 DEF WritePages, Goto, locks, shm, log, counts
<1>7. ASSUME NEW p \in Procs, Publish(p) PROVE Scans'
  BY <1>7, <1>0 DEF Publish, Goto, StoreRoot, Finish, locks, shm, log, counts
<1>8. ASSUME NEW p \in Procs, Abort(p) PROVE Scans'
  BY <1>8, <1>0 DEF Abort, Goto, Finish, locks, shm, log, counts
<1>9. ASSUME NEW p \in Procs, SnapshotBegin(p) PROVE Scans'
  BY <1>9, <1>0 DEF SnapshotBegin, Goto, locks, shm, log, counts
<1>10. ASSUME NEW p \in Procs, SnapshotSlot(p) PROVE Scans'
  BY <1>10, <1>0 DEF SnapshotSlot, Goto, locks, shm, log, counts
<1>11. ASSUME NEW p \in Procs, SnapshotClose(p) PROVE Scans'
  BY <1>11, <1>0 DEF SnapshotClose, Goto, locks, shm, log, counts
<1>12. ASSUME NEW p \in Procs, CheckpointLock(p) PROVE Scans'
  BY <1>12, <1>0 DEF CheckpointLock, Goto, locks, shm, log, counts
<1>13. ASSUME NEW p \in Procs, NEW l \in {"idle", "closed"}, CheckpointReset(p, l) PROVE Scans'
  BY <1>13, <1>0 DEF CheckpointReset, Goto, MayLeave, locks, shm, log, counts
<1>14. ASSUME NEW p \in Procs, NEW l \in {"idle", "closed"}, CheckpointFail(p, l) PROVE Scans'
  BY <1>14, <1>0 DEF CheckpointFail, Goto, MayLeave, locks, shm, log, counts
<1>15. ASSUME NEW p \in Procs, OpenLock(p) PROVE Scans'
  BY <1>15, <1>0 DEF OpenLock, Goto, locks, shm, log, counts
<1>16. ASSUME NEW p \in Procs, ReplayScan(p) PROVE Scans'
  <2>1. GoodPrefix \in 0..Len(wal) /\ \A i \in 1..GoodPrefix : wal[i] \in Records
    BY GoodPrefixIsGood
  <2>2. wal' \in Seq(Records)
    BY <1>16, <1>0, <2>1 DEF ReplayScan
  <2>3. pc' = [pc EXCEPT ![p] = "replay"] /\ pos' = [pos EXCEPT ![p] = 1] /\ UNCHANGED snap
    BY <1>16 DEF ReplayScan, Goto
  <2>4. \A q \in Procs \ {p} : pc[q] # "replay"
    BY <1>16, <1>0 DEF ReplayScan, Locks, ExclPcs
  <2> QED
    BY <1>0, <2>2, <2>3, <2>4
<1>17. ASSUME NEW p \in Procs, ReplayRecord(p) PROVE Scans'
  BY <1>17, <1>0 DEF ReplayRecord, Goto, StoreRoot, locks, shm, log, counts
<1>18. ASSUME NEW p \in Procs, ReplayError(p) PROVE Scans'
  BY <1>18, <1>0 DEF ReplayError, Goto, locks, shm, log, counts
<1>19. ASSUME NEW p \in Procs, OpenDone(p) PROVE Scans'
  BY <1>19, <1>0 DEF OpenDone, Goto, locks, shm, log, counts
<1>20. ASSUME NEW p \in Procs, Crash(p) PROVE Scans'
  BY <1>20, <1>0 DEF Crash, Goto, locks, shm, log, counts
<1>21. CASE UNCHANGED vars
  BY <1>21, <1>0 DEF vars, locks, shm, log, counts
<1> QED
  BY <1>1, <1>2, <1>3, <1>4, <1>5, <1>6, <1>7, <1>8, <1>9, <1>10,
     <1>11, <1>12, <1>13, <1>14, <1>15, <1>16, <1>17, <1>18, <1>19, <1>20, <1>21
     DEF Next, Commit, Snapshot, Checkpoint, Open

(* Every step keeps the numbers of records and transactions apart. *)
LEMMA NumberedStep == TypeOK /\ Numbered /\ [Next]_vars => Numbered'
<1> SUFFICES ASSUME TypeOK /\ Numbered, [Next]_vars PROVE Numbered'
  OBVIOUS
<1>0. /\ pc \in [Procs -> Pcs] /\ nextTxn \in Nat \ {0}
      /\ txn \in [Procs -> Transactions] /\ \A p \in Procs : txn[p].id \in Nat
      /\ wal \in Seq(Records \cup {Hole})
      /\ \A i \in DOMAIN wal : wal[i] # Hole => wal[i].id \in Nat
  BY SMTT(30), ConstantsAssumption DEF TypeOK, Transactions, Records, Txns
<1> USE ConstantsAssumption DEF Numbered, Active, Owning, Pcs
<1>1. ASSUME NEW p \in Procs, NEW c \in Colls, BeginShared(p, c) PROVE Numbered'
  <2>1. \A q \in Procs \ {p} : txn'[q] = txn[q]
    BY <1>1, BeginSharedTxn
  <2> QED
    BY <1>1, <1>0, <2>1 DEF BeginShared, Goto, log, counts
<1>2. ASSUME NEW p \in Procs, BeginWriter(p) PROVE Numbered'
  BY <1>2, <1>0 DEF BeginWriter, Goto, locks, shm, log, counts
<1>3. ASSUME NEW p \in Procs, Refresh(p) PROVE Numbered'
  <2>1. /\ \A q \in Procs \ {p} : txn'[q] = txn[q]
        /\ txn'[p].id = nextTxn /\ pc[p] = "locked"
        /\ pc' = [pc EXCEPT ![p] = "txn"] /\ nextTxn' = nextTxn + 1 /\ UNCHANGED wal
    BY <1>3, RefreshTxn
  <2>2. /\ wal' = wal /\ nextTxn' \in Nat /\ nextTxn <= nextTxn'
    BY <1>0, <2>1
  <2>3. \A q \in Procs : pc'[q] \in Active => txn'[q].id \in 1..(nextTxn' - 1)
    BY <1>0, <2>1
  <2>4. \A q, r \in Procs :
           pc'[q] \in Active /\ pc'[r] \in Active /\ txn'[q].id = txn'[r].id => q = r
    BY <1>0, <2>1
  <2>5. \A q \in Procs : pc'[q] \in {"txn", "dirty"} =>
           \A i \in DOMAIN wal : wal[i] # Hole => wal[i].id # txn'[q].id
    BY <1>0, <2>1
  <2>6. \A q \in Procs : pc'[q] \in Owning => txn'[q].put # <<>>
    BY <1>0, <2>1
  <2> QED
    BY <1>0, <2>2, <2>3, <2>4, <2>5, <2>6
<1>4. ASSUME NEW p \in Procs, NEW k \in Keys, Put(p, k) PROVE Numbered'
  <2>1. /\ \A q \in Procs \ {p} : txn'[q] = txn[q]
        /\ txn'[p].id = txn[p].id /\ txn'[p].put = <<k>> /\ pc[p] = "txn"
        /\ pc' = [pc EXCEPT ![p] = "dirty"] /\ UNCHANGED <<wal, nextTxn>>
    BY <1>4, PutTxn
  <2>2. /\ wal' = wal /\ nextTxn' \in Nat /\ nextTxn <= nextTxn'
    BY <1>0, <2>1
  <2>3. \A q \in Procs : pc'[q] \in Active => txn'[q].id \in 1..(nextTxn' - 1)
    BY <1>0, <2>1
  <2>4. \A q, r \in Procs :
           pc'[q] \in Active /\ pc'[r] \in Active /\ txn'[q].id = txn'[r].id => q = r
    BY <1>0, <2>1
  <2>5. \A q \in Procs : pc'[q] \in {"txn", "dirty"} =>
           \A i \in DOMAIN wal : wal[i] # Hole => wal[i].id # txn'[q].id
    BY SMTT(30), <1>0, <2>1
  <2>6. \A q \in Procs : pc'[q] \in Owning => txn'[q].put # <<>>
    BY <1>0, <2>1, <<k>> # <<>>
  <2> QED
    BY <1>0, <2>2, <2>3, <2>4, <2>5, <2>6
<1>5. ASSUME NEW p \in Procs, CommitAppend(p) PROVE Numbered'
  <2>1. PICK end \in Nat, rec \in Records :
           /\ Len(wal) <= end /\ walEnd[p] <= end /\ end \in {Len(wal), walEnd[p]}
           /\ wal' \in Seq(Records \cup {Hole}) /\ Len(wal') = end + 1
           /\ \A i \in 1..Len(wal) : wal'[i] = wal[i]
           /\ \A i \in (Len(wal) + 1)..end : wal'[i] = Hole
           /\ wal'[end + 1] = rec
           /\ rec = [coll |-> txn[p].coll, key |-> Head(txn[p].put), id |-> txn[p].id]
           /\ walEnd' = [walEnd EXCEPT ![p] = end + 1]
    <3> HIDE DEF Numbered
    <3> QED
      BY <1>5, CommitAppendWal
  <2>8. rec.id = txn[p].id
    BY <2>1
  <2>2. /\ pc[p] = "dirty" /\ pc' = [pc EXCEPT ![p] = "appended"] /\ UNCHANGED <<txn, nextTxn>>
    BY <1>5 DEF CommitAppend, Goto, counts
  <2>3. \A i \in DOMAIN wal' : wal'[i] # Hole => (i \in DOMAIN wal /\ wal'[i] = wal[i]) \/ i = end + 1
    <3>1. DOMAIN wal' = 1..(end + 1) /\ DOMAIN wal = 1..Len(wal) /\ Len(wal) \in Nat
      BY <1>0, <2>1
    <3>2. ASSUME NEW i \in 1..(end + 1), wal'[i] # Hole, i # end + 1
          PROVE  i \in DOMAIN wal /\ wal'[i] = wal[i]
      <4>1. CASE i <= Len(wal)
        <5>1. i \in 1..Len(wal)
          BY <3>1, <4>1
        <5> HIDE DEF Numbered
        <5> QED
          BY <2>1, <3>1, <5>1
      <4>2. CASE i > Len(wal)
        <5>1. i \in (Len(wal) + 1)..end
          BY <3>1, <3>2, <4>2
        <5> QED
          BY <2>1, <3>2, <5>1
      <4> QED
        BY <3>1, <4>1, <4>2
    <3> QED
      BY <3>1, <3>2
  <2>4. \A i \in DOMAIN wal : wal[i] # Hole => wal[i].id # txn[p].id
    BY <2>2
  <2>5. txn[p].id < nextTxn
    BY <1>0, <2>2
  <2>6. \A i, j \in DOMAIN wal' :
           wal'[i] # Hole /\ wal'[j] # Hole =>
               wal'[i].id < nextTxn /\ (wal'[i].id = wal'[j].id => i = j)
    BY <2>1, <2>8, <2>3, <2>4, <2>5
  <2>7. \A q \in Procs : pc'[q] \in {"txn", "dirty"} =>
           \A i \in DOMAIN wal' : wal'[i] # Hole => wal'[i].id # txn[q].id
    <3> SUFFICES ASSUME NEW q \in Procs, pc'[q] \in {"txn", "dirty"},
                        NEW i \in DOMAIN wal', wal'[i] # Hole
                 PROVE  wal'[i].id # txn[q].id
      OBVIOUS
    <3>1. q # p /\ pc[q] \in {"txn", "dirty"}
      BY <1>0, <2>2
    <3>2. CASE i \in DOMAIN wal /\ wal'[i] = wal[i]
      BY <3>1, <3>2
    <3>3. CASE i = end + 1
      BY <2>1, <2>2, <2>8, <3>1, <3>3
    <3> QED
      BY <2>3, <3>2, <3>3
  <2> QED
    BY <1>0, <2>2, <2>6, <2>7
<1>6. ASSUME NEW p \in Procs, WritePages(p) PROVE Numbered'
  BY <1>6, <1>0 DEF WritePages, Goto, locks, shm, log, counts
<1>7. ASSUME NEW p \in Procs, Publish(p) PROVE Numbered'
  BY <1>7, <1>0 DEF Publish, Goto, StoreRoot, Finish, locks, shm, log, counts
<1>8. ASSUME NEW p \in Procs, Abort(p) PROVE Numbered'
  BY <1>8, <1>0 DEF Abort, Goto, Finish, locks, shm, log, counts
<1>9. ASSUME NEW p \in Procs, SnapshotBegin(p) PROVE Numbered'
  BY <1>9, <1>0 DEF SnapshotBegin, Goto, locks, shm, log, counts
<1>10. ASSUME NEW p \in Procs, SnapshotSlot(p) PROVE Numbered'
  BY <1>10, <1>0 DEF SnapshotSlot, Goto, locks, shm, log, counts
<1>11. ASSUME NEW p \in Procs, SnapshotClose(p) PROVE Numbered'
  BY <1>11, <1>0 DEF SnapshotClose, Goto, locks, shm, log, counts
<1>12. ASSUME NEW p \in Procs, CheckpointLock(p) PROVE Numbered'
  BY <1>12, <1>0 DEF CheckpointLock, Goto, locks, shm, log, counts
<1>13. ASSUME NEW p \in Procs, NEW l \in {"idle", "closed"}, CheckpointReset(p, l) PROVE Numbered'
  BY <1>13, <1>0 DEF CheckpointReset, Goto, MayLeave, locks, shm, log, counts
<1>14. ASSUME NEW p \in Procs, NEW l \in {"idle", "closed"}, CheckpointFail(p, l) PROVE Numbered'
  BY <1>14, <1>0 DEF CheckpointFail, Goto, MayLeave, locks, shm, log, counts
<1>15. ASSUME NEW p \in Procs, OpenLock(p) PROVE Numbered'
  BY <1>15, <1>0 DEF OpenLock, Goto, locks, shm, log, counts
<1>16. ASSUME NEW p \in Procs, ReplayScan(p) PROVE Numbered'
  <2>1. \A i \in DOMAIN wal' : i \in DOMAIN wal /\ wal'[i] = wal[i]
    BY <1>16, <1>0, GoodPrefixIsGood DEF ReplayScan
  <2>2. pc[p] = "opening" /\ pc' = [pc EXCEPT ![p] = "replay"] /\ UNCHANGED <<txn, nextTxn>>
    BY <1>16 DEF ReplayScan, Goto, counts
  <2>3. \A q \in Procs : pc'[q] \in Active => pc[q] = pc'[q]
    BY <1>0, <2>2
  <2> QED
    BY <1>0, <2>1, <2>2, <2>3
<1>17. ASSUME NEW p \in Procs, ReplayRecord(p) PROVE Numbered'
  BY <1>17, <1>0 DEF ReplayRecord, Goto, StoreRoot, locks, shm, log, counts
<1>18. ASSUME NEW p \in Procs, ReplayError(p) PROVE Numbered'
  BY <1>18, <1>0 DEF ReplayError, Goto, locks, shm, log, counts
<1>19. ASSUME NEW p \in Procs, OpenDone(p) PROVE Numbered'
  BY <1>19, <1>0 DEF OpenDone, Goto, locks, shm, log, counts
<1>20. ASSUME NEW p \in Procs, Crash(p) PROVE Numbered'
  BY <1>20, <1>0 DEF Crash, Goto, locks, shm, log, counts
<1>21. CASE UNCHANGED vars
  BY <1>21, <1>0 DEF vars, locks, shm, log, counts
<1> QED
  BY <1>1, <1>2, <1>3, <1>4, <1>5, <1>6, <1>7, <1>8, <1>9, <1>10,
     <1>11, <1>12, <1>13, <1>14, <1>15, <1>16, <1>17, <1>18, <1>19, <1>20, <1>21
     DEF Next, Commit, Snapshot, Checkpoint, Open

(* Every step takes a page id out of the budget. *)
LEMMA RoomStep == TypeOK /\ Locks /\ Scans /\ Numbered /\ Room /\ [Next]_vars => Room'
<1> SUFFICES ASSUME TypeOK /\ Locks /\ Scans /\ Numbered /\ Room, [Next]_vars PROVE Room'
  OBVIOUS
<1>0. /\ pc \in [Procs -> Pcs] /\ nextTxn \in Nat /\ opens \in Nat /\ MaxTxns \in Nat
      /\ txn \in [Procs -> Transactions] /\ \A p \in Procs : txn[p].pages \in Nat
      /\ pos \in [Procs -> Nat] /\ Len(wal) \in Nat /\ numPages \in Nat \ {0} /\ Budget \in Int
      /\ excl \in Procs \cup {NoProc} /\ NoProc \notin Procs
  <2>1. Cardinality(Started) \in Nat
    <3>1. Started \in SUBSET Procs
      BY DEF Started
    <3> QED
      BY <3>1, FS_Subset, FS_CardinalityType, ConstantsAssumption
  <2>2. opens * MaxTxns \in Nat /\ nextTxn \in Nat
    BY ConstantsAssumption DEF TypeOK
  <2>3. Budget \in Int
    BY <2>1, <2>2 DEF Budget
  <2>4. txn \in [Procs -> Transactions] /\ \A p \in Procs : txn[p].pages \in Nat
    BY DEF TypeOK, Transactions
  <2>5. /\ pc \in [Procs -> Pcs] /\ nextTxn \in Nat /\ opens \in Nat /\ MaxTxns \in Nat
        /\ numPages \in Nat \ {0} /\ pos \in [Procs -> Nat]
    BY ConstantsAssumption DEF TypeOK
  <2>6. Len(wal) \in Nat /\ excl \in Procs \cup {NoProc} /\ NoProc \notin Procs
    BY ConstantsAssumption DEF TypeOK
  <2> QED
    BY <2>3, <2>4, <2>5, <2>6
<1> USE DEF Room, Active
<1>1. ASSUME NEW p \in Procs, NEW c \in Colls, BeginShared(p, c) PROVE Room'
  <2>1. pc' = [pc EXCEPT ![p] = "begin"] /\ pc[p] = "idle"
    BY <1>1 DEF BeginShared, Goto
  <2>2. Budget' = Budget
    <3>1. /\ Cardinality(Started) \in Nat /\ Cardinality(Started') \in Int
          /\ Cardinality(Started') = Cardinality(Started)
      <4>1. pc'[p] # "txn" /\ \A q \in Procs \ {p} : pc'[q] = pc[q]
        BY <1>0, <2>1
      <4> QED
        BY <4>1, <2>1, Moves
    <3>2. UNCHANGED <<nextTxn, opens>>
      BY <1>1 DEF BeginShared, counts
    <3>3. opens * MaxTxns \in Nat
      BY <1>0
    <3> QED
      BY <1>0, <3>1, <3>2, <3>3 DEF Budget
  <2>3. \A q \in Procs \ {p} : txn'[q] = txn[q]
    BY <1>1, BeginSharedTxn
  <2> QED
    BY <1>1, <1>0, <2>1, <2>2, <2>3 DEF BeginShared, shm, log, counts
<1>2. ASSUME NEW p \in Procs, BeginWriter(p) PROVE Room'
  <2>1. pc' = [pc EXCEPT ![p] = "locked"] /\ pc[p] = "begin"
    BY <1>2 DEF BeginWriter, Goto
  <2>2. Budget' = Budget
    <3>1. /\ Cardinality(Started) \in Nat /\ Cardinality(Started') \in Int
          /\ Cardinality(Started') = Cardinality(Started)
      <4>1. pc'[p] # "txn" /\ \A q \in Procs \ {p} : pc'[q] = pc[q]
        BY <1>0, <2>1
      <4> QED
        BY <4>1, <2>1, Moves
    <3>2. UNCHANGED <<nextTxn, opens>>
      BY <1>2 DEF BeginWriter, counts
    <3>3. opens * MaxTxns \in Nat
      BY <1>0
    <3> QED
      BY <1>0, <3>1, <3>2, <3>3 DEF Budget
  <2> QED
    BY <1>2, <1>0, <2>1, <2>2 DEF BeginWriter, shm, log, counts
<1>3. ASSUME NEW p \in Procs, Refresh(p) PROVE Room'
  <2>1. /\ pc[p] = "locked" /\ pc' = [pc EXCEPT ![p] = "txn"]
        /\ \A q \in Procs \ {p} : txn'[q] = txn[q]
        /\ txn'[p].pages = numPages /\ nextTxn' = nextTxn + 1
        /\ UNCHANGED <<numPages, pos, opens>>
    BY <1>3, RefreshTxn
  <2>2. Budget' = Budget
    <3>1. Cardinality(Started') = Cardinality(Started) + 1 /\ Cardinality(Started) \in Nat
      BY <1>0, <2>1, Moves DEF Pcs
    <3>2. opens * MaxTxns \in Nat
      BY <1>0
    <3> QED
      BY SMTT(30), <1>0, <2>1, <3>1, <3>2 DEF Budget
  <2> QED
    BY <1>0, <2>1, <2>2
<1>4. ASSUME NEW p \in Procs, NEW k \in Keys, Put(p, k) PROVE Room'
  <2>1. /\ pc[p] = "txn" /\ pc' = [pc EXCEPT ![p] = "dirty"]
        /\ \A q \in Procs \ {p} : txn'[q] = txn[q]
        /\ txn'[p].pages = txn[p].pages /\ numPages' = numPages + 1
        /\ UNCHANGED <<nextTxn, pos, opens>>
    BY <1>4, PutTxn
  <2>2. Budget' = Budget + 1
    <3>1. Cardinality(Started') = Cardinality(Started) - 1 /\ Cardinality(Started) \in Nat
      BY <1>0, <2>1, Moves DEF Pcs
    <3>2. opens * MaxTxns \in Nat
      BY <1>0
    <3> QED
      BY SMTT(30), <1>0, <2>1, <3>1, <3>2 DEF Budget
  <2> QED
    BY SMTT(30), <1>0, <2>1, <2>2
<1>5. ASSUME NEW p \in Procs, CommitAppend(p) PROVE Room'
  <2>1. pc' = [pc EXCEPT ![p] = "appended"] /\ pc[p] = "dirty"
    BY <1>5 DEF CommitAppend, Goto
  <2>2. Budget' = Budget
    <3>1. /\ Cardinality(Started) \in Nat /\ Cardinality(Started') \in Int
          /\ Cardinality(Started') = Cardinality(Started)
      <4>1. pc'[p] # "txn" /\ \A q \in Procs \ {p} : pc'[q] = pc[q]
        BY <1>0, <2>1
      <4> QED
        BY <4>1, <2>1, Moves
    <3>2. UNCHANGED <<nextTxn, opens>>
      BY <1>5 DEF CommitAppend, counts
    <3>3. opens * MaxTxns \in Nat
      BY <1>0
    <3> QED
      BY <1>0, <3>1, <3>2, <3>3 DEF Budget
  <2> QED
    BY <1>5, <1>0, <2>1, <2>2 DEF CommitAppend, shm, log, counts
<1>6. ASSUME NEW p \in Procs, WritePages(p) PROVE Room'
  <2>1. pc' = [pc EXCEPT ![p] = "written"] /\ pc[p] = "appended"
    BY <1>6 DEF WritePages, Goto
  <2>2. Budget' = Budget
    <3>1. /\ Cardinality(Started) \in Nat /\ Cardinality(Started') \in Int
          /\ Cardinality(Started') = Cardinality(Started)
      <4>1. pc'[p] # "txn" /\ \A q \in Procs \ {p} : pc'[q] = pc[q]
        BY <1>0, <2>1
      <4> QED
        BY <4>1, <2>1, Moves
    <3>2. UNCHANGED <<nextTxn, opens>>
      BY <1>6 DEF WritePages, counts
    <3>3. opens * MaxTxns \in Nat
      BY <1>0
    <3> QED
      BY <1>0, <3>1, <3>2, <3>3 DEF Budget
  <2> QED
    BY <1>6, <1>0, <2>1, <2>2 DEF WritePages, shm, log, counts
<1>7. ASSUME NEW p \in Procs, Publish(p) PROVE Room'
  <2>1. pc' = [pc EXCEPT ![p] = "idle"] /\ pc[p] = "written"
    BY <1>7 DEF Publish, Goto, StoreRoot, Finish
  <2>2. Budget' >= Budget /\ Budget' \in Int
    <3>1. /\ Cardinality(Started) \in Nat /\ Cardinality(Started') \in Int
          /\ Cardinality(Started') = Cardinality(Started)
      <4>1. pc'[p] # "txn" /\ \A q \in Procs \ {p} : pc'[q] = pc[q]
        BY <1>0, <2>1
      <4> QED
        BY <4>1, <2>1, Moves
    <3>2. UNCHANGED <<nextTxn, opens>>
      BY <1>7 DEF Publish, counts
    <3>3. opens * MaxTxns \in Nat
      BY <1>0
    <3> QED
      BY <1>0, <3>1, <3>2, <3>3 DEF Budget
  <2>3. \A q \in Procs \ {p} : txn'[q] = txn[q]
    BY <1>7, <1>0 DEF Publish, Finish
  <2>4. UNCHANGED <<numPages, pos>>
    BY <1>7 DEF Publish, log
  <2> QED
    BY SMTT(30), <1>0, <2>1, <2>2, <2>3, <2>4
<1>8. ASSUME NEW p \in Procs, Abort(p) PROVE Room'
  <2>1. pc' = [pc EXCEPT ![p] = "idle"] /\ pc[p] \in {"txn", "dirty", "appended", "written"}
    BY <1>8 DEF Abort, Goto, Finish
  <2>2. Budget' >= Budget /\ Budget' \in Int
    <3>1. /\ Cardinality(Started) \in Nat /\ Cardinality(Started') \in Int
          /\ Cardinality(Started') <= Cardinality(Started)
      <4>1. pc'[p] # "txn" /\ \A q \in Procs \ {p} : pc'[q] = pc[q]
        BY <1>0, <2>1
      <4> QED
        BY <4>1, <2>1, Moves
    <3>2. UNCHANGED <<nextTxn, opens>>
      BY <1>8 DEF Abort, counts
    <3>3. opens * MaxTxns \in Nat
      BY <1>0
    <3> QED
      BY SMTT(30), <1>0, <3>1, <3>2, <3>3 DEF Budget
  <2>3. \A q \in Procs \ {p} : txn'[q] = txn[q]
    BY <1>8, <1>0 DEF Abort, Finish
  <2>4. numPages' = txn[p].pages /\ UNCHANGED pos
    BY <1>8 DEF Abort, log
  <2>5. \A q \in Procs : pc[q] \notin ExclPcs
    BY <1>8, NoExclBesideShared DEF Abort, Active, SharedPcs
  <2> QED
    BY SMTT(30), <1>0, <2>1, <2>2, <2>3, <2>4, <2>5 DEF ExclPcs
<1>9. ASSUME NEW p \in Procs, SnapshotBegin(p) PROVE Room'
  <2>1. pc' = [pc EXCEPT ![p] = "capture"] /\ pc[p] = "idle"
    BY <1>9 DEF SnapshotBegin, Goto
  <2>2. Budget' = Budget
    <3>1. /\ Cardinality(Started) \in Nat /\ Cardinality(Started') \in Int
          /\ Cardinality(Started') = Cardinality(Started)
      <4>1. pc'[p] # "txn" /\ \A q \in Procs \ {p} : pc'[q] = pc[q]
        BY <1>0, <2>1
      <4> QED
        BY <4>1, <2>1, Moves
    <3>2. UNCHANGED <<nextTxn, opens>>
      BY <1>9 DEF SnapshotBegin, counts
    <3>3. opens * MaxTxns \in Nat
      BY <1>0
    <3> QED
      BY <1>0, <3>1, <3>2, <3>3 DEF Budget
  <2> QED
    BY <1>9, <1>0, <2>1, <2>2 DEF SnapshotBegin, shm, log, counts
<1>10. ASSUME NEW p \in Procs, SnapshotSlot(p) PROVE Room'
  <2>1. pc' = [pc EXCEPT ![p] = IF Len(snap[p]) + 1 = NumColls THEN "idle" ELSE "capture"] /\ pc[p] = "capture"
    BY <1>10 DEF SnapshotSlot, Goto
  <2>2. Budget' = Budget
    <3>1. /\ Cardinality(Started) \in Nat /\ Cardinality(Started') \in Int
          /\ Cardinality(Started') = Cardinality(Started)
      <4>1. pc'[p] # "txn" /\ \A q \in Procs \ {p} : pc'[q] = pc[q]
        BY <1>0, <2>1
      <4> QED
        BY <4>1, <2>1, Moves
    <3>2. UNCHANGED <<nextTxn, opens>>
      BY <1>10 DEF SnapshotSlot, counts
    <3>3. opens * MaxTxns \in Nat
      BY <1>0
    <3> QED
      BY <1>0, <3>1, <3>2, <3>3 DEF Budget
  <2> QED
    BY <1>10, <1>0, <2>1, <2>2 DEF SnapshotSlot, shm, log, counts
<1>11. ASSUME NEW p \in Procs, SnapshotClose(p) PROVE Room'
  <2>1. UNCHANGED Budget
    BY <1>11 DEF SnapshotClose, Budget, Started, counts
  <2> QED
    BY <1>11, <2>1 DEF SnapshotClose, shm, log
<1>12. ASSUME NEW p \in Procs, CheckpointLock(p) PROVE Room'
  <2>1. pc' = [pc EXCEPT ![p] = "checkpoint"] /\ pc[p] = "idle"
    BY <1>12 DEF CheckpointLock, Goto
  <2>2. Budget' = Budget
    <3>1. /\ Cardinality(Started) \in Nat /\ Cardinality(Started') \in Int
          /\ Cardinality(Started') = Cardinality(Started)
      <4>1. pc'[p] # "txn" /\ \A q \in Procs \ {p} : pc'[q] = pc[q]
        BY <1>0, <2>1
      <4> QED
        BY <4>1, <2>1, Moves
    <3>2. UNCHANGED <<nextTxn, opens>>
      BY <1>12 DEF CheckpointLock, counts
    <3>3. opens * MaxTxns \in Nat
      BY <1>0
    <3> QED
      BY <1>0, <3>1, <3>2, <3>3 DEF Budget
  <2> QED
    BY <1>12, <1>0, <2>1, <2>2 DEF CheckpointLock, shm, log, counts
<1>13. ASSUME NEW p \in Procs, NEW l \in {"idle", "closed"}, CheckpointReset(p, l) PROVE Room'
  <2>1. pc' = [pc EXCEPT ![p] = l] /\ pc[p] = "checkpoint"
    BY <1>13 DEF CheckpointReset, Goto, MayLeave
  <2>2. Budget' = Budget
    <3>1. /\ Cardinality(Started) \in Nat /\ Cardinality(Started') \in Int
          /\ Cardinality(Started') = Cardinality(Started)
      <4>1. pc'[p] # "txn" /\ \A q \in Procs \ {p} : pc'[q] = pc[q]
        BY <1>0, <2>1
      <4> QED
        BY <4>1, <2>1, Moves
    <3>2. UNCHANGED <<nextTxn, opens>>
      BY <1>13 DEF CheckpointReset, counts
    <3>3. opens * MaxTxns \in Nat
      BY <1>0
    <3> QED
      BY <1>0, <3>1, <3>2, <3>3 DEF Budget
  <2> QED
    BY <1>13, <1>0, <2>1, <2>2 DEF CheckpointReset, shm, log, counts, MayLeave
<1>14. ASSUME NEW p \in Procs, NEW l \in {"idle", "closed"}, CheckpointFail(p, l) PROVE Room'
  <2>1. pc' = [pc EXCEPT ![p] = l] /\ pc[p] = "checkpoint"
    BY <1>14 DEF CheckpointFail, Goto, MayLeave
  <2>2. Budget' = Budget
    <3>1. /\ Cardinality(Started) \in Nat /\ Cardinality(Started') \in Int
          /\ Cardinality(Started') = Cardinality(Started)
      <4>1. pc'[p] # "txn" /\ \A q \in Procs \ {p} : pc'[q] = pc[q]
        BY <1>0, <2>1
      <4> QED
        BY <4>1, <2>1, Moves
    <3>2. UNCHANGED <<nextTxn, opens>>
      BY <1>14 DEF CheckpointFail, counts
    <3>3. opens * MaxTxns \in Nat
      BY <1>0
    <3> QED
      BY <1>0, <3>1, <3>2, <3>3 DEF Budget
  <2> QED
    BY <1>14, <1>0, <2>1, <2>2 DEF CheckpointFail, shm, log, counts, MayLeave
<1>15. ASSUME NEW p \in Procs, OpenLock(p) PROVE Room'
  <2>1. pc' = [pc EXCEPT ![p] = "opening"] /\ pc[p] = "closed"
    BY <1>15 DEF OpenLock, Goto
  <2>2. Budget' = Budget + MaxTxns
    <3>1. Cardinality(Started') = Cardinality(Started) /\ Cardinality(Started) \in Nat
      BY <1>0, <2>1, Moves DEF Pcs
    <3>2. opens' = opens + 1 /\ nextTxn' = nextTxn
      BY <1>15 DEF OpenLock
    <3>3. (opens + 1) * MaxTxns = opens * MaxTxns + MaxTxns
      BY <1>0
    <3> QED
      BY SMTT(30), <1>0, <3>1, <3>2, <3>3 DEF Budget
  <2>3. UNCHANGED <<numPages, txn, pos>>
    BY <1>15 DEF OpenLock, shm
  <2> QED
    BY <1>0, <2>1, <2>2, <2>3
<1>16. ASSUME NEW p \in Procs, ReplayScan(p) PROVE Room'
  <2>1. pc' = [pc EXCEPT ![p] = "replay"] /\ pc[p] = "opening"
    BY <1>16 DEF ReplayScan, Goto
  <2>2. Budget' = Budget
    <3>1. /\ Cardinality(Started) \in Nat /\ Cardinality(Started') \in Int
          /\ Cardinality(Started') = Cardinality(Started)
      <4>1. pc'[p] # "txn" /\ \A q \in Procs \ {p} : pc'[q] = pc[q]
        BY <1>0, <2>1
      <4> QED
        BY <4>1, <2>1, Moves
    <3>2. UNCHANGED <<nextTxn, opens>>
      BY <1>16 DEF ReplayScan, counts
    <3>3. opens * MaxTxns \in Nat
      BY <1>0
    <3> QED
      BY <1>0, <3>1, <3>2, <3>3 DEF Budget
  <2> QED
    BY <1>16, <1>0, <2>1, <2>2 DEF ReplayScan, shm, log, counts
<1>17. ASSUME NEW p \in Procs, ReplayRecord(p) PROVE Room'
  <2>1. UNCHANGED Budget
    BY <1>17 DEF ReplayRecord, Budget, Started, counts
  <2>2. /\ pc[p] = "replay" /\ pos[p] <= Len(wal)
        /\ numPages' = numPages + 1 /\ pos' = [pos EXCEPT ![p] = pos[p] + 1]
        /\ UNCHANGED <<pc, txn>>
    BY <1>17 DEF ReplayRecord
  <2>3. Len(wal) <= MaxTxns /\ Len(wal) \in Nat
    BY <1>0, <2>2, WalFits DEF Scans
  <2>4. \A q \in Procs : pc[q] \in ExclPcs => q = p
    BY <1>0, <2>2, Locks DEF Locks, ExclPcs
  <2> QED
    BY <1>0, <2>1, <2>2, <2>3, <2>4 DEF ExclPcs
<1>18. ASSUME NEW p \in Procs, ReplayError(p) PROVE Room'
  <2>1. pc' = [pc EXCEPT ![p] = "closed"] /\ pc[p] \in {"opening", "replay"}
    BY <1>18 DEF ReplayError, Goto
  <2>2. Budget' >= Budget /\ Budget' \in Int
    <3>1. /\ Cardinality(Started) \in Nat /\ Cardinality(Started') \in Int
          /\ Cardinality(Started') = Cardinality(Started)
      <4>1. pc'[p] # "txn" /\ \A q \in Procs \ {p} : pc'[q] = pc[q]
        BY <1>0, <2>1
      <4> QED
        BY <4>1, <2>1, Moves
    <3>2. UNCHANGED <<nextTxn, opens>>
      BY <1>18 DEF ReplayError, counts
    <3>3. opens * MaxTxns \in Nat
      BY <1>0
    <3> QED
      BY <1>0, <3>1, <3>2, <3>3 DEF Budget
  <2> QED
    BY SMTT(30), <1>18, <1>0, <2>1, <2>2 DEF ReplayError, shm, log, counts
<1>19. ASSUME NEW p \in Procs, OpenDone(p) PROVE Room'
  <2>1. pc' = [pc EXCEPT ![p] = "idle"] /\ pc[p] \in {"opening", "replay"}
    BY <1>19 DEF OpenDone, Goto
  <2>2. Budget' >= Budget /\ Budget' \in Int
    <3>1. /\ Cardinality(Started) \in Nat /\ Cardinality(Started') \in Int
          /\ Cardinality(Started') = Cardinality(Started)
      <4>1. pc'[p] # "txn" /\ \A q \in Procs \ {p} : pc'[q] = pc[q]
        BY <1>0, <2>1
      <4> QED
        BY <4>1, <2>1, Moves
    <3>2. UNCHANGED <<nextTxn, opens>>
      BY <1>19 DEF OpenDone, counts
    <3>3. opens * MaxTxns \in Nat
      BY <1>0
    <3> QED
      BY <1>0, <3>1, <3>2, <3>3 DEF Budget
  <2> QED
    BY <1>19, <1>0, <2>1, <2>2 DEF OpenDone, shm, log, counts
<1>20. ASSUME NEW p \in Procs, Crash(p) PROVE Room'
  <2>1. pc' = [pc EXCEPT ![p] = "closed"] /\ pc[p] # "closed"
    BY <1>20 DEF Crash, Goto
  <2>2. Budget' >= Budget /\ Budget' \in Int
    <3>1. /\ Cardinality(Started) \in Nat /\ Cardinality(Started') \in Int
          /\ Cardinality(Started') <= Cardinality(Started)
      <4>1. pc'[p] # "txn" /\ \A q \in Procs \ {p} : pc'[q] = pc[q]
        BY <1>0, <2>1
      <4> QED
        BY <4>1, <2>1, Moves
    <3>2. UNCHANGED <<nextTxn, opens>>
      BY <1>20 DEF Crash, counts
    <3>3. opens * MaxTxns \in Nat
      BY <1>0
    <3> QED
      BY SMTT(30), <1>0, <3>1, <3>2, <3>3 DEF Budget
  <2> QED
    BY <1>20, <1>0, <2>1, <2>2 DEF Crash, shm, log, counts
<1>21. CASE UNCHANGED vars

  <2>1. UNCHANGED Budget
    BY <1>21 DEF vars, Budget, Started
  <2> QED
    BY <1>21, <2>1 DEF vars
<1> QED
  BY <1>1, <1>2, <1>3, <1>4, <1>5, <1>6, <1>7, <1>8, <1>9, <1>10,
     <1>11, <1>12, <1>13, <1>14, <1>15, <1>16, <1>17, <1>18, <1>19, <1>20, <1>21
     DEF Next, Commit, Snapshot, Checkpoint, Open

(* There is a number for a transaction that is about to take one, and a page *)
(* id for a tree about to be made. *)
LEMMA NumberLeft ==
  ASSUME TypeOK, Quota, NEW p \in Procs, pc[p] = "locked"
  PROVE  nextTxn <= MaxTxns
<1>1. Waiting \in SUBSET Procs /\ p \in Waiting
  BY DEF Waiting
<1>2. IsFiniteSet(Waiting)
  BY <1>1, FS_Subset, ConstantsAssumption
<1>3. Cardinality(Waiting) \in Nat /\ Cardinality(Waiting) # 0
  BY <1>1, <1>2, FS_CardinalityType, FS_EmptySet
<1> QED
  BY <1>3, ConstantsAssumption DEF Quota, TypeOK

LEMMA PageLeft ==
  ASSUME TypeOK, Scans, Numbered, Room, NEW p \in Procs,
         pc[p] = "txn" \/ (pc[p] = "replay" /\ pos[p] <= Len(wal))
  PROVE  numPages \in Pages
<1>1. Started \in SUBSET Procs /\ (p \in Started <=> pc[p] = "txn")
  BY DEF Started
<1>2. IsFiniteSet(Started)
  BY <1>1, FS_Subset, ConstantsAssumption
<1>3. Cardinality(Started) \in Nat /\ (pc[p] = "txn" => Cardinality(Started) >= 1)
  BY <1>1, <1>2, FS_CardinalityType, FS_EmptySet
<1>4. /\ opens * MaxTxns \in Nat /\ MaxOpens * MaxTxns \in Nat
      /\ opens * MaxTxns <= MaxOpens * MaxTxns
      /\ MaxTxns * (MaxOpens + 1) = MaxOpens * MaxTxns + MaxTxns
  <2>1. /\ opens \in Nat /\ MaxOpens - opens \in Nat /\ MaxTxns \in Nat /\ MaxOpens \in Nat
    BY ConstantsAssumption DEF TypeOK
  <2>2. MaxOpens * MaxTxns = opens * MaxTxns + (MaxOpens - opens) * MaxTxns
    BY <2>1
  <2>3. (MaxOpens - opens) * MaxTxns \in Nat /\ opens * MaxTxns \in Nat
    BY <2>1
  <2>4. MaxTxns * (MaxOpens + 1) = MaxOpens * MaxTxns + MaxTxns
    BY <2>1
  <2> QED
    BY <2>2, <2>3, <2>4
<1>5. nextTxn \in Nat /\ nextTxn <= MaxTxns + 1 /\ numPages \in Nat \ {0} /\ MaxTxns \in Nat
  BY ConstantsAssumption DEF TypeOK
<1>6. numPages + 1 <= nextTxn + opens * MaxTxns
  <2>1. CASE pc[p] = "txn"
    BY <1>3, <1>4, <1>5, <2>1 DEF Room, Budget
  <2>2. CASE pc[p] = "replay" /\ pos[p] <= Len(wal)
    <3>1. Len(wal) <= MaxTxns /\ Len(wal) \in Nat /\ pos[p] \in Nat
      BY SMTT(30), <2>2, WalFits DEF Scans, TypeOK
    <3>2. numPages + MaxTxns + 1 - pos[p] <= nextTxn + opens * MaxTxns - Cardinality(Started)
      BY <2>2 DEF Room, Budget
    <3>3. opens * MaxTxns \in Nat
      BY <1>4
    <3> DEFINE replayed == opens * MaxTxns
               started == Cardinality(Started)
    <3> HIDE DEF replayed, started
    <3>4. /\ numPages + MaxTxns + 1 - pos[p] <= nextTxn + replayed - started
          /\ replayed \in Nat /\ started \in Nat
      BY <1>3, <3>2, <3>3 DEF replayed, started
    <3>5. numPages + 1 <= nextTxn + replayed
      BY <1>5, <2>2, <3>1, <3>4
    <3> QED
      BY <3>5 DEF replayed
  <2> QED
    BY <2>1, <2>2
<1>7. numPages \in 1..(MaxTxns * (MaxOpens + 1))
  BY <1>4, <1>5, <1>6
<1> QED
  BY <1>7 DEF Pages

(* The tree under a root is a tree. *)
LEMMA TreeType ==
  ASSUME TypeOK, NEW r \in {0} \cup Pages
  PROVE  Tree(r) \in Trees
  BY ConstantsAssumption DEF Tree, EmptyTree, Trees, TypeOK

(* Every step keeps the type. *)
LEMMA TypeStep == TypeInv /\ [Next]_vars => TypeOK'
<1> SUFFICES ASSUME TypeInv, [Next]_vars PROVE TypeOK'
  OBVIOUS
<1> USE ConstantsAssumption DEF TypeInv, TypeOK, Pcs
<1>1. ASSUME NEW p \in Procs, NEW c \in Colls, BeginShared(p, c) PROVE TypeOK'
  <2>1. txn' \in [Procs -> Transactions]
    BY <1>1, BeginSharedTxn
  <2> QED
    BY <1>1, <2>1 DEF BeginShared, Goto, shm, log, counts
<1>2. ASSUME NEW p \in Procs, BeginWriter(p) PROVE TypeOK'
  BY <1>2 DEF BeginWriter, Goto, locks, shm, log, counts
<1>3. ASSUME NEW p \in Procs, Refresh(p) PROVE TypeOK'
  <2>1. nextTxn <= MaxTxns
    BY <1>3, NumberLeft DEF Refresh
  <2>2. txn' \in [Procs -> Transactions] /\ nextTxn' = nextTxn + 1
    BY <1>3, <2>1, RefreshTxn
  <2>3. nextTxn' \in 1..(MaxTxns + 1)
    BY <2>1, <2>2
  <2> QED
    BY <1>3, <2>2, <2>3 DEF Refresh, Goto, locks, shm, log
<1>4. ASSUME NEW p \in Procs, NEW k \in Keys, Put(p, k) PROVE TypeOK'
  <2>1. numPages \in Pages
    BY <1>4, PageLeft DEF Put
  <2>2. txn' \in [Procs -> Transactions]
    BY <1>4, <2>1, PutTxn
  <2> QED
    <3>1. pc' \in [Procs -> Pcs] /\ numPages' \in Nat \ {0}
      <4>1. pc' = [pc EXCEPT ![p] = "dirty"] /\ numPages' = numPages + 1
        BY <1>4, PutTxn
      <4> QED
        BY <4>1
    <3> QED
      BY <1>4, <2>2, <3>1 DEF Put, locks, log, counts
<1>5. ASSUME NEW p \in Procs, CommitAppend(p) PROVE TypeOK'
  <2>1. wal' \in Seq(Records \cup {Hole}) /\ walEnd' \in [Procs -> Nat]
    <3> HIDE DEF TypeOK
    <3>1. PICK end \in Nat, rec \in Records :
             /\ Len(wal) <= end /\ walEnd[p] <= end /\ end \in {Len(wal), walEnd[p]}
             /\ wal' \in Seq(Records \cup {Hole}) /\ Len(wal') = end + 1
             /\ \A i \in 1..Len(wal) : wal'[i] = wal[i]
             /\ \A i \in (Len(wal) + 1)..end : wal'[i] = Hole
             /\ wal'[end + 1] = rec
             /\ rec = [coll |-> txn[p].coll, key |-> Head(txn[p].put), id |-> txn[p].id]
             /\ walEnd' = [walEnd EXCEPT ![p] = end + 1]
      BY <1>5, CommitAppendWal
    <3>2. walEnd \in [Procs -> Nat]
      BY DEF TypeOK
    <3> QED
      BY <3>1, <3>2
  <2> QED
    BY <1>5, <2>1 DEF CommitAppend, Goto, locks, shm, counts
<1>6. ASSUME NEW p \in Procs, WritePages(p) PROVE TypeOK'
  <2>1. txn[p].tree \in Trees
    BY DEF Transactions
  <2> QED
    BY <1>6, <2>1 DEF WritePages, Goto, locks, shm, log, counts
<1>7. ASSUME NEW p \in Procs, Publish(p) PROVE TypeOK'
  <2>1. txn[p] \in Transactions /\ txn[p].put # <<>>
    BY <1>7 DEF Publish, Numbered, Owning
  <2>2. /\ txn[p].coll \in Colls /\ txn[p].id \in 0..MaxTxns
        /\ txn[p].page \in {0} \cup Pages /\ Head(txn[p].put) \in Keys
    BY <2>1 DEF Transactions
  <2>3. published' \in [Colls -> Trees]
    BY <1>7, <2>2 DEF Publish, Trees
  <2>4. roots' \in [Colls -> {0} \cup Pages]
    BY <1>7, <2>2 DEF Publish, StoreRoot
  <2> QED
    BY <1>7, <2>3, <2>4, NoTxnType DEF Publish, Finish, Goto, log, counts
<1>8. ASSUME NEW p \in Procs, Abort(p) PROVE TypeOK'
  <2>1. txn[p].pages \in Nat \ {0}
    BY <1>8 DEF Abort, Active, Room, Transactions
  <2> QED
    <3>1. txn[p].coll \in Colls
      BY DEF Transactions
    <3>2. /\ pc' \in [Procs -> Pcs] /\ txn' \in [Procs -> Transactions]
          /\ writer' \in [Colls -> Procs \cup {NoProc}] /\ shared' \subseteq Procs
      BY <1>8, <3>1, NoTxnType DEF Abort, Finish, Goto
    <3> QED
      BY SMTT(30), <1>8, <2>1, <3>2 DEF Abort, Finish, log, counts
<1>9. ASSUME NEW p \in Procs, SnapshotBegin(p) PROVE TypeOK'
  BY <1>9 DEF SnapshotBegin, Goto, locks, shm, log, counts
<1>10. ASSUME NEW p \in Procs, SnapshotSlot(p) PROVE TypeOK'
  <2>1. Len(snap[p]) \in Colls
    BY <1>10 DEF SnapshotSlot, Scans, Colls
  <2>2. snap' \in [Procs -> Seq({0} \cup Pages)]
    BY SMTT(30), <1>10, <2>1 DEF SnapshotSlot
  <2> QED
    BY <1>10, <2>2 DEF SnapshotSlot, Goto, locks, shm, log, counts
<1>11. ASSUME NEW p \in Procs, SnapshotClose(p) PROVE TypeOK'
  BY SMTT(30), <1>11 DEF SnapshotClose, locks, shm, log, counts
<1>12. ASSUME NEW p \in Procs, CheckpointLock(p) PROVE TypeOK'
  BY <1>12 DEF CheckpointLock, Goto, locks, shm, log, counts
<1>13. ASSUME NEW p \in Procs, NEW l \in {"idle", "closed"}, CheckpointReset(p, l) PROVE TypeOK'
  BY SMTT(30), <1>13 DEF CheckpointReset, Goto, MayLeave, locks, shm, log, counts
<1>14. ASSUME NEW p \in Procs, NEW l \in {"idle", "closed"}, CheckpointFail(p, l) PROVE TypeOK'
  <2>1. wal' \in Seq(Records \cup {Hole})
    BY <1>14, CheckpointFailWal
  <2>2. walEnd' \in [Procs -> Nat] /\ pc' \in [Procs -> Pcs]
    BY <1>14 DEF CheckpointFail, Goto, Pcs
  <2> QED
    BY <1>14, <2>1, <2>2, ConstantsAssumption DEF CheckpointFail, shm, counts
<1>15. ASSUME NEW p \in Procs, OpenLock(p) PROVE TypeOK'
  BY <1>15 DEF OpenLock, Goto, locks, shm, log, counts
<1>16. ASSUME NEW p \in Procs, ReplayScan(p) PROVE TypeOK'
  <2>1. GoodPrefix \in 0..Len(wal) /\ GoodPrefix \in Nat
    BY GoodPrefixIsGood
  <2>2. wal' \in Seq(Records \cup {Hole}) /\ walEnd' \in [Procs -> Nat]
    BY <1>16, <2>1 DEF ReplayScan
  <2> QED
    BY <1>16, <2>2 DEF ReplayScan, Goto, locks, shm, counts
<1>17. ASSUME NEW p \in Procs, ReplayRecord(p) PROVE TypeOK'
  <2>1. numPages \in Pages
    BY <1>17, PageLeft DEF ReplayRecord
  <2>2. wal[pos[p]] \in Records
    BY <1>17 DEF ReplayRecord, Scans
  <2>3. /\ wal[pos[p]].coll \in Colls /\ wal[pos[p]].key \in Keys /\ wal[pos[p]].id \in 0..MaxTxns
    <3> HIDE DEF TypeOK
    <3> QED
      BY <2>2, ConstantsAssumption DEF Records, Txns
  <2>4. Tree(roots[wal[pos[p]].coll]) \in Trees
    BY <2>3, TreeType
  <2>5. file' \in [Pages -> Trees]
    BY <1>17, <2>1, <2>3, <2>4 DEF ReplayRecord, Trees
  <2>6. roots' \in [Colls -> {0} \cup Pages]
    BY <1>17, <2>1, <2>3 DEF ReplayRecord, StoreRoot
  <2> QED
    BY SMTT(30), <1>17, <2>5, <2>6 DEF ReplayRecord, locks, counts
<1>18. ASSUME NEW p \in Procs, ReplayError(p) PROVE TypeOK'
  BY SMTT(30), <1>18 DEF ReplayError, Goto, locks, shm, log, counts
<1>19. ASSUME NEW p \in Procs, OpenDone(p) PROVE TypeOK'
  BY <1>19 DEF OpenDone, Goto, locks, shm, log, counts
<1>20. ASSUME NEW p \in Procs, Crash(p) PROVE TypeOK'
  BY <1>20, NoTxnType DEF Crash, Goto, shm
<1>21. CASE UNCHANGED vars
  BY <1>21 DEF vars, locks, shm, log, counts
<1> HIDE DEF TypeInv, TypeOK, Pcs
<1> QED
  BY <1>1, <1>2, <1>3, <1>4, <1>5, <1>6, <1>7, <1>8, <1>9, <1>10,
     <1>11, <1>12, <1>13, <1>14, <1>15, <1>16, <1>17, <1>18, <1>19, <1>20, <1>21
     DEF Next, Commit, Snapshot, Checkpoint, Open

(* The invariant behind the type holds at first, *)
LEMMA InitTypeInv == Init => TypeInv
<1> SUFFICES ASSUME Init PROVE TypeInv
  OBVIOUS
<1>1. TypeOK
  <2>1. 1 \in 1..(MaxTxns + 1) /\ {0} \cup Pages # {} /\ EmptyTree \in Trees
    BY ConstantsAssumption DEF EmptyTree, Trees
  <2>2. published \in [Colls -> Trees] /\ file \in [Pages -> Trees]
    BY <2>1 DEF Init
  <2> QED
    BY <2>1, <2>2, NoTxnType, ConstantsAssumption DEF Init, TypeOK, Pcs
<1>2. Locks
  BY ConstantsAssumption DEF Init, Locks, SharedPcs, ExclPcs, Active
<1>3. Scans /\ Numbered
  BY DEF Init, Scans, Numbered, Active, Owning
<1>4. Waiting = {} /\ Started = {}
  BY DEF Init, Waiting, Started
<1>5. Quota
  BY <1>4, FS_EmptySet, ConstantsAssumption DEF Init, Quota
<1>6. Room
  <2>1. Cardinality(Started) = 0 /\ 0 * MaxTxns = 0
    BY <1>4, FS_EmptySet, ConstantsAssumption
  <2>2. Budget = 1
    BY <2>1 DEF Init, Budget
  <2> QED
    BY <2>2 DEF Init, Room, Active
<1> QED
  BY <1>1, <1>2, <1>3, <1>5, <1>6 DEF TypeInv

(* and every step keeps it. *)
LEMMA TypeInvStep == TypeInv /\ [Next]_vars => TypeInv'
  BY TypeStep, LocksStep, ScansStep, NumberedStep, QuotaStep, RoomStep DEF TypeInv

(* The invariant behind the type: numbers and page ids never run out. *)
THEOREM TypeInvariant == Spec => []TypeInv
  BY InitTypeInv, TypeInvStep, PTL DEF Spec

(* Every variable keeps its type, the bounds of Pages included: no step of a *)
(* commit or a replay writes a page that the file does not have. *)
THEOREM TypeCorrect == Spec => []TypeOK
  BY TypeInvariant, PTL DEF TypeInv

-----------------------------------------------------------------------------
(* Pages: what an abort of a lone transaction leaves alone.                 *)

(* Where aborts roll num_pages back, one transaction is under way. *)
LEMMA OneActive ==
  ASSUME TypeOK, Locks, RollbackAlone, MaxAborts # 0,
         NEW p \in Procs, pc[p] \in Active, NEW q \in Procs, pc[q] \in Active
  PROVE  p = q
<1>1. CASE SingleProcess
  BY <1>1 DEF SingleProcess
<1>2. CASE NumColls = 1
  <2>1. txn[p].coll = 0 /\ txn[q].coll = 0
    <3>1. txn[p].coll \in Colls /\ txn[q].coll \in Colls
      BY DEF TypeOK, Transactions
    <3>2. Colls = {0}
      BY <1>2 DEF Colls
    <3> QED
      BY <3>1, <3>2
  <2> QED
    BY <2>1 DEF Locks
<1> QED
  BY <1>1, <1>2 DEF RollbackAlone, Alone

(* A page in use has an id of the file. *)
LEMMA ReachableType ==
  ASSUME TypeOK
  PROVE  /\ Reachable \subseteq Pages
         /\ \A c \in Colls : roots[c] \in Reachable \/ roots[c] = 0
<1>1. \A c \in Colls : roots[c] \in {0} \cup Pages
  BY DEF TypeOK
<1>2. \A p \in Procs : \A i \in DOMAIN snap[p] : snap[p][i] \in {0} \cup Pages
  <2>1. \A p \in Procs : snap[p] \in Seq({0} \cup Pages)
    BY DEF TypeOK
  <2> QED
    BY <2>1
<1> QED
  BY <1>1, <1>2 DEF Reachable

(* Snapshots end up in what was in use before. *)
LEMMA SnapshotKeeps ==
  ASSUME TypeOK, NEW p \in Procs, SnapshotSlot(p) \/ SnapshotClose(p) \/ Crash(p), Scans
  PROVE  Reachable' \subseteq Reachable
<1>1. roots' = roots /\ snap \in [Procs -> Seq({0} \cup Pages)]
  BY DEF SnapshotSlot, SnapshotClose, Crash, shm, TypeOK
<1>2. \A q \in Procs : \A i \in DOMAIN snap'[q] :
         \/ i \in DOMAIN snap[q] /\ snap'[q][i] = snap[q][i]
         \/ \E c \in Colls : snap'[q][i] = roots[c]
  <2>1. CASE SnapshotSlot(p)
    <3>1. Len(snap[p]) \in Colls
      <4>1. Len(snap[p]) \in Nat /\ Len(snap[p]) < NumColls
        BY <1>1, <2>1 DEF SnapshotSlot, Scans
      <4> QED
        BY <4>1, ConstantsAssumption DEF Colls
    <3>2. snap' = [snap EXCEPT ![p] = Append(snap[p], roots[Len(snap[p])])]
      BY <2>1 DEF SnapshotSlot
    <3> QED
      BY <1>1, <3>1, <3>2
  <2>2. CASE SnapshotClose(p) \/ Crash(p)
    <3>1. snap' = [snap EXCEPT ![p] = <<>>]
      BY <2>2 DEF SnapshotClose, Crash
    <3> QED
      BY <1>1, <3>1
  <2> QED
    BY <2>1, <2>2
<1> QED
  BY <1>1, <1>2 DEF Reachable

(* Every step keeps pages in use and pages of a transaction apart. *)
LEMMA PrivateStep == RollbackAlone /\ TypeInv /\ Private /\ [Next]_vars => Private'
<1> SUFFICES ASSUME RollbackAlone /\ TypeInv /\ Private, [Next]_vars PROVE Private'
  OBVIOUS
<1>0. /\ pc \in [Procs -> Pcs] /\ txn \in [Procs -> Transactions]
      /\ numPages \in Nat \ {0} /\ roots \in [Colls -> {0} \cup Pages]
      /\ Reachable \subseteq Nat /\ Pages \subseteq Nat
      /\ snap \in [Procs -> Seq({0} \cup Pages)] /\ MaxAborts \in Nat /\ aborts \in Nat
      /\ \A p \in Procs : txn[p].pages \in Nat
      /\ TypeOK
  <2>1. Pages \subseteq Nat
    BY ConstantsAssumption DEF Pages
  <2>2. TypeOK
    BY DEF TypeInv
  <2>3. txn \in [Procs -> Transactions] /\ \A p \in Procs : txn[p].pages \in Nat
    BY <2>2 DEF TypeOK, Transactions
  <2>4. Reachable \subseteq Nat
    BY <2>1, <2>2, ReachableType
  <2> QED
    BY SMTT(30), <2>1, <2>2, <2>3, <2>4, ConstantsAssumption DEF TypeOK
<1> USE DEF Private, Active, Owning, Pcs
<1>1. ASSUME NEW p \in Procs, NEW c \in Colls, BeginShared(p, c) PROVE Private'
  <2>1. Reachable' = Reachable
    BY <1>1 DEF BeginShared, Reachable, shm
  <2>2. \A q \in Procs \ {p} : txn'[q] = txn[q]
    BY <1>1, <1>0, BeginSharedTxn
  <2>3. pc' = [pc EXCEPT ![p] = "begin"] /\ UNCHANGED numPages
    BY <1>1 DEF BeginShared, Goto, shm
  <2> QED
    BY <1>0, <2>1, <2>2, <2>3
<1>2. ASSUME NEW p \in Procs, BeginWriter(p) PROVE Private'
  <2>1. Reachable' = Reachable
    BY <1>2 DEF BeginWriter, Reachable, shm
  <2> QED
    BY <1>2, <1>0, <2>1 DEF BeginWriter, Goto, locks, shm, log, counts
<1>3. ASSUME NEW p \in Procs, Refresh(p) PROVE Private'
  <2>1. Reachable' = Reachable
    BY <1>3 DEF Refresh, Reachable, shm
  <2>2. /\ \A q \in Procs \ {p} : txn'[q] = txn[q]
        /\ txn'[p].pages = numPages /\ pc' = [pc EXCEPT ![p] = "txn"]
        /\ UNCHANGED numPages
    BY <1>3, <1>0, RefreshTxn
  <2>4. \A g \in Reachable : g < numPages'
    BY <1>0, <2>1, <2>2
  <2>5. \A q \in Procs : pc'[q] \in Owning =>
           /\ txn'[q].page \in Pages /\ txn'[q].page < numPages'
           /\ txn'[q].page \notin Reachable
    BY <1>0, <2>2
  <2>6. \A q, r \in Procs :
            pc'[q] \in Owning /\ pc'[r] \in Owning /\ txn'[q].page = txn'[r].page => q = r
    BY <1>0, <2>2
  <2>7. MaxAborts # 0 => \A q \in Procs : pc'[q] \in Active =>
          /\ txn'[q].pages <= numPages'
          /\ \A g \in Reachable : g < txn'[q].pages
    BY <1>0, <2>2
  <2> QED
    BY <2>1, <2>4, <2>5, <2>6, <2>7
<1>4. ASSUME NEW p \in Procs, NEW k \in Keys, Put(p, k) PROVE Private'
  <2>1. Reachable' = Reachable
    BY <1>4 DEF Put, Reachable
  <2>2. /\ \A q \in Procs \ {p} : txn'[q] = txn[q]
        /\ txn'[p].pages = txn[p].pages /\ txn'[p].page = numPages
        /\ pc[p] = "txn" /\ pc' = [pc EXCEPT ![p] = "dirty"] /\ numPages' = numPages + 1
    BY <1>4, <1>0, PutTxn
  <2>3. numPages \in Pages
    BY <1>4, PageLeft DEF Put, TypeInv
  <2>4. \A g \in Reachable : g < numPages'
    <3>1. \A g \in Reachable : g \in Nat /\ g < numPages
      BY <1>0
    <3> QED
      BY <1>0, <2>2, <3>1
  <2>5. \A q \in Procs : pc'[q] \in Owning =>
           /\ txn'[q].page \in Pages /\ txn'[q].page < numPages'
           /\ txn'[q].page \notin Reachable
    <3>1. numPages \notin Reachable
      BY <1>0
    <3>2. txn'[p].page = numPages /\ numPages < numPages'
      BY <1>0, <2>2
    <3>3. ASSUME NEW q \in Procs \ {p}, pc'[q] \in Owning
          PROVE  /\ txn'[q].page \in Pages /\ txn'[q].page < numPages'
                 /\ txn'[q].page \notin Reachable
      <4>1. pc[q] \in Owning /\ txn'[q] = txn[q]
        BY <1>0, <2>2, <3>3
      <4>2. txn[q].page \in Pages /\ txn[q].page < numPages /\ txn[q].page \notin Reachable
        BY <4>1
      <4>3. \A n \in Pages : n < numPages => n < numPages'
        BY <1>0, <2>2
      <4> QED
        BY <4>1, <4>2, <4>3
    <3> QED
      BY <2>3, <3>1, <3>2, <3>3
  <2>6. \A q, r \in Procs :
            pc'[q] \in Owning /\ pc'[r] \in Owning /\ txn'[q].page = txn'[r].page => q = r
    BY <1>0, <2>2
  <2>7. MaxAborts # 0 => \A q \in Procs : pc'[q] \in Active =>
          /\ txn'[q].pages <= numPages'
          /\ \A g \in Reachable : g < txn'[q].pages
    BY <1>0, <2>2
  <2> QED
    BY <2>1, <2>4, <2>5, <2>6, <2>7
<1>5. ASSUME NEW p \in Procs, CommitAppend(p) PROVE Private'
  <2>1. Reachable' = Reachable
    BY <1>5 DEF CommitAppend, Reachable, shm
  <2> QED
    BY <1>5, <1>0, <2>1 DEF CommitAppend, Goto, locks, shm, log, counts
<1>6. ASSUME NEW p \in Procs, WritePages(p) PROVE Private'
  <2>1. Reachable' = Reachable
    BY <1>6 DEF WritePages, Reachable, shm
  <2> QED
    BY <1>6, <1>0, <2>1 DEF WritePages, Goto, locks, shm, log, counts
<1>7. ASSUME NEW p \in Procs, Publish(p) PROVE Private'
  <2>1. /\ pc[p] = "written" /\ pc' = [pc EXCEPT ![p] = "idle"]
        /\ \A q \in Procs \ {p} : txn'[q] = txn[q]
        /\ roots' = [roots EXCEPT ![txn[p].coll] = txn[p].page]
        /\ UNCHANGED <<numPages, snap>>
    BY <1>7, <1>0 DEF Publish, StoreRoot, Finish, Goto
  <2>2. Reachable' \subseteq Reachable \cup {txn[p].page}
    BY <1>0, <2>1 DEF Reachable
  <2>3. txn[p].page \in Pages /\ txn[p].page < numPages
    BY <2>1
  <2>4. \A q \in Procs \ {p} : pc[q] \in Owning => txn[q].page # txn[p].page
    BY <2>1
  <2>5. MaxAborts # 0 => \A q \in Procs : pc[q] \in Active => q = p
    BY <2>1, OneActive DEF TypeInv
  <2>6. MaxAborts # 0 => \A q \in Procs : pc'[q] \notin Active
    BY <1>0, <2>1, <2>5
  <2>7. \A q \in Procs : pc'[q] \in Owning => q # p /\ pc[q] \in Owning /\ txn'[q] = txn[q]
    BY <1>0, <2>1
  <2>8. \A g \in Reachable' : g < numPages'
    BY <2>1, <2>2, <2>3
  <2>9. \A q \in Procs : pc'[q] \in Owning =>
           /\ txn'[q].page \in Pages /\ txn'[q].page < numPages'
           /\ txn'[q].page \notin Reachable'
    BY <2>1, <2>2, <2>4, <2>7
  <2>10. \A q, r \in Procs :
            pc'[q] \in Owning /\ pc'[r] \in Owning /\ txn'[q].page = txn'[r].page => q = r
    BY <2>7
  <2> QED
    BY <2>6, <2>8, <2>9, <2>10
<1>8. ASSUME NEW p \in Procs, Abort(p) PROVE Private'
  <2>1. /\ pc[p] \in Active /\ pc' = [pc EXCEPT ![p] = "idle"] /\ MaxAborts # 0
        /\ \A q \in Procs \ {p} : txn'[q] = txn[q]
        /\ numPages' = txn[p].pages
        /\ UNCHANGED <<roots, snap>>
    BY <1>8, <1>0 DEF Abort, Finish, Goto
  <2>2. Reachable' = Reachable
    BY <2>1 DEF Reachable
  <2>3. \A q \in Procs : pc[q] \in Active => q = p
    BY <2>1, OneActive DEF TypeInv
  <2>4. \A q \in Procs : pc'[q] \notin Active
    BY <1>0, <2>1, <2>3
  <2> QED
    BY <2>1, <2>2, <2>4
<1>9. ASSUME NEW p \in Procs, SnapshotBegin(p) PROVE Private'
  <2>1. Reachable' = Reachable
    BY <1>9 DEF SnapshotBegin, Reachable, shm
  <2> QED
    BY <1>9, <1>0, <2>1 DEF SnapshotBegin, Goto, locks, shm, log, counts
<1>10. ASSUME NEW p \in Procs, SnapshotSlot(p) PROVE Private'
  <2>1. Reachable' \subseteq Reachable
    BY <1>10, SnapshotKeeps DEF TypeInv
  <2>2. /\ pc' = [pc EXCEPT ![p] = IF Len(snap[p]) + 1 = NumColls THEN "idle" ELSE "capture"]
        /\ UNCHANGED <<numPages, txn>>
    BY <1>10 DEF SnapshotSlot, Goto, shm
  <2> QED
    BY <1>0, <2>1, <2>2
<1>11. ASSUME NEW p \in Procs, SnapshotClose(p) PROVE Private'
  <2>1. Reachable' \subseteq Reachable
    BY <1>11, SnapshotKeeps DEF TypeInv
  <2> QED
    BY <1>11, <2>1 DEF SnapshotClose, shm
<1>12. ASSUME NEW p \in Procs, CheckpointLock(p) PROVE Private'
  <2>1. Reachable' = Reachable
    BY <1>12 DEF CheckpointLock, Reachable, shm
  <2> QED
    BY <1>12, <1>0, <2>1 DEF CheckpointLock, Goto, locks, shm, log, counts
<1>13. ASSUME NEW p \in Procs, NEW l \in {"idle", "closed"}, CheckpointReset(p, l) PROVE Private'
  <2>1. Reachable' = Reachable
    BY <1>13 DEF CheckpointReset, Reachable, shm
  <2> QED
    BY <1>13, <1>0, <2>1 DEF CheckpointReset, Goto, MayLeave, locks, shm, log, counts
<1>14. ASSUME NEW p \in Procs, NEW l \in {"idle", "closed"}, CheckpointFail(p, l) PROVE Private'
  <2>1. Reachable' = Reachable
    BY <1>14 DEF CheckpointFail, Reachable, shm
  <2> QED
    BY <1>14, <1>0, <2>1 DEF CheckpointFail, Goto, MayLeave, locks, shm, log, counts
<1>15. ASSUME NEW p \in Procs, OpenLock(p) PROVE Private'
  <2>1. Reachable' = Reachable
    BY <1>15 DEF OpenLock, Reachable, shm
  <2> QED
    BY <1>15, <1>0, <2>1 DEF OpenLock, Goto, locks, shm, log, counts
<1>16. ASSUME NEW p \in Procs, ReplayScan(p) PROVE Private'
  <2>1. Reachable' = Reachable
    BY <1>16 DEF ReplayScan, Reachable, shm
  <2> QED
    BY <1>16, <1>0, <2>1 DEF ReplayScan, Goto, locks, shm, log, counts
<1>17. ASSUME NEW p \in Procs, ReplayRecord(p) PROVE Private'
  <2>1. /\ pc[p] = "replay" /\ numPages' = numPages + 1 /\ UNCHANGED <<pc, txn, snap>>
        /\ roots' = [roots EXCEPT ![wal[pos[p]].coll] = numPages]
    BY <1>17 DEF ReplayRecord, StoreRoot
  <2>2. Reachable' \subseteq Reachable \cup {numPages}
    BY <1>0, <2>1 DEF Reachable
  <2>3. \A q \in Procs : pc[q] \notin Active
    BY <1>0, <2>1, NoExclBesideShared DEF TypeInv, ExclPcs, SharedPcs
  <2>4. \A q \in Procs : pc'[q] \notin Active /\ pc'[q] \notin Owning
    BY <2>1, <2>3
  <2>5. \A g \in Reachable' : g < numPages'
    BY <1>0, <2>1, <2>2
  <2> QED
    BY <2>4, <2>5
<1>18. ASSUME NEW p \in Procs, ReplayError(p) PROVE Private'
  <2>1. Reachable' = Reachable
    BY <1>18 DEF ReplayError, Reachable, shm
  <2> QED
    BY <1>18, <1>0, <2>1 DEF ReplayError, Goto, locks, shm, log, counts
<1>19. ASSUME NEW p \in Procs, OpenDone(p) PROVE Private'
  <2>1. Reachable' = Reachable
    BY <1>19 DEF OpenDone, Reachable, shm
  <2> QED
    BY <1>19, <1>0, <2>1 DEF OpenDone, Goto, locks, shm, log, counts
<1>20. ASSUME NEW p \in Procs, Crash(p) PROVE Private'
  <2>1. Reachable' \subseteq Reachable
    BY <1>20, SnapshotKeeps DEF TypeInv
  <2>2. /\ pc' = [pc EXCEPT ![p] = "closed"] /\ \A q \in Procs \ {p} : txn'[q] = txn[q]
        /\ UNCHANGED numPages
    BY <1>20, <1>0 DEF Crash, Goto, shm
  <2> QED
    BY <1>0, <2>1, <2>2
<1>21. CASE UNCHANGED vars

  <2>1. Reachable' = Reachable
    BY <1>21 DEF vars, Reachable
  <2> QED
    BY <1>21, <2>1 DEF vars
<1> HIDE DEF Private, Active, Owning, Pcs
<1> QED
  BY <1>1, <1>2, <1>3, <1>4, <1>5, <1>6, <1>7, <1>8, <1>9, <1>10,
     <1>11, <1>12, <1>13, <1>14, <1>15, <1>16, <1>17, <1>18, <1>19, <1>20, <1>21
     DEF Next, Commit, Snapshot, Checkpoint, Open

(* Every live root passes Pager.read's bound where aborts meet no other *)
(* transaction. *)
LEMMA PrivateReadable == TypeOK /\ Private => LiveRootsReadable
<1> SUFFICES ASSUME TypeOK, Private, NEW c \in Colls PROVE roots[c] < numPages
  BY DEF LiveRootsReadable
<1>1. roots[c] \in Reachable \/ roots[c] = 0
  BY ReachableType
<1> QED
  BY <1>1 DEF Private, TypeOK

(* No page in use is written to. *)
LEMMA PagesKept ==
  RollbackAlone /\ PageInv /\ [Next]_vars => \A g \in Reachable : file'[g] = file[g]
<1> SUFFICES ASSUME RollbackAlone, PageInv, [Next]_vars, file' # file
             PROVE  \A g \in Reachable : file'[g] = file[g]
  OBVIOUS
<1>0. TypeOK /\ Locks /\ Private /\ file \in [Pages -> Trees] /\ Reachable \subseteq Pages
  BY ReachableType DEF PageInv, TypeInv, TypeOK
<1>1. ASSUME NEW p \in Procs, WritePages(p)
      PROVE  \A g \in Reachable : file'[g] = file[g]
  <2>1. txn[p].page \notin Reachable
    BY <1>0, <1>1 DEF WritePages, Private, Owning
  <2> QED
    BY <1>0, <1>1, <2>1 DEF WritePages
<1>2. ASSUME NEW p \in Procs, ReplayRecord(p)
      PROVE  \A g \in Reachable : file'[g] = file[g]
  <2>1. numPages \notin Reachable
    BY <1>0 DEF Private, TypeOK
  <2>2. \E t : file' = [file EXCEPT ![numPages] = t]
    BY <1>2 DEF ReplayRecord
  <2> QED
    BY <1>0, <2>1, <2>2
<1>3. \E p \in Procs : WritePages(p) \/ ReplayRecord(p)
  BY ZenonT(40) DEF vars, Next, Commit, Snapshot, Checkpoint, Open, BeginShared, BeginWriter, Refresh, Put,
         CommitAppend, Publish, Abort, SnapshotBegin, SnapshotSlot, SnapshotClose, CheckpointLock,
         CheckpointReset, CheckpointFail, OpenLock, ReplayScan, ReplayError, OpenDone, Crash
<1> QED
  BY <1>1, <1>2, <1>3

(* A transaction under way goes on by its own four steps; no other step touches it. *)
LEMMA ActiveStep ==
  ASSUME TypeOK, [Next]_vars, NEW q \in Procs, pc'[q] \in Active
  PROVE  \/ pc'[q] = pc[q] /\ txn'[q] = txn[q]
         \/ Refresh(q) \/ (\E k \in Keys : Put(q, k)) \/ CommitAppend(q) \/ WritePages(q)
<1>1. ASSUME NEW p \in Procs, NEW c \in Colls, BeginShared(p, c)
      PROVE  \/ pc'[q] = pc[q] /\ txn'[q] = txn[q]
             \/ Refresh(q) \/ (\E k \in Keys : Put(q, k)) \/ CommitAppend(q) \/ WritePages(q)
  BY <1>1, BeginSharedTxn DEF BeginShared, Goto, TypeOK, Active
<1>2. ASSUME NEW p \in Procs, BeginWriter(p)
      PROVE  \/ pc'[q] = pc[q] /\ txn'[q] = txn[q]
             \/ Refresh(q) \/ (\E k \in Keys : Put(q, k)) \/ CommitAppend(q) \/ WritePages(q)
  BY <1>2 DEF BeginWriter, Goto, locks, shm, log, counts, Active, TypeOK
<1>3. ASSUME NEW p \in Procs, Refresh(p)
      PROVE  \/ pc'[q] = pc[q] /\ txn'[q] = txn[q]
             \/ Refresh(q) \/ (\E k \in Keys : Put(q, k)) \/ CommitAppend(q) \/ WritePages(q)
  <2>1. CASE q = p
    BY <1>3, <2>1
  <2>2. CASE q # p
    BY ZenonT(40), <1>3, <2>2, RefreshTxn DEF Refresh, Goto, TypeOK
  <2> QED
    BY <2>1, <2>2
<1>4. ASSUME NEW p \in Procs, NEW j \in Keys, Put(p, j)
      PROVE  \/ pc'[q] = pc[q] /\ txn'[q] = txn[q]
             \/ Refresh(q) \/ (\E k \in Keys : Put(q, k)) \/ CommitAppend(q) \/ WritePages(q)
  <2>1. CASE q = p
    BY <1>4, <2>1
  <2>2. CASE q # p
    <3>1. txn'[q] = txn[q] /\ pc' = [pc EXCEPT ![p] = "dirty"]
      BY <1>4, <2>2, PutTxn
    <3> QED
      BY <2>2, <3>1 DEF TypeOK
  <2> QED
    BY <2>1, <2>2
<1>5. ASSUME NEW p \in Procs, CommitAppend(p)
      PROVE  \/ pc'[q] = pc[q] /\ txn'[q] = txn[q]
             \/ Refresh(q) \/ (\E k \in Keys : Put(q, k)) \/ CommitAppend(q) \/ WritePages(q)
  <2>1. CASE q = p
    BY <1>5, <2>1
  <2>2. CASE q # p
    BY <1>5, <2>2 DEF CommitAppend, Goto, TypeOK
  <2> QED
    BY <2>1, <2>2
<1>6. ASSUME NEW p \in Procs, WritePages(p)
      PROVE  \/ pc'[q] = pc[q] /\ txn'[q] = txn[q]
             \/ Refresh(q) \/ (\E k \in Keys : Put(q, k)) \/ CommitAppend(q) \/ WritePages(q)
  <2>1. CASE q = p
    BY <1>6, <2>1
  <2>2. CASE q # p
    BY <1>6, <2>2 DEF WritePages, Goto, TypeOK
  <2> QED
    BY <2>1, <2>2
<1>7. ASSUME NEW p \in Procs, Publish(p)
      PROVE  \/ pc'[q] = pc[q] /\ txn'[q] = txn[q]
             \/ Refresh(q) \/ (\E k \in Keys : Put(q, k)) \/ CommitAppend(q) \/ WritePages(q)
  BY <1>7 DEF Publish, Goto, StoreRoot, Finish, locks, shm, log, counts, Active, TypeOK
<1>8. ASSUME NEW p \in Procs, Abort(p)
      PROVE  \/ pc'[q] = pc[q] /\ txn'[q] = txn[q]
             \/ Refresh(q) \/ (\E k \in Keys : Put(q, k)) \/ CommitAppend(q) \/ WritePages(q)
  BY <1>8 DEF Abort, Goto, Finish, locks, shm, log, counts, Active, TypeOK
<1>9. ASSUME NEW p \in Procs, SnapshotBegin(p)
      PROVE  \/ pc'[q] = pc[q] /\ txn'[q] = txn[q]
             \/ Refresh(q) \/ (\E k \in Keys : Put(q, k)) \/ CommitAppend(q) \/ WritePages(q)
  BY <1>9 DEF SnapshotBegin, Goto, locks, shm, log, counts, Active, TypeOK
<1>10. ASSUME NEW p \in Procs, SnapshotSlot(p)
      PROVE  \/ pc'[q] = pc[q] /\ txn'[q] = txn[q]
             \/ Refresh(q) \/ (\E k \in Keys : Put(q, k)) \/ CommitAppend(q) \/ WritePages(q)
  BY <1>10 DEF SnapshotSlot, Goto, locks, shm, log, counts, Active, TypeOK
<1>11. ASSUME NEW p \in Procs, SnapshotClose(p)
      PROVE  \/ pc'[q] = pc[q] /\ txn'[q] = txn[q]
             \/ Refresh(q) \/ (\E k \in Keys : Put(q, k)) \/ CommitAppend(q) \/ WritePages(q)
  BY <1>11 DEF SnapshotClose, Goto, locks, shm, log, counts, Active, TypeOK
<1>12. ASSUME NEW p \in Procs, CheckpointLock(p)
      PROVE  \/ pc'[q] = pc[q] /\ txn'[q] = txn[q]
             \/ Refresh(q) \/ (\E k \in Keys : Put(q, k)) \/ CommitAppend(q) \/ WritePages(q)
  BY <1>12 DEF CheckpointLock, Goto, locks, shm, log, counts, Active, TypeOK
<1>13. ASSUME NEW p \in Procs, NEW l \in {"idle", "closed"}, CheckpointReset(p, l)
      PROVE  \/ pc'[q] = pc[q] /\ txn'[q] = txn[q]
             \/ Refresh(q) \/ (\E k \in Keys : Put(q, k)) \/ CommitAppend(q) \/ WritePages(q)
  BY <1>13 DEF CheckpointReset, Goto, MayLeave, locks, shm, log, counts, Active, TypeOK
<1>14. ASSUME NEW p \in Procs, NEW l \in {"idle", "closed"}, CheckpointFail(p, l)
      PROVE  \/ pc'[q] = pc[q] /\ txn'[q] = txn[q]
             \/ Refresh(q) \/ (\E k \in Keys : Put(q, k)) \/ CommitAppend(q) \/ WritePages(q)
  BY <1>14 DEF CheckpointFail, Goto, MayLeave, locks, shm, log, counts, Active, TypeOK
<1>15. ASSUME NEW p \in Procs, OpenLock(p)
      PROVE  \/ pc'[q] = pc[q] /\ txn'[q] = txn[q]
             \/ Refresh(q) \/ (\E k \in Keys : Put(q, k)) \/ CommitAppend(q) \/ WritePages(q)
  BY <1>15 DEF OpenLock, Goto, locks, shm, log, counts, Active, TypeOK
<1>16. ASSUME NEW p \in Procs, ReplayScan(p)
      PROVE  \/ pc'[q] = pc[q] /\ txn'[q] = txn[q]
             \/ Refresh(q) \/ (\E k \in Keys : Put(q, k)) \/ CommitAppend(q) \/ WritePages(q)
  BY <1>16 DEF ReplayScan, Goto, locks, shm, log, counts, Active, TypeOK
<1>17. ASSUME NEW p \in Procs, ReplayRecord(p)
      PROVE  \/ pc'[q] = pc[q] /\ txn'[q] = txn[q]
             \/ Refresh(q) \/ (\E k \in Keys : Put(q, k)) \/ CommitAppend(q) \/ WritePages(q)
  BY <1>17 DEF ReplayRecord, Goto, StoreRoot, locks, shm, log, counts, Active, TypeOK
<1>18. ASSUME NEW p \in Procs, ReplayError(p)
      PROVE  \/ pc'[q] = pc[q] /\ txn'[q] = txn[q]
             \/ Refresh(q) \/ (\E k \in Keys : Put(q, k)) \/ CommitAppend(q) \/ WritePages(q)
  BY <1>18 DEF ReplayError, Goto, locks, shm, log, counts, Active, TypeOK
<1>19. ASSUME NEW p \in Procs, OpenDone(p)
      PROVE  \/ pc'[q] = pc[q] /\ txn'[q] = txn[q]
             \/ Refresh(q) \/ (\E k \in Keys : Put(q, k)) \/ CommitAppend(q) \/ WritePages(q)
  BY <1>19 DEF OpenDone, Goto, locks, shm, log, counts, Active, TypeOK
<1>20. ASSUME NEW p \in Procs, Crash(p)
      PROVE  \/ pc'[q] = pc[q] /\ txn'[q] = txn[q]
             \/ Refresh(q) \/ (\E k \in Keys : Put(q, k)) \/ CommitAppend(q) \/ WritePages(q)
  BY <1>20 DEF Crash, Goto, locks, shm, log, counts, Active, TypeOK
<1>21. CASE UNCHANGED vars
  BY <1>21 DEF vars
<1> QED
  BY <1>1, <1>2, <1>3, <1>4, <1>5, <1>6, <1>7, <1>8, <1>9, <1>10,
     <1>11, <1>12, <1>13, <1>14, <1>15, <1>16, <1>17, <1>18, <1>19, <1>20, <1>21
     DEF Next, Commit, Snapshot, Checkpoint, Open

(* Two steps move a live root. *)
LEMMA RootsMove ==
  ASSUME TypeOK, [Next]_vars, roots' # roots
  PROVE  \E p \in Procs : Publish(p) \/ ReplayRecord(p)
  BY ZenonT(40) DEF vars, Next, Commit, Snapshot, Checkpoint, Open, BeginShared, BeginWriter, Refresh, Put,
         CommitAppend, WritePages, Abort, SnapshotBegin, SnapshotSlot, SnapshotClose, CheckpointLock,
         CheckpointReset, CheckpointFail, OpenLock, ReplayScan, ReplayError, OpenDone, Crash, shm

(* Two steps write a page. *)
LEMMA FileMoves ==
  ASSUME TypeOK, [Next]_vars, file' # file
  PROVE  \E p \in Procs : WritePages(p) \/ ReplayRecord(p)
  BY ZenonT(40) DEF vars, Next, Commit, Snapshot, Checkpoint, Open, BeginShared, BeginWriter, Refresh, Put,
         CommitAppend, Publish, Abort, SnapshotBegin, SnapshotSlot, SnapshotClose, CheckpointLock,
         CheckpointReset, CheckpointFail, OpenLock, ReplayScan, ReplayError, OpenDone, Crash

(* The tree under a root in use stays as it is. *)
LEMMA TreesKept ==
  ASSUME RollbackAlone, PageInv, [Next]_vars, NEW c \in Colls
  PROVE  /\ Tree(roots[c]) = IF roots[c] = 0 THEN EmptyTree ELSE file'[roots[c]]
         /\ roots'[c] = roots[c] => Tree(roots[c])' = Tree(roots[c])
<1>1. roots[c] = 0 \/ roots[c] \in Reachable
  BY ReachableType DEF PageInv, TypeInv
<1>2. roots[c] # 0 => file'[roots[c]] = file[roots[c]]
  BY <1>1, PagesKept
<1> QED
  BY <1>2 DEF Tree, EmptyTree

(* What a transaction under way is based on stays so while it rests. *)
LEMMA BasedKept ==
  ASSUME RollbackAlone, PageInv, [Next]_vars, NEW q \in Procs,
         pc[q] \in Active, pc'[q] = pc[q], txn'[q] = txn[q]
  PROVE  BasedAt(q)' /\ roots'[txn[q].coll] = roots[txn[q].coll]
<1>0. /\ TypeOK /\ Locks /\ Private /\ Numbered /\ BasedAt(q)
      /\ txn[q].coll \in Colls /\ \A p \in Procs : txn[p].coll \in Colls
      /\ roots \in [Colls -> {0} \cup Pages] /\ file \in [Pages -> Trees]
      /\ pc \in [Procs -> Pcs]
  BY DEF PageInv, TypeInv, TypeOK, Transactions, Based
<1>1. \A p \in Procs : pc[p] # "replay"
  BY <1>0, NoExclBesideShared DEF SharedPcs, ExclPcs
<1>2. roots'[txn[q].coll] = roots[txn[q].coll]
  <2> SUFFICES ASSUME roots' # roots PROVE roots'[txn[q].coll] = roots[txn[q].coll]
    OBVIOUS
  <2>1. PICK p \in Procs : Publish(p)
    BY <1>0, <1>1, RootsMove DEF ReplayRecord
  <2>2. pc[p] = "written" /\ pc'[p] = "idle" /\ p # q
    BY <1>0, <2>1 DEF Publish, Finish, Goto, Active
  <2>3. txn[p].coll # txn[q].coll
    BY <1>0, <2>2 DEF Locks, Active
  <2>4. roots' = [roots EXCEPT ![txn[p].coll] = txn[p].page]
    BY <2>1 DEF Publish, StoreRoot
  <2> QED
    BY <1>0, <2>3, <2>4
<1>3. pc[q] = "written" => file'[txn[q].page] = file[txn[q].page]
  <2> SUFFICES ASSUME file' # file, pc[q] = "written" PROVE file'[txn[q].page] = file[txn[q].page]
    OBVIOUS
  <2>1. PICK p \in Procs : WritePages(p)
    BY <1>0, <1>1, FileMoves DEF ReplayRecord
  <2>2. pc[p] = "appended" /\ file' = [file EXCEPT ![txn[p].page] = txn[p].tree]
    BY <2>1 DEF WritePages
  <2>3. txn[p].page # txn[q].page
    BY <1>0, <2>2 DEF Private, Owning
  <2> QED
    BY <1>0, <2>2, <2>3 DEF Private, Owning
<1>4. txn[q].base = roots[txn[q].coll]
  BY <1>0 DEF BasedAt
<1>5. Tree(txn[q].base)' = Tree(txn[q].base)
  <2>1. Tree(roots[txn[q].coll])' = Tree(roots[txn[q].coll])
    BY <1>0, <1>2, TreesKept
  <2> QED
    BY <1>2, <1>4, <2>1 DEF Tree
<1>6. txn'[q].base = roots'[txn'[q].coll]
  BY <1>2, <1>4
<1>7. pc'[q] \in Owning =>
         txn'[q].tree = [Tree(txn[q].base)' EXCEPT ![Head(txn'[q].put)] = txn'[q].id]
  BY <1>0, <1>5 DEF BasedAt
<1>8. pc'[q] = "written" => file'[txn'[q].page] = txn'[q].tree
  BY <1>0, <1>3 DEF BasedAt
<1> QED
  BY <1>2, <1>6, <1>7, <1>8 DEF BasedAt

(* Every step keeps transactions based on live roots. *)
LEMMA BasedStep == RollbackAlone /\ PageInv /\ [Next]_vars => Based'
<1> SUFFICES ASSUME RollbackAlone, PageInv, [Next]_vars, NEW q \in Procs, pc'[q] \in Active
             PROVE  BasedAt(q)'
  BY DEF Based
<1>0. /\ TypeOK /\ Numbered /\ Private /\ txn[q].coll \in Colls /\ pc \in [Procs -> Pcs]
      /\ file \in [Pages -> Trees]
      /\ pc[q] \in Active => BasedAt(q)
  BY DEF PageInv, TypeInv, TypeOK, Transactions, Based
<1>1. CASE pc'[q] = pc[q] /\ txn'[q] = txn[q]
  BY <1>1, BasedKept
<1>2. CASE Refresh(q)
  <2>1. /\ txn'[q].coll = txn[q].coll /\ txn'[q].base = roots[txn[q].coll]
        /\ pc'[q] = "txn" /\ roots' = roots
    BY <1>0, <1>2, RefreshTxn
  <2> QED
    BY <2>1 DEF BasedAt, Owning
<1>3. ASSUME NEW k \in Keys, Put(q, k) PROVE BasedAt(q)'
  <2>1. /\ txn'[q].coll = txn[q].coll /\ txn'[q].base = txn[q].base /\ txn'[q].id = txn[q].id
        /\ txn'[q].put = <<k>> /\ txn'[q].tree = [Tree(txn[q].base) EXCEPT ![k] = txn[q].id]
        /\ pc[q] = "txn" /\ pc'[q] = "dirty" /\ roots' = roots /\ file' = file
    BY <1>0, <1>3, PutTxn
  <2>2. txn[q].base = roots[txn[q].coll]
    BY <1>0, <2>1 DEF BasedAt, Active
  <2>3. Head(txn'[q].put) = k
    BY <2>1
  <2>4. Tree(txn[q].base)' = Tree(txn[q].base)
    BY <2>1 DEF Tree
  <2>5. [Tree(txn[q].base)' EXCEPT ![Head(txn'[q].put)] = txn'[q].id]
           = [Tree(txn[q].base) EXCEPT ![k] = txn[q].id]
    BY <2>1, <2>3, <2>4
  <2>6. txn'[q].base = roots'[txn'[q].coll] /\ pc'[q] # "written"
    BY <2>1, <2>2
  <2> QED
    BY <2>1, <2>5, <2>6 DEF BasedAt, Tree
<1>4. CASE CommitAppend(q) \/ WritePages(q)
  <2>1. /\ txn' = txn /\ roots' = roots /\ pc[q] \in Owning
        /\ (pc'[q] = "appended" \/ (pc'[q] = "written" /\ WritePages(q)))
    BY <1>0, <1>4 DEF CommitAppend, WritePages, Goto, shm, Owning
  <2>2. BasedAt(q)
    BY <1>0, <2>1 DEF Active, Owning
  <2>3. Tree(txn[q].base)' = Tree(txn[q].base)
    <3>1. Tree(roots[txn[q].coll])' = Tree(roots[txn[q].coll]) /\ txn[q].base = roots[txn[q].coll]
      BY <1>0, <2>1, <2>2, TreesKept DEF BasedAt
    <3> QED
      BY <2>1, <3>1 DEF Tree
  <2>4. pc'[q] = "written" => file'[txn'[q].page] = txn'[q].tree
    <3>1. WritePages(q) => file' = [file EXCEPT ![txn[q].page] = txn[q].tree]
      BY DEF WritePages
    <3>2. txn[q].page \in Pages
      BY <1>0, <2>1 DEF Private
    <3> QED
      BY <1>0, <2>1, <3>1, <3>2
  <2>5. txn'[q].base = roots'[txn'[q].coll]
    BY <2>1, <2>2 DEF BasedAt
  <2>6. txn'[q].tree = [Tree(txn[q].base)' EXCEPT ![Head(txn'[q].put)] = txn'[q].id]
    BY <2>1, <2>2, <2>3 DEF BasedAt
  <2> QED
    BY <2>1, <2>4, <2>5, <2>6 DEF BasedAt
<1> QED
  BY <1>0, <1>1, <1>2, <1>3, <1>4, ActiveStep

(* Where an abort meets no other transaction, live trees, snapshots and the *)
(* pages of transactions keep apart. *)
THEOREM PageInvariant ==
  ASSUME RollbackAlone
  PROVE  Spec => []PageInv
<1>1. Init => PageInv
  <2> SUFFICES ASSUME Init PROVE PageInv
    OBVIOUS
  <2>1. \A p \in Procs : pc[p] = "closed"
    BY DEF Init
  <2>2. Reachable = {}
    BY DEF Init, Reachable
  <2>3. Private
    BY <2>1, <2>2 DEF Private, Active, Owning
  <2>4. Based
    BY <2>1 DEF Based, Active
  <2>5. TypeInv
    BY InitTypeInv
  <2> QED
    BY <2>3, <2>4, <2>5 DEF PageInv
<1>2. PageInv /\ [Next]_vars => PageInv'
  <2>1. PageInv /\ [Next]_vars => TypeInv'
    BY TypeInvStep DEF PageInv
  <2>2. PageInv /\ [Next]_vars => Private'
    BY RollbackAlone, PrivateStep DEF PageInv
  <2> QED
    BY RollbackAlone, <2>1, <2>2, BasedStep DEF PageInv
<1> QED
  BY <1>1, <1>2, PTL DEF Spec

(* No roll-back of num_pages cuts off a live tree, if the transactions that *)
(* fail run alone. *)
THEOREM LiveRootsStayReadable ==
  ASSUME RollbackAlone
  PROVE  Spec => []LiveRootsReadable
<1>1. PageInv => LiveRootsReadable
  BY PrivateReadable DEF PageInv, TypeInv
<1>2. Spec => []PageInv
  BY RollbackAlone, PageInvariant
<1> QED
  BY <1>1, <1>2, PTL

(* No page that a live tree or an open snapshot uses is written to, by any *)
(* process, whatever commits, aborts, replays or dies. *)
THEOREM PagesStayImmutable ==
  ASSUME RollbackAlone
  PROVE  Spec => PagesImmutable
<1>1. PageInv /\ [Next]_vars => \A g \in Reachable : file'[g] = file[g]
  BY RollbackAlone, PagesKept
<1>2. Spec => []PageInv
  BY RollbackAlone, PageInvariant
<1> QED
  BY <1>1, <1>2, PTL DEF PagesImmutable, Spec

(* What a commit publishes is the tree that was live, with its key written. *)
LEMMA PublishTree ==
  ASSUME PageInv, NEW p \in Procs, Publish(p)
  PROVE  /\ txn[p].coll \in Colls /\ Head(txn[p].put) \in Keys /\ txn[p].id \in 1..(nextTxn - 1)
         /\ \A c \in Colls :
               IF c = txn[p].coll
               THEN Tree(roots[c])' = [Tree(roots[c]) EXCEPT ![Head(txn[p].put)] = txn[p].id]
               ELSE roots'[c] = roots[c]
         /\ published' = [published EXCEPT ![txn[p].coll][Head(txn[p].put)] = txn[p].id]
<1>0. /\ TypeOK /\ Numbered /\ Private /\ roots \in [Colls -> {0} \cup Pages]
      /\ Pages \subseteq Nat \ {0}
  <2>1. TypeOK /\ Pages \subseteq Nat \ {0}
    BY ConstantsAssumption DEF PageInv, TypeInv, Pages
  <2> QED
    BY <2>1 DEF PageInv, TypeInv, TypeOK
<1>1. /\ pc[p] = "written" /\ roots' = [roots EXCEPT ![txn[p].coll] = txn[p].page]
      /\ file' = file
      /\ published' = [published EXCEPT ![txn[p].coll][Head(txn[p].put)] = txn[p].id]
  BY DEF Publish, StoreRoot
<1>2. /\ txn[p].base = roots[txn[p].coll]
      /\ txn[p].tree = [Tree(txn[p].base) EXCEPT ![Head(txn[p].put)] = txn[p].id]
      /\ file[txn[p].page] = txn[p].tree
  BY <1>1 DEF PageInv, Based, BasedAt, Active, Owning
<1>3. txn[p].page \in Pages
  BY <1>0, <1>1 DEF Private, Owning
<1>4. txn[p].coll \in Colls /\ Head(txn[p].put) \in Keys
  <2>1. txn[p].put # <<>> /\ txn[p] \in Transactions
    BY <1>0, <1>1 DEF Numbered, Owning, TypeOK
  <2> QED
    BY <2>1 DEF Transactions
<1>5. roots'[txn[p].coll] = txn[p].page /\ roots'[txn[p].coll] # 0
  BY <1>0, <1>1, <1>3, <1>4
<1>6. ASSUME NEW c \in Colls, c = txn[p].coll
      PROVE  Tree(roots[c])' = [Tree(roots[c]) EXCEPT ![Head(txn[p].put)] = txn[p].id]
  <2>1. roots'[c] = txn[p].page /\ roots'[c] # 0
    BY <1>5, <1>6
  <2>2. Tree(roots[c])' = file'[txn[p].page]
    BY <2>1 DEF Tree
  <2> QED
    BY <1>1, <1>2, <1>6, <2>2
<1>7. txn[p].id \in 1..(nextTxn - 1)
  BY <1>0, <1>1 DEF Numbered, Active
<1> QED
  BY <1>0, <1>1, <1>4, <1>6, <1>7

(* A replayed record writes its key in the tree that was live. *)
LEMMA ReplayTree ==
  ASSUME PageInv, NEW p \in Procs, ReplayRecord(p)
  PROVE  /\ wal[pos[p]] \in Records /\ pos[p] \in 1..Len(wal)
         /\ \A c \in Colls :
               IF c = wal[pos[p]].coll
               THEN Tree(roots[c])' = [Tree(roots[c]) EXCEPT ![wal[pos[p]].key] = wal[pos[p]].id]
               ELSE roots'[c] = roots[c]
<1> DEFINE rec == wal[pos[p]]
<1>0. /\ TypeOK /\ Scans /\ Numbered /\ Room
      /\ roots \in [Colls -> {0} \cup Pages] /\ file \in [Pages -> Trees]
      /\ Pages \subseteq Nat \ {0}
  <2>1. TypeOK /\ Pages \subseteq Nat \ {0}
    BY ConstantsAssumption DEF PageInv, TypeInv, Pages
  <2> QED
    BY <2>1 DEF PageInv, TypeInv, TypeOK
<1>1. /\ pc[p] = "replay" /\ pos[p] <= Len(wal)
      /\ file' = [file EXCEPT ![numPages] = [Tree(roots[rec.coll]) EXCEPT ![rec.key] = rec.id]]
      /\ roots' = [roots EXCEPT ![rec.coll] = numPages]
  BY DEF ReplayRecord, StoreRoot
<1>2. numPages \in Pages
  BY <1>0, <1>1, PageLeft
<1>3. rec \in Records /\ pos[p] \in 1..Len(wal)
  BY <1>0, <1>1 DEF Scans
<1>4. rec.coll \in Colls
  BY <1>3 DEF Records
<1> HIDE DEF rec
<1>5. roots'[rec.coll] = numPages /\ numPages # 0
  BY <1>0, <1>1, <1>2, <1>4
<1>6. ASSUME NEW c \in Colls, c = rec.coll
      PROVE  Tree(roots[c])' = [Tree(roots[c]) EXCEPT ![rec.key] = rec.id]
  <2>1. roots'[c] = numPages /\ roots'[c] # 0
    BY <1>5, <1>6
  <2>2. Tree(roots[c])' = file'[numPages]
    BY <2>1 DEF Tree
  <2> QED
    BY <1>0, <1>1, <1>2, <1>6, <2>2
<1>7. \A c \in Colls \ {rec.coll} : roots'[c] = roots[c]
  BY <1>0, <1>1
<1> QED
  BY <1>3, <1>6, <1>7 DEF rec

(* A step changes at most one key of a live tree: nobody builds on an old one. *)
LEMMA OneKeyChanges ==
  ASSUME RollbackAlone, PageInv, [Next]_vars, NEW c \in Colls
  PROVE  \E k \in Keys : \A j \in Keys \ {k} : Tree(roots[c])[j] = Tree(roots[c])'[j]
<1>0. TypeOK /\ Tree(roots[c]) \in Trees
  <2>1. TypeOK /\ roots[c] \in {0} \cup Pages
    BY DEF PageInv, TypeInv, TypeOK
  <2> QED
    BY <2>1, TreeType
<1>1. CASE roots'[c] = roots[c]
  BY <1>1, TreesKept, ConstantsAssumption
<1>2. CASE roots'[c] # roots[c]
  <2>1. PICK p \in Procs : Publish(p) \/ ReplayRecord(p)
    BY <1>0, <1>2, RootsMove
  <2>2. CASE Publish(p)
    <3>1. /\ c = txn[p].coll /\ Head(txn[p].put) \in Keys
          /\ Tree(roots[c])' = [Tree(roots[c]) EXCEPT ![Head(txn[p].put)] = txn[p].id]
      BY <1>2, <2>2, PublishTree
    <3>2. \A j \in Keys \ {Head(txn[p].put)} : Tree(roots[c])[j] = Tree(roots[c])'[j]
      BY <1>0, <3>1 DEF Trees
    <3> QED
      BY <3>1, <3>2
  <2>3. CASE ReplayRecord(p)
    <3> DEFINE rec == wal[pos[p]]
    <3>1. /\ c = rec.coll /\ rec.key \in Keys
          /\ Tree(roots[c])' = [Tree(roots[c]) EXCEPT ![rec.key] = rec.id]
      BY <1>2, <2>3, ReplayTree DEF Records
    <3> HIDE DEF rec
    <3>2. \A j \in Keys \ {rec.key} : Tree(roots[c])[j] = Tree(roots[c])'[j]
      BY <1>0, <3>1 DEF Trees
    <3> QED
      BY <3>1, <3>2
  <2> QED
    BY <2>1, <2>2, <2>3
<1> QED
  BY <1>1, <1>2

(* No update is lost: what a commit or a replayed record makes live differs *)
(* from what was live in the one key it writes. *)
THEOREM AlwaysBuildsOnLatest ==
  ASSUME RollbackAlone
  PROVE  Spec => BuildsOnLatest
<1>1. PageInv /\ [Next]_vars =>
         \A c \in Colls : \E k \in Keys : \A j \in Keys \ {k} :
            Tree(roots[c])[j] = Tree(roots[c])'[j]
  BY RollbackAlone, OneKeyChanges
<1>2. Spec => []PageInv
  BY RollbackAlone, PageInvariant
<1> QED
  BY <1>1, <1>2, PTL DEF BuildsOnLatest, Spec

-----------------------------------------------------------------------------
(* Commits and replays: what a file without holes keeps.                    *)

(* One step publishes, and one takes a number. *)
LEMMA PublishedMoves ==
  ASSUME TypeOK, [Next]_vars, published' # published
  PROVE  \E p \in Procs : Publish(p)
  BY ZenonT(40) DEF vars, Next, Commit, Snapshot, Checkpoint, Open, BeginShared, BeginWriter, Refresh, Put,
         CommitAppend, WritePages, Abort, SnapshotBegin, SnapshotSlot, SnapshotClose, CheckpointLock,
         CheckpointReset, CheckpointFail, OpenLock, ReplayScan, ReplayRecord, ReplayError, OpenDone,
         Crash

LEMMA NumbersGrow ==
  ASSUME TypeOK, [Next]_vars
  PROVE  nextTxn' \in {nextTxn, nextTxn + 1}
  BY ZenonT(40) DEF vars, Next, Commit, Snapshot, Checkpoint, Open, BeginShared, BeginWriter, Refresh, Put,
         CommitAppend, WritePages, Publish, Abort, SnapshotBegin, SnapshotSlot, SnapshotClose,
         CheckpointLock, CheckpointReset, CheckpointFail, OpenLock, ReplayScan, ReplayRecord,
         ReplayError, OpenDone, Crash, counts

(* Without holes, the WAL grows by a record or is reset beside no commit; the *)
(* scan of a replay cuts nothing off. *)
LEMMA ScanCutsNothing ==
  ASSUME TypeOK, NoHole, NEW p \in Procs, ReplayScan(p)
  PROVE  wal' = wal
<1>1. GoodPrefix = Len(wal)
  BY GoodPrefixIsGood DEF NoHole
<1>2. wal \in Seq(Records \cup {Hole})
  BY DEF TypeOK
<1>3. wal' = SubSeq(wal, 1, Len(wal))
  BY <1>1 DEF ReplayScan
<1> QED
  BY <1>2, <1>3

LEMMA AppendsRecord ==
  ASSUME TypeOK, Numbered, NoHole', NEW p \in Procs, CommitAppend(p)
  PROVE  /\ Len(wal') = Len(wal) + 1
         /\ \A i \in 1..Len(wal) : wal'[i] = wal[i]
         /\ wal'[Len(wal) + 1] =
               [coll |-> txn[p].coll, key |-> Head(txn[p].put), id |-> txn[p].id]
<1>1. PICK end \in Nat, rec \in Records :
            /\ Len(wal) <= end /\ walEnd[p] <= end /\ end \in {Len(wal), walEnd[p]}
            /\ wal' \in Seq(Records \cup {Hole}) /\ Len(wal') = end + 1
            /\ \A i \in 1..Len(wal) : wal'[i] = wal[i]
            /\ \A i \in (Len(wal) + 1)..end : wal'[i] = Hole
            /\ wal'[end + 1] = rec
            /\ rec = [coll |-> txn[p].coll, key |-> Head(txn[p].put), id |-> txn[p].id]
            /\ walEnd' = [walEnd EXCEPT ![p] = end + 1]
  BY CommitAppendWal
<1>2. Len(wal) \in Nat
  BY DEF TypeOK
<1>3. end = Len(wal)
  <2> SUFFICES ASSUME Len(wal) < end PROVE FALSE
    BY <1>1, <1>2
  <2>1. wal'[end] = Hole /\ end \in DOMAIN wal'
    BY <1>1, <1>2
  <2> QED
    BY <2>1 DEF NoHole
<1> QED
  BY <1>1, <1>3

\* Nor does a checkpoint that fails, if it leaves no zeros.
LEMMA FailKeepsWal ==
  ASSUME TypeOK, NoHole', NEW p \in Procs, NEW l \in {"idle", "closed"}, CheckpointFail(p, l)
  PROVE  wal' = wal
<1> SUFFICES ASSUME \A i \in DOMAIN wal : wal'[i] = Hole PROVE wal' = wal
  BY CheckpointFailWal
<1>1. /\ wal \in Seq(Records \cup {Hole}) /\ wal' \in Seq(Records \cup {Hole})
      /\ DOMAIN wal' = DOMAIN wal /\ Len(wal') = Len(wal)
  BY CheckpointFailWal DEF TypeOK
<1>2. DOMAIN wal = {}
  BY <1>1 DEF NoHole
<1> QED
  BY <1>1, <1>2

LEMMA WalStep ==
  ASSUME TypeOK, Locks, NoHole, NoHole', [Next]_vars
  PROVE  \/ wal' = wal
         \/ wal' = <<>> /\ \A q \in Procs : pc'[q] \notin SharedPcs
         \/ \E p \in Procs : CommitAppend(p)
<1>1. ASSUME NEW p \in Procs, NEW l \in {"idle", "closed"}, pc[p] \in ExclPcs, Goto(p, l)
      PROVE  \A q \in Procs : pc'[q] \notin SharedPcs
  <2>1. \A q \in Procs : pc[q] \notin SharedPcs
    <3>1. excl # NoProc
      BY <1>1, ConstantsAssumption DEF Locks
    <3> QED
      BY <3>1 DEF Locks
  <2>2. l \notin SharedPcs
    BY DEF SharedPcs, Active
  <2> QED
    BY <1>1, <2>1, <2>2 DEF Goto, TypeOK
<1>2. ASSUME NEW p \in Procs, NEW l \in {"idle", "closed"}, CheckpointReset(p, l)
      PROVE  wal' = <<>> /\ \A q \in Procs : pc'[q] \notin SharedPcs
  BY <1>1, <1>2 DEF CheckpointReset, ExclPcs
<1>3. ASSUME NEW p \in Procs, ReplayError(p) \/ OpenDone(p)
      PROVE  wal' = <<>> /\ \A q \in Procs : pc'[q] \notin SharedPcs
  BY <1>1, <1>3 DEF ReplayError, OpenDone, ExclPcs
<1>4. ASSUME NEW p \in Procs, ReplayScan(p) PROVE wal' = wal
  BY <1>4, ScanCutsNothing
<1>5. \/ wal' = wal
      \/ \E p \in Procs :
            \/ CommitAppend(p) \/ ReplayError(p) \/ OpenDone(p) \/ ReplayScan(p)
            \/ \E l \in {"idle", "closed"} : CheckpointReset(p, l)
  BY ZenonT(40), FailKeepsWal DEF vars, Next, Commit, Snapshot, Checkpoint, Open, BeginShared, BeginWriter, Refresh, Put,
         WritePages, Publish, Abort, SnapshotBegin, SnapshotSlot, SnapshotClose, CheckpointLock,
         OpenLock, ReplayRecord, Crash, log
<1> QED
  BY <1>2, <1>3, <1>4, <1>5

(* What holds of the transaction of one process. *)
LEMMA OrderedAtKept ==
  ASSUME PageInv, Ordered, NoHole, NoHole', [Next]_vars, NEW q \in Procs,
         pc[q] \in Active, pc'[q] = pc[q], txn'[q] = txn[q]
  PROVE  OrderedAt(q)'
<1>0. /\ TypeOK /\ Locks /\ Numbered /\ OrderedAt(q)
      /\ txn[q].coll \in Colls /\ \A p \in Procs : txn[p].coll \in Colls
      /\ pc \in [Procs -> Pcs] /\ published \in [Colls -> Trees]
      /\ Len(wal) \in Nat
  <2>1. TypeOK /\ Locks /\ Numbered /\ OrderedAt(q)
    BY DEF PageInv, TypeInv, Ordered
  <2>2. \A p \in Procs : txn[p].coll \in Colls
    BY <2>1 DEF TypeOK, Transactions
  <2>3. /\ pc \in [Procs -> Pcs] /\ published \in [Colls -> Trees]
        /\ wal \in Seq(Records \cup {Hole})
    BY <2>1 DEF TypeOK
  <2>4. Len(wal) \in Nat
    BY <2>3
  <2> QED
    BY <2>1, <2>2, <2>3, <2>4
<1>1. \A p \in Procs : pc[p] \in Active /\ p # q => txn[p].coll # txn[q].coll
  BY <1>0 DEF Locks
<1>2. published'[txn[q].coll] = published[txn[q].coll]
  <2> SUFFICES ASSUME published' # published PROVE published'[txn[q].coll] = published[txn[q].coll]
    OBVIOUS
  <2>1. PICK p \in Procs : Publish(p)
    BY <1>0, PublishedMoves
  <2>2. pc[p] = "written" /\ pc'[p] = "idle" /\ p # q
    BY <1>0, <2>1 DEF Publish, Finish, Goto, Active
  <2>3. txn[p].coll # txn[q].coll
    BY <1>1, <2>2 DEF Active
  <2>4. \E t : published' = [published EXCEPT ![txn[p].coll] = t]
    BY <2>1 DEF Publish
  <2> QED
    BY <1>0, <2>3, <2>4
<1>3. CASE wal' = wal
  BY <1>0, <1>2, <1>3 DEF OrderedAt, Logged
<1>4. ASSUME NEW p \in Procs, CommitAppend(p) PROVE OrderedAt(q)'
  <2>1. pc[p] = "dirty" /\ pc'[p] = "appended" /\ p # q
    BY <1>0, <1>4 DEF CommitAppend, Goto, Active
  <2>2. /\ Len(wal') = Len(wal) + 1
        /\ \A i \in 1..Len(wal) : wal'[i] = wal[i]
        /\ wal'[Len(wal) + 1].coll = txn[p].coll
    <3>1. wal'[Len(wal) + 1] =
             [coll |-> txn[p].coll, key |-> Head(txn[p].put), id |-> txn[p].id]
      BY <1>0, <1>4, AppendsRecord
    <3> QED
      BY <1>0, <1>4, <3>1, AppendsRecord
  <2>3. txn[p].coll # txn[q].coll
    BY <1>1, <2>1 DEF Active
  <2>4. wal' \in Seq(Records \cup {Hole})
    BY <1>0, <1>4, CommitAppendWal
  <2>5. DOMAIN wal' = 1..(Len(wal) + 1) /\ DOMAIN wal = 1..Len(wal)
    BY <1>0, <2>2, <2>4 DEF TypeOK
  <2>6. \A i \in DOMAIN wal' : wal'[i].coll = txn[q].coll => i \in DOMAIN wal /\ wal'[i] = wal[i]
    BY <1>0, <2>2, <2>3, <2>5
  <2>7. \A i \in DOMAIN wal : i \in DOMAIN wal' /\ wal'[i] = wal[i]
    BY <1>0, <2>2, <2>5
  <2>8. pc[q] \in {"appended", "written"} =>
           \E i \in Logged(txn[q].coll, Head(txn[q].put))' : wal'[i].id = txn[q].id
    BY <1>0, <2>7 DEF OrderedAt, Logged
  <2> QED
    BY <1>0, <1>2, <2>6, <2>8 DEF OrderedAt, Logged
<1>5. CASE \A r \in Procs : pc'[r] \notin SharedPcs
  BY <1>5 DEF SharedPcs
<1> QED
  BY <1>0, <1>3, <1>4, <1>5, WalStep

LEMMA OrderedAtStep ==
  ASSUME PageInv, Ordered, NoHole, NoHole', [Next]_vars, NEW q \in Procs, pc'[q] \in Active
  PROVE  OrderedAt(q)'
<1>0. /\ TypeOK /\ Locks /\ Numbered /\ txn[q].coll \in Colls /\ txn[q].id \in Nat
      /\ pc \in [Procs -> Pcs] /\ published \in [Colls -> Trees]
      /\ wal \in Seq(Records \cup {Hole}) /\ Len(wal) \in Nat
      /\ pc[q] \in Active => OrderedAt(q)
  <2>1. TypeOK /\ Locks /\ Numbered /\ (pc[q] \in Active => OrderedAt(q))
    BY DEF PageInv, TypeInv, Ordered
  <2>2. txn[q].coll \in Colls /\ txn[q].id \in Nat
    BY <2>1, ConstantsAssumption DEF TypeOK, Transactions
  <2>3. /\ pc \in [Procs -> Pcs] /\ published \in [Colls -> Trees]
        /\ wal \in Seq(Records \cup {Hole})
    BY <2>1 DEF TypeOK
  <2>4. Len(wal) \in Nat
    BY <2>3
  <2> QED
    BY <2>1, <2>2, <2>3, <2>4
<1>1. CASE pc'[q] = pc[q] /\ txn'[q] = txn[q]
  BY <1>1, OrderedAtKept
<1>2. CASE Refresh(q)
  <2>1. /\ txn'[q].coll = txn[q].coll /\ txn'[q].id = nextTxn
        /\ pc'[q] = "txn" /\ wal' = wal /\ published' = published
    BY <1>0, <1>2, RefreshTxn
  <2>2. \A k \in Keys : published[txn[q].coll][k] < nextTxn
    BY <1>0 DEF Ordered
  <2>3. \A i \in DOMAIN wal : wal[i].id <= nextTxn
    <3>1. \A i \in DOMAIN wal : wal[i] \in Records /\ wal[i].id < nextTxn
      BY <1>0 DEF NoHole, Numbered
    <3>2. \A i \in DOMAIN wal : wal[i].id \in Nat
      BY <3>1, ConstantsAssumption DEF Records, Txns
    <3> QED
      BY SMTT(30), <1>0, <3>1, <3>2 DEF TypeOK
  <2> QED
    BY <2>1, <2>2, <2>3 DEF OrderedAt
<1>3. ASSUME NEW k \in Keys, Put(q, k) PROVE OrderedAt(q)'
  <2>1. /\ txn'[q].coll = txn[q].coll /\ txn'[q].id = txn[q].id
        /\ pc[q] = "txn" /\ pc'[q] = "dirty" /\ wal' = wal /\ published' = published
    BY <1>0, <1>3, PutTxn
  <2> QED
    BY <1>0, <2>1 DEF OrderedAt, Active
<1>4. CASE CommitAppend(q)
  <2>1. /\ txn' = txn /\ published' = published /\ pc[q] = "dirty" /\ pc'[q] = "appended"
    BY <1>0, <1>4 DEF CommitAppend, Goto
  <2>2. OrderedAt(q)
    BY <1>0, <2>1 DEF Active
  <2>3. /\ Len(wal') = Len(wal) + 1
        /\ \A i \in 1..Len(wal) : wal'[i] = wal[i]
        /\ wal'[Len(wal) + 1] = [coll |-> txn[q].coll, key |-> Head(txn[q].put), id |-> txn[q].id]
    BY <1>0, <1>4, AppendsRecord
  <2>4. wal' \in Seq(Records \cup {Hole})
    BY <1>0, <1>4, CommitAppendWal
  <2>5. DOMAIN wal' = 1..(Len(wal) + 1) /\ DOMAIN wal = 1..Len(wal)
    BY <1>0, <2>3, <2>4
  <2>6. Len(wal) + 1 \in Logged(txn[q].coll, Head(txn[q].put))'
    <3>1. /\ wal'[Len(wal) + 1].coll = txn[q].coll
          /\ wal'[Len(wal) + 1].key = Head(txn[q].put)
      BY <2>3
    <3>2. Len(wal) + 1 \in DOMAIN wal'
      BY <1>0, <2>5
    <3> QED
      BY <2>1, <3>1, <3>2 DEF Logged
  <2>7. \A i \in DOMAIN wal' : wal'[i].coll = txn[q].coll => wal'[i].id <= txn[q].id
    <3>1. \A i \in 1..Len(wal) : wal'[i].coll = txn[q].coll => wal'[i].id <= txn[q].id
      BY <2>2, <2>3, <2>5 DEF OrderedAt
    <3>2. wal'[Len(wal) + 1].id <= txn[q].id
      BY <1>0, <2>3
    <3> QED
      BY <1>0, <2>5, <3>1, <3>2
  <2>8. wal'[Len(wal) + 1].id = txn[q].id
    BY <2>3
  <2> QED
    BY <2>1, <2>2, <2>6, <2>7, <2>8 DEF OrderedAt
<1>5. CASE WritePages(q)
  <2>1. /\ txn' = txn /\ published' = published /\ wal' = wal
        /\ pc[q] = "appended" /\ pc'[q] = "written"
    BY <1>0, <1>5 DEF WritePages, Goto, log
  <2> QED
    BY <1>0, <2>1 DEF OrderedAt, Logged, Active
<1> QED
  BY <1>0, <1>1, <1>2, <1>3, <1>4, <1>5, ActiveStep

(* What is published has a number that was taken. *)
LEMMA PublishedStep ==
  ASSUME PageInv, [Next]_vars, \A c \in Colls, k \in Keys : published[c][k] < nextTxn
  PROVE  \A c \in Colls, k \in Keys : published'[c][k] < nextTxn'
<1>0. /\ TypeOK /\ Numbered /\ nextTxn \in Nat /\ published \in [Colls -> Trees]
      /\ \A c \in Colls, k \in Keys : published[c][k] \in Nat
  <2>1. published \in [Colls -> Trees] /\ TypeOK
    BY DEF PageInv, TypeInv, TypeOK
  <2>2. \A c \in Colls, k \in Keys : published[c][k] \in Nat
    BY <2>1, ConstantsAssumption DEF Trees
  <2> QED
    BY SMTT(30), <2>1, <2>2 DEF PageInv, TypeInv, TypeOK
<1>1. nextTxn' \in {nextTxn, nextTxn + 1}
  BY <1>0, NumbersGrow
<1>2. CASE published' = published
  BY <1>0, <1>1, <1>2
<1>3. ASSUME NEW p \in Procs, Publish(p)
      PROVE  \A c \in Colls, k \in Keys : published'[c][k] < nextTxn'
  <2>1. /\ pc[p] = "written" /\ nextTxn' = nextTxn
        /\ published' = [published EXCEPT ![txn[p].coll][Head(txn[p].put)] = txn[p].id]
    BY <1>3 DEF Publish, counts
  <2>2. txn[p].id < nextTxn
    BY <1>0, <2>1 DEF Numbered, Active
  <2>3. \A c \in Colls, k \in Keys : published'[c][k] \in {published[c][k], txn[p].id}
    BY <1>0, <2>1 DEF Trees
  <2> QED
    BY <2>1, <2>2, <2>3
<1> QED
  BY <1>0, <1>2, <1>3, PublishedMoves

(* Every step keeps a collection's numbers growing. *)
LEMMA OrderedStep == PageInv /\ Ordered /\ NoHole /\ NoHole' /\ [Next]_vars => Ordered'
<1> SUFFICES ASSUME PageInv, Ordered, NoHole, NoHole', [Next]_vars PROVE Ordered'
  OBVIOUS
<1>0. /\ TypeOK /\ Locks /\ Numbered /\ nextTxn \in Nat
      /\ published \in [Colls -> Trees]
      /\ wal \in Seq(Records \cup {Hole}) /\ Len(wal) \in Nat
      /\ \A c \in Colls, k \in Keys : published[c][k] \in Nat
  <2>1. published \in [Colls -> Trees] /\ TypeOK
    BY DEF PageInv, TypeInv, TypeOK
  <2>2. \A c \in Colls, k \in Keys : published[c][k] \in Nat
    BY <2>1, ConstantsAssumption DEF Trees
  <2> QED
    BY SMTT(30), <2>1, <2>2 DEF PageInv, TypeInv, TypeOK
<1>1. \A i, j \in DOMAIN wal' :
         wal'[i].coll = wal'[j].coll /\ i < j => wal'[i].id < wal'[j].id
  <2>1. CASE wal' = wal
    BY <2>1 DEF Ordered
  <2>2. CASE wal' = <<>>
    BY <2>2
  <2>3. ASSUME NEW p \in Procs, CommitAppend(p)
        PROVE  \A i, j \in DOMAIN wal' :
                  wal'[i].coll = wal'[j].coll /\ i < j => wal'[i].id < wal'[j].id
    <3>1. /\ Len(wal') = Len(wal) + 1
          /\ \A i \in 1..Len(wal) : wal'[i] = wal[i]
          /\ wal'[Len(wal) + 1].coll = txn[p].coll /\ wal'[Len(wal) + 1].id = txn[p].id
      <4>1. wal'[Len(wal) + 1] =
               [coll |-> txn[p].coll, key |-> Head(txn[p].put), id |-> txn[p].id]
        BY <1>0, <2>3, AppendsRecord
      <4> QED
        BY <1>0, <2>3, <4>1, AppendsRecord
    <3>2. wal' \in Seq(Records \cup {Hole})
      BY <1>0, <2>3, CommitAppendWal
    <3>3. DOMAIN wal' = 1..(Len(wal) + 1) /\ DOMAIN wal = 1..Len(wal)
      BY <1>0, <3>1, <3>2
    <3>4. pc[p] = "dirty"
      BY <2>3 DEF CommitAppend
    <3>5. \A i \in DOMAIN wal : wal[i].coll = txn[p].coll => wal[i].id < txn[p].id
      <4>1. \A i \in DOMAIN wal : wal[i].coll = txn[p].coll => wal[i].id <= txn[p].id
        BY <3>4 DEF Ordered, OrderedAt, Active
      <4>2. \A i \in DOMAIN wal : wal[i].id # txn[p].id /\ wal[i] \in Records
        BY <1>0, <3>4 DEF NoHole, Numbered, Active
      <4>3. \A i \in DOMAIN wal : wal[i].id \in Nat
        BY <4>2, ConstantsAssumption DEF Records, Txns
      <4>4. txn[p].id \in Nat
        BY <1>0 DEF TypeOK, Transactions
      <4> QED
        BY <4>1, <4>2, <4>3, <4>4
    <3>6. ASSUME NEW i \in DOMAIN wal', NEW j \in DOMAIN wal',
                 wal'[i].coll = wal'[j].coll, i < j
          PROVE  wal'[i].id < wal'[j].id
      <4>1. i \in DOMAIN wal /\ wal'[i] = wal[i]
        BY <1>0, <3>1, <3>3, <3>6
      <4>2. CASE j \in DOMAIN wal
        BY <3>1, <3>3, <3>6, <4>1, <4>2 DEF Ordered
      <4>3. CASE j = Len(wal) + 1
        BY <3>1, <3>5, <3>6, <4>1, <4>3
      <4> QED
        BY <1>0, <3>3, <4>2, <4>3
    <3> QED
      BY <3>6
  <2> QED
    BY <1>0, <2>1, <2>2, <2>3, WalStep
<1>2. \A c \in Colls, k \in Keys : published'[c][k] < nextTxn'
  BY PublishedStep DEF Ordered
<1>3. \A q \in Procs : pc'[q] \in Active => OrderedAt(q)'
  BY OrderedAtStep
<1> QED
  BY <1>1, <1>2, <1>3 DEF Ordered

(* What the invariant says of the values compared. *)
LEMMA KeptTypes ==
  ASSUME TypeOK, NEW c \in Colls, NEW k \in Keys
  PROVE  /\ Tree(roots[c]) \in Trees /\ Tree(roots[c])[k] \in Nat
         /\ published \in [Colls -> Trees] /\ published[c][k] \in Nat
<1>1. roots[c] \in {0} \cup Pages /\ published \in [Colls -> Trees]
  BY DEF TypeOK
<1>2. Tree(roots[c]) \in Trees
  BY <1>1, TreeType
<1> QED
  BY <1>1, <1>2, ConstantsAssumption DEF Trees

(* A commit publishes no older write, and its own in its key. *)
LEMMA PublishKeeps ==
  ASSUME RollbackAlone, PageInv, [Next]_vars, NEW p \in Procs, Publish(p),
         NEW c \in Colls, NEW k \in Keys
  PROVE  \/ Kept(c, k)'
         \/ ~Kept(c, k) /\ ~(c = txn[p].coll /\ k = Head(txn[p].put))
<1>0. TypeOK
  BY DEF PageInv, TypeInv
<1>1. /\ IF c = txn[p].coll
         THEN Tree(roots[c])' = [Tree(roots[c]) EXCEPT ![Head(txn[p].put)] = txn[p].id]
         ELSE roots'[c] = roots[c]
      /\ published' = [published EXCEPT ![txn[p].coll][Head(txn[p].put)] = txn[p].id]
      /\ txn[p].id \in Nat
  <2>1. txn[p].id \in 1..(nextTxn - 1) => txn[p].id \in Nat
    BY <1>0 DEF TypeOK
  <2> QED
    BY <2>1, PublishTree
<1>2. /\ Tree(roots[c]) \in Trees /\ Tree(roots[c])[k] \in Nat
      /\ published \in [Colls -> Trees] /\ published[c][k] \in Nat
  BY <1>0, KeptTypes
<1>3. CASE c # txn[p].coll
  <2>1. Tree(roots[c])' = Tree(roots[c]) /\ published'[c] = published[c]
    BY <1>1, <1>2, <1>3, TreesKept
  <2> QED
    BY <1>3, <2>1 DEF Kept
<1>4. CASE c = txn[p].coll
  <2>1. /\ Tree(roots[c])'[k] = IF k = Head(txn[p].put) THEN txn[p].id ELSE Tree(roots[c])[k]
        /\ published'[c][k] = IF k = Head(txn[p].put) THEN txn[p].id ELSE published[c][k]
    BY <1>1, <1>2, <1>4 DEF Trees
  <2> QED
    BY <1>1, <1>2, <1>4, <2>1 DEF Kept
<1> QED
  BY <1>3, <1>4

(* What is kept stays so while nobody replays. *)
LEMMA KeptStays ==
  ASSUME RollbackAlone, PageInv, [Next]_vars, NEW c \in Colls, NEW k \in Keys, Kept(c, k),
         \A p \in Procs : ~ReplayRecord(p)
  PROVE  Kept(c, k)'
<1>0. TypeOK
  BY DEF PageInv, TypeInv
<1>1. CASE \E p \in Procs : Publish(p)
  BY <1>1, PublishKeeps
<1>2. CASE \A p \in Procs : ~Publish(p)
  <2>1. roots' = roots /\ published' = published
    BY <1>0, <1>2, RootsMove, PublishedMoves
  <2> QED
    BY <2>1, TreesKept DEF Kept
<1> QED
  BY <1>1, <1>2

(* The part of Restored about a collection and key, over a step that leaves *)
(* the WAL alone. *)
LEMMA RestoredAtKept ==
  ASSUME RollbackAlone, PageInv, Ordered, [Next]_vars, wal' = wal,
         NEW c \in Colls, NEW k \in Keys, RestoredAt(c, k)
  PROVE  RestoredAt(c, k)'
<1>0. TypeOK /\ Logged(c, k)' = Logged(c, k)
  BY DEF PageInv, TypeInv, Logged
<1>1. ASSUME NEW p \in Procs, Publish(p) PROVE RestoredAt(c, k)'
  <2>1. /\ published' = [published EXCEPT ![txn[p].coll][Head(txn[p].put)] = txn[p].id]
        /\ txn[p].id \in Nat /\ pc[p] = "written"
    <3>1. txn[p].id \in 1..(nextTxn - 1) => txn[p].id \in Nat
      BY <1>0 DEF TypeOK
    <3> QED
      BY <1>1, <3>1, PublishTree DEF Publish
  <2>2. /\ published \in [Colls -> Trees]
        /\ published'[c][k] = IF c = txn[p].coll /\ k = Head(txn[p].put) THEN txn[p].id
                              ELSE published[c][k]
    BY <1>0, <2>1, KeptTypes DEF Trees
  <2>3. \E i \in Logged(txn[p].coll, Head(txn[p].put)) : wal[i].id = txn[p].id
    BY <2>1 DEF Ordered, OrderedAt, Active
  <2>4. CASE c = txn[p].coll /\ k = Head(txn[p].put)
    BY <1>0, <2>1, <2>2, <2>3, <2>4 DEF RestoredAt
  <2>5. CASE ~(c = txn[p].coll /\ k = Head(txn[p].put)) /\ Logged(c, k) # {}
    BY <1>0, <2>2, <2>5 DEF RestoredAt
  <2>6. CASE ~(c = txn[p].coll /\ k = Head(txn[p].put)) /\ Logged(c, k) = {}
    BY <1>0, <1>1, <2>6, PublishKeeps DEF RestoredAt
  <2> QED
    BY <2>4, <2>5, <2>6
<1>2. ASSUME NEW p \in Procs, ReplayRecord(p) PROVE RestoredAt(c, k)'
  <2>1. published' = published
    BY <1>2 DEF ReplayRecord
  <2>2. CASE Logged(c, k) # {}
    BY <1>0, <2>1, <2>2 DEF RestoredAt
  <2>3. CASE Logged(c, k) = {}
    <3>1. /\ pos[p] \in DOMAIN wal
          /\ IF c = wal[pos[p]].coll
             THEN Tree(roots[c])' = [Tree(roots[c]) EXCEPT ![wal[pos[p]].key] = wal[pos[p]].id]
             ELSE roots'[c] = roots[c]
      <4>1. pos[p] \in 1..Len(wal) => pos[p] \in DOMAIN wal
        BY <1>0 DEF TypeOK
      <4> QED
        BY <1>2, <4>1, ReplayTree
    <3>2. wal[pos[p]].coll # c \/ wal[pos[p]].key # k
      BY <2>3, <3>1 DEF Logged
    <3>3. Tree(roots[c])'[k] = Tree(roots[c])[k]
      BY <1>0, <3>1, <3>2, TreesKept, KeptTypes DEF Trees
    <3> QED
      BY <1>0, <2>1, <2>3, <3>3 DEF RestoredAt, Kept
  <2> QED
    BY <2>2, <2>3
<1>3. CASE \A p \in Procs : ~Publish(p) /\ ~ReplayRecord(p)
  <2>1. published' = published
    BY <1>0, <1>3, PublishedMoves
  <2>2. Kept(c, k) => Kept(c, k)'
    BY <1>3, KeptStays
  <2> QED
    BY <1>0, <2>1, <2>2 DEF RestoredAt
<1> QED
  BY <1>1, <1>2, <1>3

(* When a replay, or an open without one, ends, every published write is in a *)
(* live tree. *)
LEMMA ReplayRestores ==
  ASSUME TypeOK, Scans, Restored, NEW p \in Procs, OpenDone(p), NEW c \in Colls, NEW k \in Keys
  PROVE  Kept(c, k)
<1>0. RestoredAt(c, k)
  BY DEF Restored
<1>1. CASE Logged(c, k) = {}
  BY <1>0, <1>1 DEF RestoredAt
<1>2. CASE Logged(c, k) # {}
  <2>1. PICK i \in Logged(c, k) : wal[i].id >= published[c][k]
    BY <1>0, <1>2 DEF RestoredAt
  <2>2. i \in 1..Len(wal) /\ wal[i].coll = c /\ wal[i].key = k /\ wal[i] \in Records \cup {Hole}
    BY SMTT(30) DEF Logged, TypeOK
  <2>3. pc[p] = "replay" /\ pos[p] > Len(wal)
    BY <2>2 DEF OpenDone
  <2>4. i \in 1..(pos[p] - 1)
    BY <2>2, <2>3 DEF TypeOK
  <2>5. Tree(roots[wal[i].coll])[wal[i].key] >= wal[i].id
    BY <2>3, <2>4 DEF Restored
  <2>6. Tree(roots[c])[k] \in Nat /\ published[c][k] \in Nat
    BY KeptTypes
  <2>7. wal[i].id \in Nat
    <3>1. wal \in Seq(Records)
      BY <2>3 DEF Scans
    <3>2. wal[i] \in Records
      BY <2>2, <3>1
    <3> QED
      BY <3>2, ConstantsAssumption DEF Records, Txns
  <2>8. Tree(roots[c])[k] >= wal[i].id
    BY <2>2, <2>5
  <2> QED
    BY <2>1, <2>6, <2>7, <2>8 DEF Kept
<1> QED
  BY <1>1, <1>2

(* A replay goes on by its records, and nothing else moves beside it. *)
LEMMA ReplaySteps ==
  ASSUME TypeOK, Locks, [Next]_vars, NEW q \in Procs, pc'[q] = "replay"
  PROVE  \/ ReplayScan(q)
         \/ pc[q] = "replay" /\ ReplayRecord(q)
         \/ pc[q] = "replay" /\ wal' = wal /\ roots' = roots /\ pos'[q] = pos[q]
<1>1. ASSUME NEW p \in Procs, NEW c \in Colls, BeginShared(p, c)
      PROVE  \/ ReplayScan(q)
             \/ pc[q] = "replay" /\ ReplayRecord(q)
             \/ pc[q] = "replay" /\ wal' = wal /\ roots' = roots /\ pos'[q] = pos[q]
  BY <1>1 DEF BeginShared, Goto, locks, shm, log, counts, TypeOK, Locks, ExclPcs, SharedPcs, Active
<1>2. ASSUME NEW p \in Procs, BeginWriter(p)
      PROVE  \/ ReplayScan(q)
             \/ pc[q] = "replay" /\ ReplayRecord(q)
             \/ pc[q] = "replay" /\ wal' = wal /\ roots' = roots /\ pos'[q] = pos[q]
  BY <1>2 DEF BeginWriter, Goto, locks, shm, log, counts, TypeOK, Locks, ExclPcs, SharedPcs, Active
<1>3. ASSUME NEW p \in Procs, Refresh(p)
      PROVE  \/ ReplayScan(q)
             \/ pc[q] = "replay" /\ ReplayRecord(q)
             \/ pc[q] = "replay" /\ wal' = wal /\ roots' = roots /\ pos'[q] = pos[q]
  BY <1>3 DEF Refresh, Goto, locks, shm, log, counts, TypeOK, Locks, ExclPcs, SharedPcs, Active
<1>4. ASSUME NEW p \in Procs, NEW k \in Keys, Put(p, k)
      PROVE  \/ ReplayScan(q)
             \/ pc[q] = "replay" /\ ReplayRecord(q)
             \/ pc[q] = "replay" /\ wal' = wal /\ roots' = roots /\ pos'[q] = pos[q]
  BY <1>4 DEF Put, Goto, locks, shm, log, counts, TypeOK, Locks, ExclPcs, SharedPcs, Active
<1>5. ASSUME NEW p \in Procs, CommitAppend(p)
      PROVE  \/ ReplayScan(q)
             \/ pc[q] = "replay" /\ ReplayRecord(q)
             \/ pc[q] = "replay" /\ wal' = wal /\ roots' = roots /\ pos'[q] = pos[q]
  <2>1. pc[q] = "replay"
    BY <1>5 DEF CommitAppend, Goto, TypeOK
  <2>2. pc[q] \notin ExclPcs
    BY <1>5, NoExclBesideShared DEF CommitAppend, SharedPcs, Active
  <2> QED
    BY <2>1, <2>2 DEF ExclPcs
<1>6. ASSUME NEW p \in Procs, WritePages(p)
      PROVE  \/ ReplayScan(q)
             \/ pc[q] = "replay" /\ ReplayRecord(q)
             \/ pc[q] = "replay" /\ wal' = wal /\ roots' = roots /\ pos'[q] = pos[q]
  BY <1>6 DEF WritePages, Goto, locks, shm, log, counts, TypeOK, Locks, ExclPcs, SharedPcs, Active
<1>7. ASSUME NEW p \in Procs, Publish(p)
      PROVE  \/ ReplayScan(q)
             \/ pc[q] = "replay" /\ ReplayRecord(q)
             \/ pc[q] = "replay" /\ wal' = wal /\ roots' = roots /\ pos'[q] = pos[q]
  <2>1. pc[q] = "replay"
    BY <1>7 DEF Publish, Goto, StoreRoot, Finish, TypeOK
  <2>2. pc[q] \notin ExclPcs
    BY <1>7, NoExclBesideShared DEF Publish, SharedPcs, Active
  <2> QED
    BY <2>1, <2>2 DEF ExclPcs
<1>8. ASSUME NEW p \in Procs, Abort(p)
      PROVE  \/ ReplayScan(q)
             \/ pc[q] = "replay" /\ ReplayRecord(q)
             \/ pc[q] = "replay" /\ wal' = wal /\ roots' = roots /\ pos'[q] = pos[q]
  BY <1>8 DEF Abort, Goto, Finish, locks, shm, log, counts, TypeOK, Locks, ExclPcs, SharedPcs, Active
<1>9. ASSUME NEW p \in Procs, SnapshotBegin(p)
      PROVE  \/ ReplayScan(q)
             \/ pc[q] = "replay" /\ ReplayRecord(q)
             \/ pc[q] = "replay" /\ wal' = wal /\ roots' = roots /\ pos'[q] = pos[q]
  BY <1>9 DEF SnapshotBegin, Goto, locks, shm, log, counts, TypeOK, Locks, ExclPcs, SharedPcs, Active
<1>10. ASSUME NEW p \in Procs, SnapshotSlot(p)
      PROVE  \/ ReplayScan(q)
             \/ pc[q] = "replay" /\ ReplayRecord(q)
             \/ pc[q] = "replay" /\ wal' = wal /\ roots' = roots /\ pos'[q] = pos[q]
  BY <1>10 DEF SnapshotSlot, Goto, locks, shm, log, counts, TypeOK, Locks, ExclPcs, SharedPcs, Active
<1>11. ASSUME NEW p \in Procs, SnapshotClose(p)
      PROVE  \/ ReplayScan(q)
             \/ pc[q] = "replay" /\ ReplayRecord(q)
             \/ pc[q] = "replay" /\ wal' = wal /\ roots' = roots /\ pos'[q] = pos[q]
  BY <1>11 DEF SnapshotClose, Goto, locks, shm, log, counts, TypeOK, Locks, ExclPcs, SharedPcs, Active
<1>12. ASSUME NEW p \in Procs, CheckpointLock(p)
      PROVE  \/ ReplayScan(q)
             \/ pc[q] = "replay" /\ ReplayRecord(q)
             \/ pc[q] = "replay" /\ wal' = wal /\ roots' = roots /\ pos'[q] = pos[q]
  BY <1>12 DEF CheckpointLock, Goto, locks, shm, log, counts, TypeOK, Locks, ExclPcs, SharedPcs, Active
<1>13. ASSUME NEW p \in Procs, NEW l \in {"idle", "closed"}, CheckpointReset(p, l)
      PROVE  \/ ReplayScan(q)
             \/ pc[q] = "replay" /\ ReplayRecord(q)
             \/ pc[q] = "replay" /\ wal' = wal /\ roots' = roots /\ pos'[q] = pos[q]
  BY <1>13 DEF CheckpointReset, Goto, MayLeave, locks, shm, log, counts, TypeOK, Locks, ExclPcs, SharedPcs, Active
<1>14. ASSUME NEW p \in Procs, NEW l \in {"idle", "closed"}, CheckpointFail(p, l)
      PROVE  \/ ReplayScan(q)
             \/ pc[q] = "replay" /\ ReplayRecord(q)
             \/ pc[q] = "replay" /\ wal' = wal /\ roots' = roots /\ pos'[q] = pos[q]
  BY <1>14 DEF CheckpointFail, Goto, MayLeave, locks, shm, log, counts, TypeOK, Locks, ExclPcs, SharedPcs, Active
<1>15. ASSUME NEW p \in Procs, OpenLock(p)
      PROVE  \/ ReplayScan(q)
             \/ pc[q] = "replay" /\ ReplayRecord(q)
             \/ pc[q] = "replay" /\ wal' = wal /\ roots' = roots /\ pos'[q] = pos[q]
  BY <1>15 DEF OpenLock, Goto, locks, shm, log, counts, TypeOK, Locks, ExclPcs, SharedPcs, Active
<1>16. ASSUME NEW p \in Procs, ReplayScan(p)
      PROVE  \/ ReplayScan(q)
             \/ pc[q] = "replay" /\ ReplayRecord(q)
             \/ pc[q] = "replay" /\ wal' = wal /\ roots' = roots /\ pos'[q] = pos[q]
  BY <1>16 DEF ReplayScan, Goto, locks, shm, log, counts, TypeOK, Locks, ExclPcs, SharedPcs, Active
<1>17. ASSUME NEW p \in Procs, ReplayRecord(p)
      PROVE  \/ ReplayScan(q)
             \/ pc[q] = "replay" /\ ReplayRecord(q)
             \/ pc[q] = "replay" /\ wal' = wal /\ roots' = roots /\ pos'[q] = pos[q]
  BY <1>17 DEF ReplayRecord, Goto, StoreRoot, locks, shm, log, counts, TypeOK, Locks, ExclPcs, SharedPcs, Active
<1>18. ASSUME NEW p \in Procs, ReplayError(p)
      PROVE  \/ ReplayScan(q)
             \/ pc[q] = "replay" /\ ReplayRecord(q)
             \/ pc[q] = "replay" /\ wal' = wal /\ roots' = roots /\ pos'[q] = pos[q]
  BY <1>18 DEF ReplayError, Goto, locks, shm, log, counts, TypeOK, Locks, ExclPcs, SharedPcs, Active
<1>19. ASSUME NEW p \in Procs, OpenDone(p)
      PROVE  \/ ReplayScan(q)
             \/ pc[q] = "replay" /\ ReplayRecord(q)
             \/ pc[q] = "replay" /\ wal' = wal /\ roots' = roots /\ pos'[q] = pos[q]
  BY <1>19 DEF OpenDone, Goto, locks, shm, log, counts, TypeOK, Locks, ExclPcs, SharedPcs, Active
<1>20. ASSUME NEW p \in Procs, Crash(p)
      PROVE  \/ ReplayScan(q)
             \/ pc[q] = "replay" /\ ReplayRecord(q)
             \/ pc[q] = "replay" /\ wal' = wal /\ roots' = roots /\ pos'[q] = pos[q]
  BY <1>20 DEF Crash, Goto, locks, shm, log, counts, TypeOK, Locks, ExclPcs, SharedPcs, Active
<1>21. CASE UNCHANGED vars
  BY <1>21 DEF vars
<1> QED
  BY <1>1, <1>2, <1>3, <1>4, <1>5, <1>6, <1>7, <1>8, <1>9, <1>10,
     <1>11, <1>12, <1>13, <1>14, <1>15, <1>16, <1>17, <1>18, <1>19, <1>20, <1>21
     DEF Next, Commit, Snapshot, Checkpoint, Open

(* A process gets to work on the file by the end of its open, and leaves a replay by
   its end, an error or its death. *)
LEMMA OpenSteps ==
  ASSUME TypeOK, [Next]_vars, NEW q \in Procs
  PROVE  /\ pc'[q] \notin {"closed", "opening", "replay"} =>
               pc[q] \notin {"closed", "opening", "replay"} \/ OpenDone(q)
         /\ pc[q] = "replay" /\ pc'[q] # "replay" =>
               OpenDone(q) \/ ReplayError(q) \/ Crash(q)
<1>1. ASSUME NEW p \in Procs, NEW c \in Colls, BeginShared(p, c)
      PROVE  /\ pc'[q] \notin {"closed", "opening", "replay"} =>
                   pc[q] \notin {"closed", "opening", "replay"} \/ OpenDone(q)
             /\ pc[q] = "replay" /\ pc'[q] # "replay" =>
                   OpenDone(q) \/ ReplayError(q) \/ Crash(q)
  BY <1>1 DEF BeginShared, Goto, locks, shm, log, counts, TypeOK
<1>2. ASSUME NEW p \in Procs, BeginWriter(p)
      PROVE  /\ pc'[q] \notin {"closed", "opening", "replay"} =>
                   pc[q] \notin {"closed", "opening", "replay"} \/ OpenDone(q)
             /\ pc[q] = "replay" /\ pc'[q] # "replay" =>
                   OpenDone(q) \/ ReplayError(q) \/ Crash(q)
  BY <1>2 DEF BeginWriter, Goto, locks, shm, log, counts, TypeOK
<1>3. ASSUME NEW p \in Procs, Refresh(p)
      PROVE  /\ pc'[q] \notin {"closed", "opening", "replay"} =>
                   pc[q] \notin {"closed", "opening", "replay"} \/ OpenDone(q)
             /\ pc[q] = "replay" /\ pc'[q] # "replay" =>
                   OpenDone(q) \/ ReplayError(q) \/ Crash(q)
  BY <1>3 DEF Refresh, Goto, locks, shm, log, counts, TypeOK
<1>4. ASSUME NEW p \in Procs, NEW k \in Keys, Put(p, k)
      PROVE  /\ pc'[q] \notin {"closed", "opening", "replay"} =>
                   pc[q] \notin {"closed", "opening", "replay"} \/ OpenDone(q)
             /\ pc[q] = "replay" /\ pc'[q] # "replay" =>
                   OpenDone(q) \/ ReplayError(q) \/ Crash(q)
  BY <1>4 DEF Put, Goto, locks, shm, log, counts, TypeOK
<1>5. ASSUME NEW p \in Procs, CommitAppend(p)
      PROVE  /\ pc'[q] \notin {"closed", "opening", "replay"} =>
                   pc[q] \notin {"closed", "opening", "replay"} \/ OpenDone(q)
             /\ pc[q] = "replay" /\ pc'[q] # "replay" =>
                   OpenDone(q) \/ ReplayError(q) \/ Crash(q)
  BY <1>5 DEF CommitAppend, Goto, locks, shm, log, counts, TypeOK
<1>6. ASSUME NEW p \in Procs, WritePages(p)
      PROVE  /\ pc'[q] \notin {"closed", "opening", "replay"} =>
                   pc[q] \notin {"closed", "opening", "replay"} \/ OpenDone(q)
             /\ pc[q] = "replay" /\ pc'[q] # "replay" =>
                   OpenDone(q) \/ ReplayError(q) \/ Crash(q)
  BY <1>6 DEF WritePages, Goto, locks, shm, log, counts, TypeOK
<1>7. ASSUME NEW p \in Procs, Publish(p)
      PROVE  /\ pc'[q] \notin {"closed", "opening", "replay"} =>
                   pc[q] \notin {"closed", "opening", "replay"} \/ OpenDone(q)
             /\ pc[q] = "replay" /\ pc'[q] # "replay" =>
                   OpenDone(q) \/ ReplayError(q) \/ Crash(q)
  BY <1>7 DEF Publish, Goto, StoreRoot, Finish, locks, shm, log, counts, TypeOK
<1>8. ASSUME NEW p \in Procs, Abort(p)
      PROVE  /\ pc'[q] \notin {"closed", "opening", "replay"} =>
                   pc[q] \notin {"closed", "opening", "replay"} \/ OpenDone(q)
             /\ pc[q] = "replay" /\ pc'[q] # "replay" =>
                   OpenDone(q) \/ ReplayError(q) \/ Crash(q)
  BY <1>8 DEF Abort, Goto, Finish, locks, shm, log, counts, TypeOK
<1>9. ASSUME NEW p \in Procs, SnapshotBegin(p)
      PROVE  /\ pc'[q] \notin {"closed", "opening", "replay"} =>
                   pc[q] \notin {"closed", "opening", "replay"} \/ OpenDone(q)
             /\ pc[q] = "replay" /\ pc'[q] # "replay" =>
                   OpenDone(q) \/ ReplayError(q) \/ Crash(q)
  BY <1>9 DEF SnapshotBegin, Goto, locks, shm, log, counts, TypeOK
<1>10. ASSUME NEW p \in Procs, SnapshotSlot(p)
      PROVE  /\ pc'[q] \notin {"closed", "opening", "replay"} =>
                   pc[q] \notin {"closed", "opening", "replay"} \/ OpenDone(q)
             /\ pc[q] = "replay" /\ pc'[q] # "replay" =>
                   OpenDone(q) \/ ReplayError(q) \/ Crash(q)
  BY <1>10 DEF SnapshotSlot, Goto, locks, shm, log, counts, TypeOK
<1>11. ASSUME NEW p \in Procs, SnapshotClose(p)
      PROVE  /\ pc'[q] \notin {"closed", "opening", "replay"} =>
                   pc[q] \notin {"closed", "opening", "replay"} \/ OpenDone(q)
             /\ pc[q] = "replay" /\ pc'[q] # "replay" =>
                   OpenDone(q) \/ ReplayError(q) \/ Crash(q)
  BY <1>11 DEF SnapshotClose, Goto, locks, shm, log, counts, TypeOK
<1>12. ASSUME NEW p \in Procs, CheckpointLock(p)
      PROVE  /\ pc'[q] \notin {"closed", "opening", "replay"} =>
                   pc[q] \notin {"closed", "opening", "replay"} \/ OpenDone(q)
             /\ pc[q] = "replay" /\ pc'[q] # "replay" =>
                   OpenDone(q) \/ ReplayError(q) \/ Crash(q)
  BY <1>12 DEF CheckpointLock, Goto, locks, shm, log, counts, TypeOK
<1>13. ASSUME NEW p \in Procs, NEW l \in {"idle", "closed"}, CheckpointReset(p, l)
      PROVE  /\ pc'[q] \notin {"closed", "opening", "replay"} =>
                   pc[q] \notin {"closed", "opening", "replay"} \/ OpenDone(q)
             /\ pc[q] = "replay" /\ pc'[q] # "replay" =>
                   OpenDone(q) \/ ReplayError(q) \/ Crash(q)
  BY <1>13 DEF CheckpointReset, Goto, MayLeave, locks, shm, log, counts, TypeOK
<1>14. ASSUME NEW p \in Procs, NEW l \in {"idle", "closed"}, CheckpointFail(p, l)
      PROVE  /\ pc'[q] \notin {"closed", "opening", "replay"} =>
                   pc[q] \notin {"closed", "opening", "replay"} \/ OpenDone(q)
             /\ pc[q] = "replay" /\ pc'[q] # "replay" =>
                   OpenDone(q) \/ ReplayError(q) \/ Crash(q)
  BY <1>14 DEF CheckpointFail, Goto, MayLeave, locks, shm, log, counts, TypeOK
<1>15. ASSUME NEW p \in Procs, OpenLock(p)
      PROVE  /\ pc'[q] \notin {"closed", "opening", "replay"} =>
                   pc[q] \notin {"closed", "opening", "replay"} \/ OpenDone(q)
             /\ pc[q] = "replay" /\ pc'[q] # "replay" =>
                   OpenDone(q) \/ ReplayError(q) \/ Crash(q)
  BY <1>15 DEF OpenLock, Goto, locks, shm, log, counts, TypeOK
<1>16. ASSUME NEW p \in Procs, ReplayScan(p)
      PROVE  /\ pc'[q] \notin {"closed", "opening", "replay"} =>
                   pc[q] \notin {"closed", "opening", "replay"} \/ OpenDone(q)
             /\ pc[q] = "replay" /\ pc'[q] # "replay" =>
                   OpenDone(q) \/ ReplayError(q) \/ Crash(q)
  BY <1>16 DEF ReplayScan, Goto, locks, shm, log, counts, TypeOK
<1>17. ASSUME NEW p \in Procs, ReplayRecord(p)
      PROVE  /\ pc'[q] \notin {"closed", "opening", "replay"} =>
                   pc[q] \notin {"closed", "opening", "replay"} \/ OpenDone(q)
             /\ pc[q] = "replay" /\ pc'[q] # "replay" =>
                   OpenDone(q) \/ ReplayError(q) \/ Crash(q)
  BY <1>17 DEF ReplayRecord, Goto, StoreRoot, locks, shm, log, counts, TypeOK
<1>18. ASSUME NEW p \in Procs, ReplayError(p)
      PROVE  /\ pc'[q] \notin {"closed", "opening", "replay"} =>
                   pc[q] \notin {"closed", "opening", "replay"} \/ OpenDone(q)
             /\ pc[q] = "replay" /\ pc'[q] # "replay" =>
                   OpenDone(q) \/ ReplayError(q) \/ Crash(q)
  BY <1>18 DEF ReplayError, Goto, locks, shm, log, counts, TypeOK
<1>19. ASSUME NEW p \in Procs, OpenDone(p)
      PROVE  /\ pc'[q] \notin {"closed", "opening", "replay"} =>
                   pc[q] \notin {"closed", "opening", "replay"} \/ OpenDone(q)
             /\ pc[q] = "replay" /\ pc'[q] # "replay" =>
                   OpenDone(q) \/ ReplayError(q) \/ Crash(q)
  BY <1>19 DEF OpenDone, Goto, locks, shm, log, counts, TypeOK
<1>20. ASSUME NEW p \in Procs, Crash(p)
      PROVE  /\ pc'[q] \notin {"closed", "opening", "replay"} =>
                   pc[q] \notin {"closed", "opening", "replay"} \/ OpenDone(q)
             /\ pc[q] = "replay" /\ pc'[q] # "replay" =>
                   OpenDone(q) \/ ReplayError(q) \/ Crash(q)
  BY <1>20 DEF Crash, Goto, locks, shm, log, counts, TypeOK
<1>21. CASE UNCHANGED vars
  BY <1>21 DEF vars
<1> QED
  BY <1>1, <1>2, <1>3, <1>4, <1>5, <1>6, <1>7, <1>8, <1>9, <1>10,
     <1>11, <1>12, <1>13, <1>14, <1>15, <1>16, <1>17, <1>18, <1>19, <1>20, <1>21
     DEF Next, Commit, Snapshot, Checkpoint, Open

(* Three steps reset the WAL. *)
LEMMA ResetSteps ==
  ASSUME TypeOK, Numbered, NoHole, NoHole', [Next]_vars, wal' = <<>>, wal # <<>>
  PROVE  \E p \in Procs : \/ OpenDone(p) \/ ReplayError(p)
                          \/ \E l \in {"idle", "closed"} : CheckpointReset(p, l)
<1>1. ASSUME NEW p \in Procs, CommitAppend(p) PROVE FALSE
  <2>1. Len(wal') = Len(wal) + 1
    BY <1>1, AppendsRecord
  <2>2. Len(wal) \in Nat
    BY DEF TypeOK
  <2> QED
    BY <2>1, <2>2
<1>2. ASSUME NEW p \in Procs, ReplayScan(p) PROVE FALSE
  BY <1>2, ScanCutsNothing
<1>3. ASSUME NEW p \in Procs, NEW l \in {"idle", "closed"}, CheckpointFail(p, l) PROVE FALSE
  BY <1>3, FailKeepsWal
<1> QED
  BY ZenonT(40), <1>1, <1>2, <1>3
  DEF vars, Next, Commit, Snapshot, Checkpoint, Open, BeginShared, BeginWriter, Refresh, Put,
      WritePages, Publish, Abort, SnapshotBegin, SnapshotSlot, SnapshotClose, CheckpointLock,
      OpenLock, ReplayRecord, Crash, log

(* What is restored of a collection and key stays so. *)
LEMMA RestoredAtStep ==
  ASSUME RollbackAlone, KeptInv, Calm, Calm', [Next]_vars, NEW c \in Colls, NEW k \in Keys
  PROVE  RestoredAt(c, k)'
<1>0. /\ PageInv /\ Ordered /\ Restored /\ TypeOK /\ Locks /\ Scans /\ Numbered
      /\ NoHole /\ NoHole' /\ RestoredAt(c, k)
  BY DEF KeptInv, PageInv, TypeInv, Calm, Restored
<1>1. CASE wal' = wal
  BY <1>0, <1>1, RestoredAtKept
<1>2. CASE wal' = <<>> /\ wal # <<>>
  <2>1. Kept(c, k) /\ \A q \in Procs : ~ReplayRecord(q)
    <3>1. PICK p \in Procs : \/ OpenDone(p) \/ ReplayError(p)
                             \/ \E l \in {"idle", "closed"} : CheckpointReset(p, l)
      BY <1>0, <1>2, ResetSteps
    <3>2. ASSUME OpenDone(p) PROVE Kept(c, k)
      BY <1>0, <3>2, ReplayRestores
    <3>3. ~ReplayError(p)
      <4>1. ReplayError(p) => replayErrors' = replayErrors + 1
        BY DEF ReplayError
      <4> QED
        BY <4>1 DEF Calm
    <3>4. ASSUME NEW l \in {"idle", "closed"}, CheckpointReset(p, l)
          PROVE  Kept(c, k)
      <4>1. pc[p] = "checkpoint" /\ excl = p
        BY <1>0, <3>4 DEF CheckpointReset, Locks, ExclPcs
      <4>2. \A q \in Procs : pc[q] # "replay"
        BY <1>0, <4>1 DEF Locks, ExclPcs
      <4> QED
        BY <1>0, <4>1, <4>2 DEF Restored
    <3>5. \A q \in Procs : ~ReplayRecord(q)
      BY <1>2 DEF ReplayRecord
    <3> QED
      BY <3>1, <3>2, <3>3, <3>4, <3>5
  <2>2. Kept(c, k)'
    BY <1>0, <2>1, KeptStays
  <2>3. Logged(c, k)' = {}
    BY <1>2 DEF Logged
  <2> QED
    BY <2>2, <2>3 DEF RestoredAt
<1>3. ASSUME NEW p \in Procs, CommitAppend(p) PROVE RestoredAt(c, k)'
  <2>1. /\ pc[p] = "dirty" /\ published' = published /\ \A q \in Procs : ~ReplayRecord(q)
    <3>1. \A q \in Procs : pc[q] # "replay"
      BY <1>0, <1>3, NoExclBesideShared DEF CommitAppend, SharedPcs, ExclPcs, Active
    <3> QED
      BY <1>3, <3>1 DEF CommitAppend, ReplayRecord
  <2>2. /\ Len(wal') = Len(wal) + 1
        /\ \A i \in 1..Len(wal) : wal'[i] = wal[i]
        /\ wal'[Len(wal) + 1] =
              [coll |-> txn[p].coll, key |-> Head(txn[p].put), id |-> txn[p].id]
    BY <1>0, <1>3, AppendsRecord
  <2>3. DOMAIN wal' = 1..(Len(wal) + 1) /\ DOMAIN wal = 1..Len(wal) /\ Len(wal) \in Nat
    <3>1. wal' \in Seq(Records \cup {Hole}) /\ wal \in Seq(Records \cup {Hole})
      BY <1>0, <1>3, CommitAppendWal DEF TypeOK
    <3> QED
      BY <2>2, <3>1
  <2>4. \A i \in DOMAIN wal : i \in DOMAIN wal' /\ wal'[i] = wal[i]
    BY <2>2, <2>3
  <2>5. CASE c = txn[p].coll /\ k = Head(txn[p].put)
    <3>1. published[c][k] < txn[p].id
      BY <1>0, <2>1, <2>5 DEF Ordered, OrderedAt, Active
    <3>2. published[c][k] \in Nat /\ txn[p].id \in Nat
      <4>1. txn[p].id \in Nat
        BY <1>0, ConstantsAssumption DEF TypeOK, Transactions
      <4> QED
        BY <1>0, <4>1, KeptTypes
    <3>3. /\ wal'[Len(wal) + 1].coll = c /\ wal'[Len(wal) + 1].key = k
          /\ wal'[Len(wal) + 1].id = txn[p].id
      BY <2>2, <2>5
    <3>4. Len(wal) + 1 \in Logged(c, k)'
      BY <2>3, <3>3 DEF Logged
    <3>5. wal'[Len(wal) + 1].id >= published'[c][k]
      BY <2>1, <3>1, <3>2, <3>3
    <3> QED
      BY <3>4, <3>5 DEF RestoredAt
  <2>6. CASE ~(c = txn[p].coll /\ k = Head(txn[p].put)) /\ Logged(c, k) = {}
    <3>1. wal'[Len(wal) + 1].coll = txn[p].coll /\ wal'[Len(wal) + 1].key = Head(txn[p].put)
      BY <2>2
    <3>2. Logged(c, k)' = {}
      <4> SUFFICES ASSUME NEW i \in DOMAIN wal', wal'[i].coll = c, wal'[i].key = k PROVE FALSE
        BY DEF Logged
      <4>1. i \in DOMAIN wal \/ i = Len(wal) + 1
        BY <2>3
      <4>2. i \in DOMAIN wal
        BY <2>6, <3>1, <4>1
      <4> QED
        BY <2>4, <2>6, <4>2 DEF Logged
    <3>3. Kept(c, k)'
      BY <1>0, <2>1, <2>6, KeptStays DEF RestoredAt
    <3> QED
      BY <3>2, <3>3 DEF RestoredAt
  <2>7. CASE Logged(c, k) # {}
    <3>1. PICK i \in Logged(c, k) : wal[i].id >= published[c][k]
      BY <1>0, <2>7 DEF RestoredAt
    <3>2. i \in Logged(c, k)' /\ wal'[i].id >= published'[c][k]
      BY <2>1, <2>4, <3>1 DEF Logged
    <3> QED
      BY <3>2 DEF RestoredAt
  <2> QED
    BY <2>5, <2>6, <2>7
<1> QED
  BY <1>0, <1>1, <1>2, <1>3, WalStep

(* What a replay has put back stays. *)
LEMMA ReplayedStep ==
  ASSUME RollbackAlone, KeptInv, [Next]_vars, NEW p \in Procs, pc'[p] = "replay",
         NoHole, NEW i \in 1..(pos'[p] - 1)
  PROVE  Tree(roots[wal[i].coll])'[wal'[i].key] >= wal'[i].id
<1>0. /\ PageInv /\ Ordered /\ Restored /\ TypeOK /\ Locks /\ Scans
      /\ pos \in [Procs -> Nat]
  <2>1. PageInv /\ Ordered /\ Restored /\ TypeOK /\ Locks /\ Scans
    BY DEF KeptInv, PageInv, TypeInv
  <2> QED
    BY <2>1 DEF TypeOK
<1>1. CASE ReplayScan(p)
  <2>1. pos'[p] = 1
    BY <1>0, <1>1 DEF ReplayScan
  <2> QED
    BY <2>1
<1>2. ASSUME pc[p] = "replay" PROVE wal \in Seq(Records) /\ pos[p] \in 1..(Len(wal) + 1)
  BY <1>0, <1>2 DEF Scans
<1>3. CASE pc[p] = "replay" /\ wal' = wal /\ roots' = roots /\ pos'[p] = pos[p]
  <2>1. wal[i] \in Records /\ i \in 1..(pos[p] - 1)
    BY <1>2, <1>3
  <2>2. Tree(roots[wal[i].coll])[wal[i].key] >= wal[i].id
    BY <1>0, <1>3, <2>1 DEF Restored
  <2>3. PICK c \in Colls : c = wal[i].coll
    BY <2>1 DEF Records
  <2>4. Tree(roots[c])' = Tree(roots[c])
    BY <1>0, <1>3, TreesKept
  <2>5. Tree(roots[wal[i].coll])' = Tree(roots[c])'
    BY <1>3, <2>3 DEF Tree
  <2> QED
    BY <1>3, <2>2, <2>3, <2>4, <2>5
<1>4. CASE pc[p] = "replay" /\ ReplayRecord(p)
  <2>1. wal' = wal /\ pos'[p] = pos[p] + 1
    BY <1>0, <1>4 DEF ReplayRecord
  <2>2. /\ pos[p] \in 1..Len(wal) /\ wal[pos[p]] \in Records
        /\ \A c \in Colls :
              IF c = wal[pos[p]].coll
              THEN Tree(roots[c])' = [Tree(roots[c]) EXCEPT ![wal[pos[p]].key] = wal[pos[p]].id]
              ELSE roots'[c] = roots[c]
    BY <1>0, <1>4, ReplayTree
  <2>3. i \in 1..pos[p] /\ wal[i] \in Records
    BY <1>2, <1>4, <2>1, <2>2
  <2>4. /\ wal[i].coll \in Colls /\ wal[i].key \in Keys /\ wal[i].id \in Nat
        /\ wal[pos[p]].id \in Nat
    BY <2>2, <2>3, ConstantsAssumption DEF Records, Txns
  <2>5. PICK c \in Colls, k \in Keys : c = wal[i].coll /\ k = wal[i].key
    BY <2>4
  <2>6. Tree(roots[wal[i].coll])' = Tree(roots[c])'
    BY <2>1, <2>5 DEF Tree
  <2>7. Tree(roots[c]) \in Trees
    BY <1>0, KeptTypes
  <2>8. CASE c = wal[pos[p]].coll /\ k = wal[pos[p]].key
    <3>1. Tree(roots[c])'[k] = wal[pos[p]].id
      BY <2>2, <2>7, <2>8 DEF Trees
    <3>2. wal[pos[p]].id >= wal[i].id
      <4>1. i = pos[p] \/ i < pos[p]
        BY <2>2, <2>3
      <4>2. i \in DOMAIN wal /\ pos[p] \in DOMAIN wal
        BY <1>2, <1>4, <2>2, <2>3
      <4>3. i < pos[p] => wal[i].id < wal[pos[p]].id
        BY <1>0, <2>5, <2>8, <4>2 DEF Ordered
      <4> QED
        BY <2>4, <4>1, <4>3
    <3> QED
      BY <2>1, <2>5, <2>6, <3>1, <3>2
  <2>9. CASE ~(c = wal[pos[p]].coll /\ k = wal[pos[p]].key)
    <3>1. Tree(roots[c])'[k] = Tree(roots[c])[k]
      <4>1. CASE c = wal[pos[p]].coll
        BY <2>2, <2>7, <2>9, <4>1 DEF Trees
      <4>2. CASE c # wal[pos[p]].coll
        BY <1>0, <2>2, <4>2, TreesKept
      <4> QED
        BY <4>1, <4>2
    <3>2. i \in 1..(pos[p] - 1)
      BY <2>2, <2>3, <2>5, <2>9
    <3>3. Tree(roots[wal[i].coll])[wal[i].key] >= wal[i].id
      BY <1>0, <1>4, <3>2 DEF Restored
    <3> QED
      BY <2>1, <2>5, <2>6, <3>1, <3>3
  <2> QED
    BY <2>8, <2>9
<1> QED
  BY <1>0, <1>1, <1>3, <1>4, ReplaySteps

(* Once a file is open and not in replay, its live trees have it all. *)
LEMMA AllKeptStep ==
  ASSUME RollbackAlone, KeptInv, Calm, Calm', [Next]_vars, [PeersGone]_vars,
         NEW r \in Procs, pc'[r] \notin {"closed", "opening", "replay"},
         \A p \in Procs : pc'[p] # "replay",
         NEW c \in Colls, NEW k \in Keys
  PROVE  Kept(c, k)'
<1>0. /\ PageInv /\ Restored /\ TypeOK /\ Scans
      /\ \A q \in Procs : ~ReplayRecord(q)
  BY DEF KeptInv, PageInv, TypeInv, ReplayRecord
<1>1. ASSUME NEW p \in Procs, OpenDone(p) PROVE Kept(c, k)
  BY <1>0, <1>1, ReplayRestores
<1>2. ASSUME \A p \in Procs : ~OpenDone(p) PROVE Kept(c, k)
  <2>1. pc[r] \notin {"closed", "opening", "replay"}
    BY <1>0, <1>2, OpenSteps
  <2>2. ASSUME NEW p \in Procs, pc[p] = "replay" PROVE FALSE
    <3>1. ReplayError(p) \/ Crash(p)
      BY <1>0, <1>2, <2>2, OpenSteps
    <3>2. ~ReplayError(p)
      <4>1. ReplayError(p) => replayErrors' = replayErrors + 1
        BY DEF ReplayError
      <4> QED
        BY <4>1 DEF Calm
    <3>3. pc'[p] = "closed"
      BY <1>0, <3>1, <3>2 DEF Crash, Goto, TypeOK
    <3>4. PeersGone
      BY <2>2, <3>3 DEF vars
    <3> QED
      BY <2>2, <3>3, <3>4 DEF PeersGone
  <2> QED
    BY <1>0, <2>1, <2>2 DEF Restored
<1> QED
  BY <1>0, <1>1, <1>2, KeptStays

LEMMA RestoredStep ==
  RollbackAlone /\ KeptInv /\ Calm /\ Calm' /\ [Next]_vars /\ [PeersGone]_vars => Restored'
<1> SUFFICES ASSUME RollbackAlone, KeptInv, Calm, Calm', [Next]_vars, [PeersGone]_vars
             PROVE  Restored'
  OBVIOUS
<1>1. NoHole
  BY DEF Calm
<1>2. \A c \in Colls, k \in Keys : RestoredAt(c, k)'
  BY RestoredAtStep
<1>3. \A p \in Procs : pc'[p] = "replay" =>
         \A i \in 1..(pos'[p] - 1) : Tree(roots[wal[i].coll])'[wal'[i].key] >= wal'[i].id
  BY <1>1, ReplayedStep
<1>4. (\E p \in Procs : pc'[p] \notin {"closed", "opening", "replay"})
          /\ (\A p \in Procs : pc'[p] # "replay") => \A c \in Colls, k \in Keys : Kept(c, k)'
  BY AllKeptStep
<1> QED
  BY <1>2, <1>3, <1>4 DEF Restored

(* While no record goes behind a hole, no replay fails and none dies beside *)
(* others, published writes are in the live trees or in the WAL. *)
THEOREM KeptInvariant ==
  ASSUME RollbackAlone
  PROVE  Spec /\ []Calm /\ [][PeersGone]_vars => []KeptInv
<1>1. Init => Ordered /\ Restored
  <2> SUFFICES ASSUME Init PROVE Ordered /\ Restored
    OBVIOUS
  <2>1. /\ \A p \in Procs : pc[p] = "closed"
        /\ wal = <<>> /\ nextTxn = 1
        /\ \A c \in Colls, k \in Keys : published[c][k] = 0 /\ Tree(roots[c])[k] = 0
    BY DEF Init, Tree, EmptyTree
  <2>2. Ordered
    BY <2>1 DEF Ordered, Active
  <2>3. \A c \in Colls, k \in Keys : Kept(c, k) /\ Logged(c, k) = {}
    BY <2>1 DEF Kept, Logged
  <2> QED
    BY <2>1, <2>2, <2>3 DEF Restored, RestoredAt
<1>2. Spec => []PageInv
  BY RollbackAlone, PageInvariant
<1>3. PageInv /\ Ordered /\ Restored /\ Calm /\ Calm' /\ [Next]_vars /\ [PeersGone]_vars =>
         Ordered' /\ Restored'
  <2>1. PageInv /\ Ordered /\ Calm /\ Calm' /\ [Next]_vars => Ordered'
    BY OrderedStep DEF Calm
  <2> QED
    BY RollbackAlone, <2>1, RestoredStep DEF KeptInv
<1>4. PageInv /\ Ordered /\ Restored => KeptInv
  BY DEF KeptInv
<1> QED
  BY <1>1, <1>2, <1>3, <1>4, PTL DEF Spec

(* Then opening the file undoes no commit. *)
THEOREM CommittedStaysKept ==
  ASSUME RollbackAlone
  PROVE  Spec /\ []Calm /\ [][PeersGone]_vars => []CommittedKept
<1>1. KeptInv => CommittedKept
  <2> SUFFICES ASSUME KeptInv, NEW p \in Procs, pc[p] = "idle", ~Replaying
               PROVE  \A c \in Colls, k \in Keys : Tree(roots[c])[k] >= published[c][k]
    BY DEF CommittedKept
  <2>1. \A q \in Procs : pc[q] # "replay"
    BY DEF Replaying
  <2> QED
    BY <2>1 DEF KeptInv, Restored, Kept
<1>2. Spec /\ []Calm /\ [][PeersGone]_vars => []KeptInv
  BY RollbackAlone, KeptInvariant
<1> QED
  BY <1>1, <1>2, PTL

(* A process by itself writes at the end of the WAL, which it knows.  Only  *)
(* a reset that failed half way leaves zeros, and then from the start on.   *)
HoleFirst == wal # <<>> /\ wal[1] = Hole

Short ==
    /\ TypeInv
    /\ NoHole \/ HoleFirst
    /\ \A p \in Procs : walEnd[p] <= Len(wal)

LEMMA ShortStep == SingleProcess /\ Short /\ [Next]_vars => Short'
<1> DEFINE Shape == (NoHole \/ HoleFirst)' /\ \A q \in Procs : walEnd'[q] <= Len(wal')
<1> SUFFICES ASSUME SingleProcess, Short, [Next]_vars PROVE Shape
  BY TypeInvStep DEF Short
<1>0. /\ TypeOK /\ Numbered /\ (NoHole \/ HoleFirst) /\ \A p \in Procs : walEnd[p] <= Len(wal)
      /\ wal \in Seq(Records \cup {Hole}) /\ Len(wal) \in Nat /\ walEnd \in [Procs -> Nat]
      /\ \A p, q \in Procs : p = q
  <2>1. TypeOK /\ Numbered /\ (NoHole \/ HoleFirst) /\ \A p \in Procs : walEnd[p] <= Len(wal)
    BY DEF Short, TypeInv
  <2>2. wal \in Seq(Records \cup {Hole}) /\ walEnd \in [Procs -> Nat]
    BY <2>1 DEF TypeOK
  <2> QED
    BY <2>1, <2>2 DEF SingleProcess
<1>1. ASSUME NEW p \in Procs, CommitAppend(p) PROVE Shape
  <2>1. PICK end \in Nat, rec \in Records :
            /\ Len(wal) <= end /\ walEnd[p] <= end /\ end \in {Len(wal), walEnd[p]}
            /\ wal' \in Seq(Records \cup {Hole}) /\ Len(wal') = end + 1
            /\ \A i \in 1..Len(wal) : wal'[i] = wal[i]
            /\ \A i \in (Len(wal) + 1)..end : wal'[i] = Hole
            /\ wal'[end + 1] = rec
            /\ rec = [coll |-> txn[p].coll, key |-> Head(txn[p].put), id |-> txn[p].id]
            /\ walEnd' = [walEnd EXCEPT ![p] = end + 1]
    BY <1>0, <1>1, CommitAppendWal
  <2>2. end = Len(wal)
    BY <1>0, <2>1
  <2>3. \A i \in DOMAIN wal' : i \in 1..Len(wal) \/ i = Len(wal) + 1
    BY <1>0, <2>1, <2>2
  <2>4. ASSUME NoHole PROVE NoHole'
    <3>1. rec # Hole
      BY HoleAssumption
    <3>2. \A i \in 1..Len(wal) : wal[i] # Hole
      BY <1>0, <2>4 DEF NoHole
    <3>3. \A i \in DOMAIN wal' : wal'[i] # Hole
      BY <2>1, <2>2, <2>3, <3>1, <3>2
    <3> QED
      BY <3>3 DEF NoHole
  <2>5. ASSUME HoleFirst PROVE HoleFirst'
    <3>1. 1 \in 1..Len(wal) /\ wal[1] = Hole
      BY <1>0, <2>5 DEF HoleFirst
    <3>2. wal'[1] = Hole /\ Len(wal') # 0
      BY <1>0, <2>1, <3>1
    <3> QED
      BY <2>1, <3>2 DEF HoleFirst
  <2>6. \A q \in Procs : walEnd'[q] <= Len(wal')
    <3>1. \A q \in Procs : q = p
      BY <1>0
    <3>2. walEnd'[p] = end + 1
      BY <1>0, <2>1
    <3> QED
      BY <2>1, <3>1, <3>2
  <2>7. (NoHole \/ HoleFirst)'
    BY <1>0, <2>4, <2>5
  <2> QED
    BY <2>6, <2>7
<1>2. ASSUME NEW p \in Procs, wal' = <<>>, walEnd' = [walEnd EXCEPT ![p] = 0] PROVE Shape
  <2>1. \A q \in Procs : walEnd'[q] = 0
    BY <1>0, <1>2
  <2> QED
    BY <1>2, <2>1 DEF NoHole
<1>3. ASSUME NEW p \in Procs, ReplayScan(p) PROVE Shape
  <2>1. /\ GoodPrefix \in 0..Len(wal) /\ walEnd' = [walEnd EXCEPT ![p] = GoodPrefix]
        /\ wal' = SubSeq(wal, 1, GoodPrefix) /\ \A i \in 1..GoodPrefix : wal[i] # Hole
    <3>1. walEnd' = [walEnd EXCEPT ![p] = GoodPrefix] /\ wal' = SubSeq(wal, 1, GoodPrefix)
      BY <1>3 DEF ReplayScan
    <3> QED
      BY <1>0, <3>1, GoodPrefixIsGood, HoleAssumption
  <2>2. /\ DOMAIN wal' = 1..GoodPrefix /\ Len(wal') = GoodPrefix
        /\ \A i \in 1..GoodPrefix : wal'[i] = wal[i]
    BY <1>0, <2>1
  <2>3. \A q \in Procs : walEnd'[q] <= Len(wal')
    BY <1>0, <2>1, <2>2
  <2> QED
    BY <2>1, <2>2, <2>3 DEF NoHole
<1>4. ASSUME NEW p \in Procs, NEW l \in {"idle", "closed"}, CheckpointFail(p, l) PROVE Shape
  <2>1. /\ wal' \in Seq(Records \cup {Hole}) /\ Len(wal') = Len(wal) /\ DOMAIN wal' = DOMAIN wal
        /\ wal' = wal \/ \A i \in DOMAIN wal : wal'[i] = Hole
    BY <1>0, <1>4, CheckpointFailWal
  <2>2. \A q \in Procs : walEnd'[q] <= Len(wal')
    BY <1>0, <1>4, <2>1 DEF CheckpointFail
  <2>3. CASE wal' = wal
    BY <1>0, <2>2, <2>3 DEF NoHole, HoleFirst
  <2>4. CASE \A i \in DOMAIN wal : wal'[i] = Hole
    <3>1. CASE wal = <<>>
      BY <2>1, <2>2, <3>1 DEF NoHole
    <3>2. CASE wal # <<>>
      <4>1. 1 \in DOMAIN wal /\ wal' # <<>>
        BY <1>0, <2>1, <3>2
      <4> QED
        BY <2>2, <2>4, <4>1 DEF HoleFirst
    <3> QED
      BY <3>1, <3>2
  <2> QED
    BY <2>1, <2>3, <2>4
<1>5. ASSUME wal' = wal, NEW p \in Procs, NEW n \in {0, Len(wal)},
             walEnd' = walEnd \/ walEnd' = [walEnd EXCEPT ![p] = n]
      PROVE  Shape
  BY <1>0, <1>5 DEF NoHole, HoleFirst
<1>6. CASE wal' = wal /\ walEnd' = walEnd
  BY <1>0, <1>6 DEF NoHole, HoleFirst
<1>7. \/ wal' = wal /\ walEnd' = walEnd
      \/ \E p \in Procs :
            \/ CommitAppend(p) \/ ReplayScan(p)
            \/ \E l \in {"idle", "closed"} : CheckpointFail(p, l)
            \/ wal' = <<>> /\ walEnd' = [walEnd EXCEPT ![p] = 0]
            \/ wal' = wal /\ \E n \in {0, Len(wal)} :
                  walEnd' = walEnd \/ walEnd' = [walEnd EXCEPT ![p] = n]
  <2>2. ASSUME NEW p \in Procs, OpenLock(p) \/ Crash(p)
        PROVE  wal' = wal /\ \E n \in {0, Len(wal)} :
                  walEnd' = walEnd \/ walEnd' = [walEnd EXCEPT ![p] = n]
    BY <2>2 DEF OpenLock, Crash
  <2>3. ASSUME NEW p \in Procs,
               OpenDone(p) \/ ReplayError(p) \/ \E l \in {"idle", "closed"} : CheckpointReset(p, l)
        PROVE  wal' = <<>> /\ walEnd' = [walEnd EXCEPT ![p] = 0]
    BY <2>3 DEF OpenDone, ReplayError, CheckpointReset
  <2> QED
    BY ZenonT(40), <2>2, <2>3
    DEF vars, Next, Commit, Snapshot, Checkpoint, Open, BeginShared, BeginWriter, Refresh, Put,
        WritePages, Publish, Abort, SnapshotBegin, SnapshotSlot, SnapshotClose, CheckpointLock,
        ReplayRecord, log
<1> HIDE DEF Shape
<1> QED
  BY <1>1, <1>2, <1>3, <1>4, <1>5, <1>6, <1>7

\* Every published write is in a live tree; behind such a hole nothing is
\* replayed, and nothing needs to be.
AllKept == \A c \in Colls, k \in Keys : Kept(c, k) /\ published[c][k] < nextTxn

Undone == IF NoHole THEN Ordered /\ Restored ELSE AllKept

(* What is in the trees beside a WAL that starts with zeros stays there.    *)
LEMMA AllKeptStays ==
  ASSUME RollbackAlone, PageInv, HoleFirst, AllKept, [Next]_vars
  PROVE  AllKept'
<1>1. ASSUME NEW p \in Procs, ReplayRecord(p) PROVE FALSE
  <2>1. wal \in Seq(Records) /\ wal # <<>> /\ wal[1] = Hole
    BY <1>1 DEF ReplayRecord, PageInv, TypeInv, Scans, HoleFirst
  <2> QED
    BY <2>1, HoleAssumption
<1>2. \A c \in Colls, k \in Keys : Kept(c, k)'
  BY <1>1, KeptStays DEF AllKept
<1>3. \A c \in Colls, k \in Keys : published'[c][k] < nextTxn'
  BY PublishedStep DEF AllKept
<1> QED
  BY <1>2, <1>3 DEF AllKept

(* The zeros go only with the WAL itself, beside no commit.                 *)
LEMMA HoleGoes ==
  ASSUME SingleProcess, PageInv, HoleFirst, NoHole', replayErrors' = replayErrors, [Next]_vars
  PROVE  /\ wal' = <<>>
         /\ \A q \in Procs : pc'[q] \notin Active
         /\ \A q \in Procs : pc'[q] = "replay" => pos'[q] = 1
<1>0. /\ TypeOK /\ Numbered /\ Locks /\ wal \in Seq(Records \cup {Hole}) /\ Len(wal) \in Nat
      /\ 1 \in 1..Len(wal) /\ 1 \in DOMAIN wal /\ wal[1] = Hole
      /\ pc \in [Procs -> Pcs] /\ pos \in [Procs -> Nat]
  <2>1. TypeOK /\ Numbered /\ Locks
    BY DEF PageInv, TypeInv
  <2>2. wal \in Seq(Records \cup {Hole}) /\ pc \in [Procs -> Pcs] /\ pos \in [Procs -> Nat]
    BY <2>1 DEF TypeOK
  <2> QED
    BY <2>1, <2>2 DEF HoleFirst
<1>1. ASSUME NEW p \in Procs, CommitAppend(p) PROVE FALSE
  <2>1. wal' \in Seq(Records \cup {Hole}) /\ \A i \in 1..Len(wal) : wal'[i] = wal[i]
    BY <1>0, <1>1, CommitAppendWal
  <2>2. Len(wal') > Len(wal)
    BY <1>0, <1>1, CommitAppendWal
  <2>3. 1 \in DOMAIN wal' /\ wal'[1] = Hole
    BY <1>0, <2>1, <2>2
  <2> QED
    BY <2>3 DEF NoHole
<1>2. ASSUME NEW p \in Procs, NEW l \in {"idle", "closed"}, CheckpointFail(p, l) PROVE FALSE
  <2>1. wal' = wal
    BY <1>0, <1>2, FailKeepsWal
  <2> QED
    BY <1>0, <2>1 DEF NoHole
<1>3. wal' # wal
  BY <1>0 DEF NoHole
<1>4. PICK p \in Procs : \/ ReplayScan(p) \/ OpenDone(p)
                         \/ \E l \in {"idle", "closed"} : CheckpointReset(p, l)
  <2>1. ASSUME NEW q \in Procs, ReplayError(q) PROVE FALSE
    <3>1. replayErrors' = replayErrors + 1 /\ replayErrors \in Nat
      BY <1>0, <2>1, ConstantsAssumption DEF ReplayError, TypeOK
    <3> QED
      BY <3>1
  <2> QED
    BY ZenonT(40), <1>1, <1>2, <1>3, <2>1
    DEF vars, Next, Commit, Snapshot, Checkpoint, Open, BeginShared, BeginWriter, Refresh, Put,
        WritePages, Publish, Abort, SnapshotBegin, SnapshotSlot, SnapshotClose, CheckpointLock,
        OpenLock, ReplayRecord, Crash, log
<1>5. \A q \in Procs : q = p
  BY DEF SingleProcess
<1>6. CASE ReplayScan(p)
  <2>1. /\ GoodPrefix \in 0..Len(wal) /\ \A i \in 1..GoodPrefix : wal[i] # Hole
        /\ wal' = SubSeq(wal, 1, GoodPrefix)
    <3>1. wal' = SubSeq(wal, 1, GoodPrefix)
      BY <1>6 DEF ReplayScan
    <3> QED
      BY <1>0, <3>1, GoodPrefixIsGood, HoleAssumption
  <2>2. GoodPrefix = 0
    BY <1>0, <2>1
  <2>3. wal' = <<>>
    BY <1>0, <2>1, <2>2
  <2>4. pc'[p] = "replay" /\ pos'[p] = 1
    BY <1>0, <1>6 DEF ReplayScan, Goto
  <2> QED
    BY <1>5, <2>3, <2>4 DEF Active
<1>7. CASE OpenDone(p) \/ \E l \in {"idle", "closed"} : CheckpointReset(p, l)
  <2>1. wal' = <<>> /\ pc'[p] \in {"idle", "closed"}
    BY <1>0, <1>7 DEF OpenDone, CheckpointReset, Goto
  <2> QED
    BY <1>5, <2>1 DEF Active
<1> QED
  BY <1>4, <1>6, <1>7

(* The zeros come only with a checkpoint, in an open file.                  *)
LEMMA HoleComes ==
  ASSUME SingleProcess, KeptInv, Short, NoHole, ~NoHole', [Next]_vars
  PROVE  AllKept
<1>0. TypeOK /\ Numbered /\ Restored /\ Ordered /\ wal \in Seq(Records \cup {Hole})
  BY DEF KeptInv, PageInv, TypeInv, TypeOK
<1>1. ASSUME NEW p \in Procs, CommitAppend(p) PROVE FALSE
  <2>1. PICK end \in Nat, rec \in Records :
            /\ Len(wal) <= end /\ walEnd[p] <= end /\ end \in {Len(wal), walEnd[p]}
            /\ wal' \in Seq(Records \cup {Hole}) /\ Len(wal') = end + 1
            /\ \A i \in 1..Len(wal) : wal'[i] = wal[i]
            /\ \A i \in (Len(wal) + 1)..end : wal'[i] = Hole
            /\ wal'[end + 1] = rec
            /\ rec = [coll |-> txn[p].coll, key |-> Head(txn[p].put), id |-> txn[p].id]
            /\ walEnd' = [walEnd EXCEPT ![p] = end + 1]
    BY <1>0, <1>1, CommitAppendWal
  <2>2. end = Len(wal) /\ Len(wal) \in Nat
    BY <1>0, <2>1 DEF Short
  <2>3. rec # Hole /\ \A i \in 1..Len(wal) : wal[i] # Hole
    BY <1>0, HoleAssumption DEF NoHole
  <2>4. \A i \in DOMAIN wal' : wal'[i] # Hole
    BY <2>1, <2>2, <2>3
  <2> QED
    BY <2>4 DEF NoHole
<1>2. ASSUME NEW p \in Procs, ReplayScan(p) PROVE FALSE
  BY <1>0, <1>2, ScanCutsNothing DEF NoHole
<1>3. wal' # wal /\ wal' # <<>>
  BY DEF NoHole
<1>4. PICK p \in Procs, l \in {"idle", "closed"} : CheckpointFail(p, l)
  BY ZenonT(40), <1>1, <1>2, <1>3
  DEF vars, Next, Commit, Snapshot, Checkpoint, Open, BeginShared, BeginWriter, Refresh, Put,
      WritePages, Publish, Abort, SnapshotBegin, SnapshotSlot, SnapshotClose, CheckpointLock,
      CheckpointReset, OpenLock, OpenDone, ReplayError, ReplayRecord, Crash, log
<1>5. \A q \in Procs : pc[q] = "checkpoint"
  BY <1>4 DEF CheckpointFail, SingleProcess
<1>6. \A c \in Colls, k \in Keys : Kept(c, k)
  BY <1>0, <1>4, <1>5 DEF Restored
<1> QED
  BY <1>0, <1>6 DEF AllKept, Ordered

(* A lone process: until a replay fails, every published write survives its *)
(* crashes and opens, resets of the WAL that fail half way included.        *)
THEOREM AloneKeepsCommitted ==
  ASSUME SingleProcess
  PROVE  Spec => []KeptUntilReplayFails
<1>0. RollbackAlone
  BY SingleProcess DEF RollbackAlone, Alone
<1>1. Init => Short /\ (replayErrors = 0 => Undone)
  <2> SUFFICES ASSUME Init PROVE Short /\ Undone
    OBVIOUS
  <2>1. /\ \A p \in Procs : pc[p] = "closed" /\ walEnd[p] <= Len(wal)
        /\ wal = <<>> /\ nextTxn = 1
        /\ \A c \in Colls, k \in Keys : published[c][k] = 0 /\ Tree(roots[c])[k] = 0
    BY DEF Init, Tree, EmptyTree
  <2>2. NoHole
    BY <2>1 DEF NoHole
  <2>3. Ordered
    BY <2>1 DEF Ordered, Active
  <2>4. \A c \in Colls, k \in Keys : Kept(c, k) /\ Logged(c, k) = {}
    BY <2>1 DEF Kept, Logged
  <2>5. Restored
    BY <2>1, <2>4 DEF Restored, RestoredAt
  <2> QED
    BY <2>1, <2>2, <2>3, <2>5, InitTypeInv DEF Short, Undone
<1>2. Spec => []PageInv
  BY <1>0, PageInvariant
<1>3. SingleProcess /\ PageInv /\ PageInv' /\ Short /\ (replayErrors = 0 => Undone) /\ [Next]_vars =>
         (Short /\ (replayErrors = 0 => Undone))'
  <2> SUFFICES ASSUME PageInv, PageInv', Short, replayErrors = 0 => Undone, [Next]_vars,
                      replayErrors' = 0
               PROVE  Undone'
    BY SingleProcess, ShortStep
  <2>1. replayErrors = 0
    <3>1. replayErrors \in Nat /\ replayErrors' \in {replayErrors, replayErrors + 1}
      <4>1. TypeOK
        BY DEF PageInv, TypeInv
      <4>2. replayErrors' \in {replayErrors, replayErrors + 1}
        BY ZenonT(40) DEF vars, Next, Commit, Snapshot, Checkpoint, Open, BeginShared, BeginWriter,
             Refresh, Put, CommitAppend, WritePages, Publish, Abort, SnapshotBegin, SnapshotSlot,
             SnapshotClose, CheckpointLock, CheckpointReset, CheckpointFail, OpenLock, ReplayScan,
             ReplayRecord, ReplayError, OpenDone, Crash, counts
      <4> QED
        BY <4>1, <4>2, ConstantsAssumption DEF TypeOK
    <3> QED
      BY <3>1
  <2>2. CASE NoHole /\ NoHole'
    <3>1. Ordered /\ Restored /\ KeptInv /\ Calm /\ Calm'
      BY <2>1, <2>2 DEF Undone, KeptInv, Calm
    <3>2. [PeersGone]_vars
      BY SingleProcess DEF SingleProcess, PeersGone
    <3>3. Ordered' /\ Restored'
      BY <1>0, <2>2, <3>1, <3>2, OrderedStep, RestoredStep
    <3> QED
      BY <2>2, <3>3 DEF Undone
  <2>3. CASE NoHole /\ ~NoHole'
    <3>1. Ordered /\ Restored /\ KeptInv
      BY <2>1, <2>3 DEF Undone, KeptInv
    <3>2. AllKept
      BY SingleProcess, <2>3, <3>1, HoleComes
    <3>3. \A p \in Procs : ~ReplayRecord(p)
      <4>1. \A p \in Procs : ReplayRecord(p) => wal' = wal
        BY DEF ReplayRecord
      <4>2. wal' # wal
        BY <2>3 DEF NoHole
      <4> QED
        BY <4>1, <4>2
    <3>4. \A c \in Colls, k \in Keys : Kept(c, k)'
      BY <1>0, <3>2, <3>3, KeptStays DEF AllKept
    <3>5. \A c \in Colls, k \in Keys : published'[c][k] < nextTxn'
      BY <3>2, PublishedStep DEF AllKept
    <3> QED
      BY <2>3, <3>4, <3>5 DEF Undone, AllKept
  <2>4. CASE ~NoHole
    <3>1. AllKept /\ HoleFirst
      BY <2>1, <2>4 DEF Undone, Short
    <3>2. AllKept'
      BY <1>0, <3>1, AllKeptStays
    <3>3. CASE ~NoHole'
      BY <3>2, <3>3 DEF Undone
    <3>4. CASE NoHole'
      <4>1. /\ wal' = <<>>
            /\ \A q \in Procs : pc'[q] \notin Active
            /\ \A q \in Procs : pc'[q] = "replay" => pos'[q] = 1
        BY SingleProcess, <2>1, <3>1, <3>4, HoleGoes
      <4>2. Ordered'
        BY <3>2, <4>1 DEF Ordered, AllKept
      <4>3. \A c \in Colls, k \in Keys : Logged(c, k)' = {} /\ Kept(c, k)'
        BY <3>2, <4>1 DEF Logged, AllKept
      <4>4. Restored'
        BY <4>1, <4>3 DEF Restored, RestoredAt
      <4> QED
        BY <3>4, <4>2, <4>4 DEF Undone
    <3> QED
      BY <3>3, <3>4
  <2> QED
    BY <2>2, <2>3, <2>4
<1>4. PageInv /\ (replayErrors = 0 => Undone) => KeptUntilReplayFails
  <2> SUFFICES ASSUME Undone, NEW p \in Procs, pc[p] = "idle", ~Replaying,
                      NEW c \in Colls, NEW k \in Keys
               PROVE  Tree(roots[c])[k] >= published[c][k]
    BY DEF KeptUntilReplayFails, CommittedKept
  <2>1. \A q \in Procs : pc[q] # "replay"
    BY DEF Replaying
  <2>2. Kept(c, k)
    BY <2>1 DEF Undone, AllKept, Restored
  <2> QED
    BY <2>2 DEF Kept
<1> QED
  BY SingleProcess, <1>1, <1>2, <1>3, <1>4, PTL DEF Spec
=============================================================================
