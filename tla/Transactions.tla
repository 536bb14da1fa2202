---------------------------- MODULE Transactions ----------------------------
(***************************************************************************)
(* The three kinds of transaction of one pyx process (db.zig, pager.zig):  *)
(* auto-commit operations, explicit transactions (Db.begin ... Db.commit)  *)
(* and optimistic ones (Db.beginOptimistic ... OptimisticTxn.commit).      *)
(*                                                                         *)
(* db.mu makes an auto-commit operation, the capture of a snapshot and an  *)
(* optimistic commit atomic in their process; an explicit transaction      *)
(* holds it from begin to commit.  Optimistic reads and staged writes take *)
(* no lock: they touch the snapshot and the transaction's own buffers.     *)
(* Other processes are the business of SharedPager, pages of BTree.put.    *)
(*                                                                         *)
(* A collection's tree maps document ids to documents; a document is the   *)
(* value of its one indexed field.  A collection other than 0 has been     *)
(* created before; every other name lives in the default tree 0.           *)
(***************************************************************************)
EXTENDS Integers, SequencesExt

CONSTANTS
    Threads,
    NoThread,       \* "db.mu is free"
    Optimistic,     \* bound: threads that run optimistic transactions
    NumColls,       \* collections 0..NumColls-1
    Docs,           \* documents: positive numbers, in index order
    MaxId,          \* bound: document ids handed out
    Universe,       \* bound: the <<collection, id, document>> that may come to be
    MaxOps,         \* bound: reads and writes of an optimistic transaction
    MaxFailures,    \* bound: commits that fail in the WAL
    OneCollection   \* bound: TRUE if a transaction writes one collection only

ASSUME ConstantsAssumption ==
    /\ NoThread \notin Threads
    /\ Optimistic \subseteq Threads
    /\ NumColls \in Nat \ {0}
    /\ Docs \subseteq Nat \ {0}
    /\ Universe \subseteq (0..(NumColls - 1)) \X (1..MaxId) \X Docs
    /\ MaxId \in Nat /\ MaxOps \in Nat /\ MaxFailures \in Nat
    /\ OneCollection \in BOOLEAN

VARIABLES
    owner,      \* txn_owner: the thread in an explicit transaction, holding db.mu
    in_txn,     \* Pager.in_txn
    live,       \* the trees under the roots in shm
    work,       \* the trees under the header's roots while in_txn
    next_doc_id,
    running,    \* threads inside an optimistic transaction
    snapshot,   \* the trees it captured
    read_set,   \* point reads to validate
    range_set,  \* scans and index reads to validate
    write_set,  \* staged writes, oldest first
    gets,       \* history: what each get returned, and after how many writes
    outcome,    \* history: what the last step returned, if it ended a transaction
    failures

vars == <<owner, in_txn, live, work, next_doc_id, running, snapshot, read_set,
          range_set, write_set, gets, outcome, failures>>

db == <<owner, in_txn, live, work>>
buffers == <<running, snapshot, read_set, range_set, write_set, gets>>

Missing == 0    \* no such document; also the hash recorded for it

Colls == 0..(NumColls - 1)
Ids == 1..MaxId
Trees == [Ids -> Docs \cup {Missing}]
Databases == [Colls -> Trees]
EmptyTree == [i \in Ids |-> Missing]
Reads == [coll : Colls, id : Ids, doc : Docs \cup {Missing}]
Gets == [coll : Colls, id : Ids, doc : Docs \cup {Missing}, after : Nat]
Writes == [kind : {"insert", "put"}, coll : Colls, id : Ids, doc : Docs \cup {Missing}]

Keys == {<<u[1], u[2]>> : u \in Universe}

\* What may be stored under a key; Missing is a deletion.
Puts == Universe \cup {<<k[1], k[2], Missing>> : k \in Keys}

\* A snapshot that is in no use.
Nothing == [c \in Colls |-> EmptyTree]

Init ==
    /\ owner = NoThread
    /\ in_txn = FALSE
    /\ next_doc_id \in 1..(MaxId + 1)
    /\ live \in {d \in Databases :
                    \A c \in Colls, i \in Ids :
                       d[c][i] # Missing => i < next_doc_id /\ <<c, i, d[c][i]>> \in Universe}
    /\ work = Nothing
    /\ running = {}
    /\ snapshot = [t \in Threads |-> Nothing]
    /\ read_set = [t \in Threads |-> {}]
    /\ range_set = [t \in Threads |-> {}]
    /\ write_set = [t \in Threads |-> <<>>]
    /\ gets = [t \in Threads |-> {}]
    /\ outcome = "none"
    /\ failures = 0

-----------------------------------------------------------------------------
(* What a sequence of staged writes makes of the trees.                     *)

WritesTo(ws, c, i) == {n \in DOMAIN ws : ws[n].coll = c /\ ws[n].id = i}

After(ws, trees) ==
    [c \in Colls |-> [i \in Ids |->
        IF WritesTo(ws, c, i) = {} THEN trees[c][i] ELSE ws[Max(WritesTo(ws, c, i))].doc]]

-----------------------------------------------------------------------------
(* Scans and index reads.  The code has four kinds; each is a query with    *)
(* the ids it was seen to yield, and whether it was seen to end: findOne    *)
(* sees the first match, or the end if there is none; findAll and findRange *)
(* see all; an iterator sees as far as it was advanced.                     *)

Reports ==
    [kind : {"scan", "index"}, coll : Colls, docs : SUBSET Docs, complete : BOOLEAN, ids : Seq(Ids)]

\* The order of a scan is by ids, that of an index by values, then ids.
Before(kind, tree, i, j) ==
    IF kind = "index" /\ tree[i] # tree[j] THEN tree[i] < tree[j] ELSE i < j

\* The ids a query yields.
Answer(kind, docs, tree) ==
    LET matching == {i \in Ids : tree[i] \in docs}
    IN CHOOSE ids \in [1..Cardinality(matching) -> matching] :
          \A m, n \in DOMAIN ids : m < n => Before(kind, tree, ids[m], ids[n])

\* The live tree still answers as it was recorded.
Confirmed(r, tree) ==
    LET now == Answer(r.kind, r.docs, tree)
    IN IsPrefix(r.ids, now) /\ (r.complete => r.ids = now)

-----------------------------------------------------------------------------
(* Optimistic transactions: TxnCollection.                                  *)

\* Db.beginOptimistic: capture a snapshot under db.mu.  It needs the pager
\* out of a transaction.
BeginOptimistic(t) ==
    /\ t \in Optimistic \ running
    /\ owner = NoThread /\ ~in_txn
    /\ running' = running \cup {t}
    /\ snapshot' = [snapshot EXCEPT ![t] = live]
    /\ outcome' = "none"
    /\ UNCHANGED <<db, next_doc_id, read_set, range_set, write_set, gets, failures>>

\* OptimisticTxn.deinitAll.
Discard(t) ==
    /\ running' = running \ {t}
    /\ snapshot' = [snapshot EXCEPT ![t] = Nothing]
    /\ read_set' = [read_set EXCEPT ![t] = {}]
    /\ range_set' = [range_set EXCEPT ![t] = {}]
    /\ write_set' = [write_set EXCEPT ![t] = <<>>]
    /\ gets' = [gets EXCEPT ![t] = {}]

MayOperate(t) ==
    /\ t \in running
    /\ Cardinality(gets[t]) + Cardinality(range_set[t]) + Len(write_set[t]) < MaxOps

Record(t, c, i, doc) ==
    read_set' = [read_set EXCEPT ![t] = @ \cup {[coll |-> c, id |-> i, doc |-> doc]}]

\* The value of the latest staged write to the key, or the snapshot's.
Value(t, c, i) == After(write_set[t], snapshot[t])[c][i]

\* Fault seeded for TLC: a read of an own write is recorded for validation.
GetRecordsOwn(t, c, i) ==
    /\ MayOperate(t)
    /\ gets' = [gets EXCEPT ![t] = @ \cup
                   {[coll |-> c, id |-> i, doc |-> Value(t, c, i), after |-> Len(write_set[t])]}]
    /\ Record(t, c, i, Value(t, c, i))
    /\ outcome' = "none"
    /\ UNCHANGED <<db, next_doc_id, running, snapshot, range_set, write_set, failures>>

\* TxnCollection.get: an own write is returned unrecorded, a read of the
\* snapshot is recorded.
Get(t, c, i) ==
    /\ MayOperate(t)
    /\ gets' = [gets EXCEPT ![t] = @ \cup
                   {[coll |-> c, id |-> i, doc |-> Value(t, c, i), after |-> Len(write_set[t])]}]
    /\ IF WritesTo(write_set[t], c, i) # {} THEN UNCHANGED read_set
                                            ELSE Record(t, c, i, snapshot[t][c][i])
    /\ outcome' = "none"
    /\ UNCHANGED <<db, next_doc_id, running, snapshot, range_set, write_set, failures>>

\* recordWrite.
Stage(t, kind, c, i, doc) ==
    /\ OneCollection => \A n \in DOMAIN write_set[t] : write_set[t][n].coll = c
    /\ write_set' = [write_set EXCEPT ![t] =
                         Append(@, [kind |-> kind, coll |-> c, id |-> i, doc |-> doc])]

\* Fault seeded for TLC: a blind write leaves no trace in the read set.
ImplicitReadSkipped(t, c, i) == UNCHANGED read_set

\* recordImplicitReadIfNew; a key that was read before is in the set already.
ImplicitRead(t, c, i) ==
    IF WritesTo(write_set[t], c, i) # {} THEN UNCHANGED read_set
                                         ELSE Record(t, c, i, snapshot[t][c][i])

\* TxnCollection.put, and delete with the document Missing.
Put(t, c, i, doc) ==
    /\ MayOperate(t)
    /\ i < next_doc_id
    /\ ImplicitRead(t, c, i)
    /\ Stage(t, "put", c, i, doc)
    /\ outcome' = "none"
    /\ UNCHANGED <<db, next_doc_id, running, snapshot, range_set, gets, failures>>

\* Fault seeded for TLC: the counter is read after the increment.
InsertOffByOne(t, c, doc) ==
    /\ MayOperate(t)
    /\ next_doc_id <= MaxId
    /\ next_doc_id' = next_doc_id + 1
    /\ Stage(t, "insert", c, next_doc_id + 1, doc)
    /\ outcome' = "none"
    /\ UNCHANGED <<db, running, snapshot, read_set, range_set, gets, failures>>

\* TxnCollection.insert: reserveDocId takes an id without a lock, no read.
Insert(t, c, doc) ==
    /\ MayOperate(t)
    /\ next_doc_id <= MaxId
    /\ next_doc_id' = next_doc_id + 1
    /\ Stage(t, "insert", c, next_doc_id, doc)
    /\ outcome' = "none"
    /\ UNCHANGED <<db, running, snapshot, read_set, range_set, gets, failures>>

\* findOne, findAll, findRange over documents in docs: the snapshot's tree of
\* the collection.
Find(t, c, docs, complete) ==
    /\ MayOperate(t)
    /\ LET answer == Answer("index", docs, snapshot[t][c])
       IN /\ ~complete => Cardinality(docs) = 1 /\ answer # <<>>
          /\ range_set' = [range_set EXCEPT ![t] = @ \cup
                {[kind |-> "index", coll |-> c, docs |-> docs, complete |-> complete,
                  ids |-> IF complete THEN answer ELSE <<Head(answer)>>]}]
    /\ outcome' = "none"
    /\ UNCHANGED <<db, next_doc_id, running, snapshot, read_set, write_set, gets, failures>>

\* TxnCollection.iterator, advanced over n documents or past the last.  On a
\* lock-free snapshot it walks the default tree, whatever the collection,
\* and finds nothing there under a created collection's name.
Iterate(t, c, n, complete) ==
    /\ MayOperate(t)
    /\ LET answer == Answer("scan", Docs, IF c = 0 THEN snapshot[t][0] ELSE EmptyTree)
       IN /\ IF complete THEN n = Len(answer) ELSE n <= Len(answer)
          /\ range_set' = [range_set EXCEPT ![t] = @ \cup
                {[kind |-> "scan", coll |-> c, docs |-> Docs, complete |-> complete,
                  ids |-> SubSeq(answer, 1, n)]}]
    /\ outcome' = "none"
    /\ UNCHANGED <<db, next_doc_id, running, snapshot, read_set, write_set, gets, failures>>

-----------------------------------------------------------------------------
(* OptimisticTxn.commit, under db.mu from begin to the publication.         *)

\* The collection whose writer lock is held and whose root is published.
CommitCollection(ws) ==
    IF ws # <<>> /\ \A n \in DOMAIN ws : ws[n].coll = ws[1].coll THEN ws[1].coll ELSE 0

\* Fault seeded for TLC: scans and index reads are not validated.
ValidPointReads(t) == \A r \in read_set[t] : live[r.coll][r.id] = r.doc

\* validateAndApply: each recorded read gives the same on the live trees.
Valid(t) ==
    /\ \A r \in read_set[t] : live[r.coll][r.id] = r.doc
    /\ \A r \in range_set[t] : Confirmed(r, live[r.coll])

MayCommit(t) == t \in running /\ owner = NoThread

CommitOptimistic(t) ==
    /\ MayCommit(t) /\ ~in_txn
    /\ Valid(t)
    /\ LET cid == CommitCollection(write_set[t])
       IN live' = [live EXCEPT ![cid] = After(write_set[t], live)[cid]]
    /\ Discard(t)
    /\ outcome' = "committed"
    /\ UNCHANGED <<owner, in_txn, work, next_doc_id, failures>>

\* Db.commit fails in the WAL: as CommitFail below.
CommitOptimisticFail(t) ==
    /\ MayCommit(t) /\ ~in_txn
    /\ Valid(t)
    /\ failures < MaxFailures
    /\ failures' = failures + 1
    /\ in_txn' = TRUE
    /\ work' = After(write_set[t], live)
    /\ Discard(t)
    /\ outcome' = "failed"
    /\ UNCHANGED <<owner, live, next_doc_id>>

\* error.WriteConflict: the pager's transaction is aborted.
Conflict(t) ==
    /\ MayCommit(t) /\ ~in_txn
    /\ ~Valid(t)
    /\ Discard(t)
    /\ outcome' = "conflict"
    /\ UNCHANGED <<db, next_doc_id, failures>>

\* Pager.begin refuses: an earlier commit has failed and left in_txn set.
CommitRefused(t) ==
    /\ MayCommit(t) /\ in_txn
    /\ Discard(t)
    /\ outcome' = "refused"
    /\ UNCHANGED <<db, next_doc_id, failures>>

\* OptimisticTxn.abort.
AbortOptimistic(t) ==
    /\ t \in running
    /\ Discard(t)
    /\ outcome' = "aborted"
    /\ UNCHANGED <<db, next_doc_id, failures>>

-----------------------------------------------------------------------------
(* Auto-commit operations and explicit transactions.                        *)

\* Collection.put, or delete with the document Missing, by a thread without
\* a transaction.
AutoPut(t, c, i, doc) ==
    /\ t \notin running
    /\ owner = NoThread /\ ~in_txn
    /\ i < next_doc_id
    /\ live' = [live EXCEPT ![c][i] = doc]
    /\ outcome' = "none"
    /\ UNCHANGED <<owner, in_txn, work, next_doc_id, buffers, failures>>

\* Collection.insert by a thread without a transaction.
AutoInsert(t, c, doc) ==
    /\ t \notin running
    /\ owner = NoThread /\ ~in_txn
    /\ next_doc_id <= MaxId
    /\ next_doc_id' = next_doc_id + 1
    /\ live' = [live EXCEPT ![c][next_doc_id] = doc]
    /\ outcome' = "none"
    /\ UNCHANGED <<owner, in_txn, work, buffers, failures>>

\* Fault seeded for TLC: the header keeps the roots of the transaction before.
BeginStale(t) ==
    /\ t \notin running
    /\ owner = NoThread /\ ~in_txn
    /\ owner' = t
    /\ in_txn' = TRUE
    /\ outcome' = "none"
    /\ UNCHANGED <<live, work, next_doc_id, buffers, failures>>

\* Db.begin: db.mu and the default collection's writer lock.
Begin(t) ==
    /\ t \notin running
    /\ owner = NoThread /\ ~in_txn
    /\ owner' = t
    /\ in_txn' = TRUE
    /\ work' = live
    /\ outcome' = "none"
    /\ UNCHANGED <<live, next_doc_id, buffers, failures>>

\* Collection.put or delete by the owner: only the header's root moves.
TxnPut(t, c, i, doc) ==
    /\ owner = t
    /\ i < next_doc_id
    /\ OneCollection => c = 0
    /\ work' = [work EXCEPT ![c][i] = doc]
    /\ outcome' = "none"
    /\ UNCHANGED <<owner, in_txn, live, next_doc_id, buffers, failures>>

\* Db.commit: append, write the pages, publish the begun collection's root.
Commit(t) ==
    /\ owner = t
    /\ live' = [live EXCEPT ![0] = work[0]]
    /\ work' = Nothing
    /\ owner' = NoThread
    /\ in_txn' = FALSE
    /\ outcome' = "committed"
    /\ UNCHANGED <<next_doc_id, buffers, failures>>

\* commitAppend or applyAndFinalize fails: db.mu is released, the pager stays
\* in its transaction.
CommitFail(t) ==
    /\ owner = t
    /\ failures < MaxFailures
    /\ failures' = failures + 1
    /\ owner' = NoThread
    /\ outcome' = "failed"
    /\ UNCHANGED <<in_txn, live, work, next_doc_id, buffers>>

\* Db.abort.
Abort(t) ==
    /\ owner = t
    /\ work' = Nothing
    /\ owner' = NoThread
    /\ in_txn' = FALSE
    /\ outcome' = "aborted"
    /\ UNCHANGED <<live, next_doc_id, buffers, failures>>

\* Db.close, which aborts what a failed commit left, and Db.open.
Reopen ==
    /\ owner = NoThread /\ running = {}
    /\ in_txn
    /\ in_txn' = FALSE
    /\ work' = Nothing
    /\ outcome' = "none"
    /\ UNCHANGED <<owner, live, next_doc_id, buffers, failures>>

-----------------------------------------------------------------------------
OptimisticStep(t) ==
    \/ BeginOptimistic(t)
    \/ \E k \in Keys : Get(t, k[1], k[2])
    \/ \E p \in Puts : Put(t, p[1], p[2], p[3])
    \/ \E u \in Universe : u[2] = next_doc_id /\ Insert(t, u[1], u[3])
    \/ \E c \in Colls, docs \in SUBSET Docs \ {{}}, complete \in BOOLEAN : Find(t, c, docs, complete)
    \/ \E c \in Colls, n \in 0..MaxId, complete \in BOOLEAN : Iterate(t, c, n, complete)
    \/ CommitOptimistic(t) \/ CommitOptimisticFail(t)
    \/ Conflict(t) \/ CommitRefused(t) \/ AbortOptimistic(t)

PessimisticStep(t) ==
    \/ \E p \in Puts : AutoPut(t, p[1], p[2], p[3])
    \/ \E u \in Universe : u[2] = next_doc_id /\ AutoInsert(t, u[1], u[3])
    \/ Begin(t)
    \/ \E p \in Puts : TxnPut(t, p[1], p[2], p[3])
    \/ Commit(t) \/ CommitFail(t) \/ Abort(t)

Next == Reopen \/ \E t \in Threads : OptimisticStep(t) \/ PessimisticStep(t)

Spec == Init /\ [][Next]_vars

-----------------------------------------------------------------------------
TypeOK ==
    /\ owner \in Threads \cup {NoThread}
    /\ in_txn \in BOOLEAN
    /\ live \in Databases /\ work \in Databases
    /\ next_doc_id \in 1..(MaxId + 1)
    /\ running \subseteq Optimistic
    /\ snapshot \in [Threads -> Databases]
    /\ read_set \in [Threads -> SUBSET Reads]
    /\ range_set \in [Threads -> SUBSET Reports]
    /\ write_set \in [Threads -> Seq(Writes)]
    /\ gets \in [Threads -> SUBSET Gets]
    /\ outcome \in {"none", "committed", "conflict", "refused", "failed", "aborted"}
    /\ failures \in 0..MaxFailures

Ends(t, result) == t \in running /\ t \notin running' /\ outcome' = result

\* What a query has to have yielded from a tree, whatever order the code
\* walks it in: ids of matching documents, none of them twice, and all of
\* them if it was seen to end.
Answers(r, tree) ==
    LET matching == {i \in Ids : tree[i] \in r.docs}
    IN /\ ToSet(r.ids) \subseteq matching
       /\ Cardinality(ToSet(r.ids)) = Len(r.ids)
       /\ r.complete => ToSet(r.ids) = matching
       /\ r.kind = "scan" => \A i \in matching, j \in ToSet(r.ids) : i < j => i \in ToSet(r.ids)

(* A committed optimistic transaction might as well have run alone at the   *)
(* moment of its commit: every get, own writes included, every index read   *)
(* and the ids of every iteration are what the live trees would have given, *)
(* and its writes, all of them and no others, are what the commit changed   *)
(* (README.md:339-350, 387-405).                                            *)
Serialisable ==
    [][\A t \in Threads : Ends(t, "committed") =>
          /\ \A g \in gets[t] :
                After(SubSeq(write_set[t], 1, g.after), live)[g.coll][g.id] = g.doc
          /\ \A r \in range_set[t] : Answers(r, live[r.coll])
          /\ live' = After(write_set[t], live)]_vars

(* No lost update: a commit overwrites or deletes only documents that are   *)
(* as the transaction's snapshot had them, also if it never read them       *)
(* (README.md:380-385).                                                     *)
NoLostUpdate ==
    [][\A t \in Threads : Ends(t, "committed") =>
          \A c \in Colls, i \in Ids :
             LET ws == WritesTo(write_set[t], c, i)
             IN ws # {} /\ (\A n \in ws : write_set[t][n].kind = "put") =>
                   live[c][i] = snapshot[t][c][i]]_vars

\* A report of a created collection's iterator, which has walked another tree.
Astray(r) == r.kind = "scan" /\ r.coll # 0

(* A WriteConflict means that another transaction got through               *)
(* (README.md:344-347), or else that a created collection was iterated over *)
(* (db.zig:1304): gets, index reads and own writes never are its cause.     *)
ConflictMeansChange ==
    [][\A t \in Threads : Ends(t, "conflict") =>
          live # snapshot[t] \/ \E r \in range_set[t] : Astray(r)]_vars

(* A transaction beside which nothing has changed commits, in a created     *)
(* collection too (CHANGELOG.md:280-288).  It is not so.                    *)
UnchangedCommits ==
    [][\A t \in Threads : Ends(t, "conflict") => live # snapshot[t]]_vars

(* An explicit transaction that commits publishes all it wrote: its changes *)
(* become visible together (README.md:6, 51).                               *)
CommitPublishesAll ==
    [][\A t \in Threads : owner = t /\ owner' # t /\ outcome' = "committed" =>
          live' = work]_vars
=============================================================================
