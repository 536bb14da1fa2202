# TLA+ models of pyx

pyx (`src/`) is an embedded document database in Zig: a copy-on-write B+Tree in
one data file, a write-ahead log (WAL), counters in a shared-memory file
(`-shm`), and several threads and processes at once, with a Python binding and a
Django application on top. This directory holds specifications of all of these,
translated from `src/src/*.zig`, `src/bindings/python/pyx/*.py` and
`src/realworldexamples/django/notes/*.py`, the TLC runs that check them, and
proofs checked by TLAPS.
`PROJECT.json` maps every definition to the lines it stands for.

    tlc -workers 2 -config GroupCommit.cfg MCGroupCommit.tla    # a run
    tlapm GroupCommitProofs.tla                                 # the proofs

## 1. The system

| Component | Source | State | Operations | Interacts with |
|---|---|---|---|---|
| WAL | `wal.zig` | file of CRC-checked records, `end_offset`, pending batch | `appendPut/Delete/Commit`, `flush`, `replay`, `reset` | pager appends; `Db.open` replays; the end is shared through `-shm` |
| Group commit queue | `wal.zig:84-119, 324-419` | `fsynced_lsn`, `last_flushed_lsn`, `leader_active`, `sync_mu`, `sync_cv` | `syncToLsn`, the end of `reset` | threads after `db.mu` is released; checkpoints |
| Pager | `pager.zig` | header, dirty and cached pages, `in_txn`, saved counters | `open`, `begin`, `allocPage`, `commitAppend`, `applyAndFinalize`, `abort`, `checkpoint`, `close` | WAL, `-shm`, fcntl locks |
| Shared counters | `shm.zig` | page count, next ids, 64 collection slots with their roots | atomic loads and stores | all processes |
| File locks | `flock.zig` | byte 0 (opens and checkpoints EXCL, commits SHARED), byte 8 (append), byte 16+i (writer of collection i) | lock, unlock; released by the kernel when a process dies | all processes |
| Db | `db.zig` | `mu`, `txn_owner`, caches of names and indexes | `open`, auto-commit operations, `begin/commit/abort`, `snapshot`, `checkpoint`, `createCollection`, `createIndex` | everything below |
| Optimistic transactions | `db.zig:328-400, 1345-1905` | snapshot, read set, range set, write set | `get`, `put`, `insert`, `delete`, `find*`, `iterator`, `commit`, `abort` | live trees under `db.mu` at commit |
| B+Tree | `btree.zig` | pages; an append hint | `put`, `delete`, `get`, iterators | pager |
| Catalog | `db.zig:174-250, 420-480`, `shm.zig` | name to slot, in the default tree; a cache per process | `createCollection`, `collection` | `-shm` slots |
| Secondary indexes | `index.zig` | entries beside the documents in a tree; a registry per process | `createIndex`, maintenance, lookups | B+Tree |
| Document format | `_doc.py`, `doc.zig` | none | `encode`, `decode`, lookup of a field | binding; indexes |
| Python binding | `bindings/python/pyx/__init__.py`, `c_api.zig` | handles: `Db`, `Snapshot`, `OptimisticTxn` | `transaction`, `insert`, `insert_many`, `put`, `get`, `get_many`, `delete`, `create_index`, `drop_index`, `find_one`, `find_range`, `begin_optimistic`, `run_optimistic` | Db, through ctypes; its callers' threads and exceptions |
| Notes application | `realworldexamples/django/notes/` | `pyx_store._db`, `_lock`; one snapshot or transaction a request | `get_db`, list, create, detail, edit, delete views | binding; browser tabs |
| JSON, CLI, benchmarks | `json.zig`, `main.zig`, `bench*`, `setup.py` | none of their own | convert, call | callers |

What is hard, and what makes each part correct:

- **Durability.** A commit is applied before it is durable, and the thread that
  makes it durable may be another one. Correct: a reported commit survives;
  nobody waits for ever; a checkpoint under a running fsync gives nothing up.
- **Many processes.** Each step between lock, shared counter, WAL and data file
  interleaves with the other processes' steps, and a process may die at any of
  them. Correct: reachable pages are never overwritten, no commit is lost, an
  open beside live peers harms none of them.
- **Transactions.** Optimistic reads happen outside any lock. Correct: a
  committed transaction is serialisable, overwrites nothing unseen, fails only
  for a reason; an explicit transaction is all or nothing.
- **Failure.** Writes, syncs and replays may fail half way. Correct: the error
  path leaves what the normal path may rely on.
- **B+Tree and indexes.** Splits and key order; lists of indexes kept in memory
  by each process. Correct: a tree is a map; an index lists the documents it
  should, and lookups answer as the documents say.
- **The binding.** Exceptions, interrupts and errors at any call, handles on two
  sides of a foreign call, retries. Correct: what a caller is told is true; what
  was published took effect once and whole; nothing is freed twice or kept.
- **The application.** Requests race for the first opening and for the notes.
  Correct: each request takes effect at one moment, and is answered.

The full list of hazards, each at its line, is `hazards` in `PROJECT.json`.

## 2. Modules

    GroupCommit  <- MCGroupCommit,  GroupCommitProofs (theorems)
    SharedPager  <- MCSharedPager,  SharedPagerProofs (theorems)
    Transactions <- MCTransactions, TransactionsProofs (theorems)
    Sums <- BTree <- BTreeScans <- MCBTree;  BTreeScans <- BTreeProofs (theorems)
    Sums <- Collection;  Sums <- DocValues <- DocCodec;  DocValues <- IndexKeys
                 Collection, IndexKeys <- Lookups <- CollectionProofs (theorems)
                 Lookups, DocCodec <- Documents <- MCCollection
    NumberTheorems (least and greatest elements of sets of naturals, induction and
                    running totals, for the proofs)
    Client       <- MCClient,  ClientProofs (theorems)
    NotesData <- Notebook;  NotesData <- Notes (INSTANCE Notebook)
                 Notes <- MCNotes,  NotesProofs (theorems)

The modules look at one system from several sides. `GroupCommit` is one process
and what survives a power loss; `SharedPager` many processes, of one thread of
control each, as the running kernel sees them; `Transactions` one process with
collections of documents, above the pager; `BTree` the trees of one pager and
what becomes of their nodes; `Collection` documents and indexes as several
processes use them, `Lookups` and `Documents` what they answer in pyx's format;
`Client` the calls of the Python binding by several threads;
`Notes` the application on top. Each takes what is below it at its promise:
`Collection` and `Client` take a transaction of the engine for atomic, `Notes` a
call of the binding. An operator named `...Unlocked`,
`...Silent`, `...Skipped` and marked "Fault seeded for TLC" is not part of a
specification: it is a plausible bug that shows that a property has teeth.

### GroupCommit

| TLA+ | Code |
|---|---|
| `mu` | `db.mu`, held from `Flush` to `Apply`, and by a checkpoint |
| `Flush`, `PublishFlushed`, `Apply` | `Pager.commitAppend`'s pwritev; its store of `last_flushed_lsn`; `applyAndFinalize` |
| `FlushFail`, `ApplyFail` | the error paths; after the second the COMMIT record stays in the WAL |
| `Return`, `BecomeLeader`, `Park` | the tests at the top of `syncToLsn`'s loop, under `sync_mu` |
| `FsyncReturn`, `FsyncFail`, `LoadWatermark`, `Credit`, `CreditFailed` | the leader: fsync, *then* the load of `last_flushed_lsn`, then `sync_mu` again |
| `CheckpointBegin`, `CheckpointSync`, `CheckpointTruncate`, `CheckpointCredit` | `Pager.checkpoint`: `db.mu`, the data file's sync, `Wal.reset`'s setLength, its sync with the credit of everything flushed |
| `CheckpointFail` | any of these three file operations fails: `db.mu` is released, nobody is credited |
| `stale`, `behind` | `end_offset` lies beyond the end of a file that was truncated and not set back; the commits that `flush` has written behind the hole this leaves |
| `walCache`, `walDisk`; `applied`, `dataDisk` | what the files hold, and what of it a power loss leaves |

A transaction is its COMMIT's LSN. `sync_mu` covers straight-line code only and
each section under it is one action. What an fsync promises is a parameter:
`FsyncIsBarrier` is the reading of the comment at `wal.zig:347` (all that was
written before it *returns*), FALSE is what POSIX promises (before the call).
`ResetMayFail` says whether the sync of a WAL that has just been truncated may
fail. What is behind a hole a replay does not reach, so it counts as lost until a
checkpoint has synced the data file, or truncated it away.

Fairness: `WF(SyncToLsn(t))` for each thread. A thread in `syncToLsn` is
scheduled, `sync_mu` is held for a few instructions, and fsync returns, well or
not. Nothing is assumed of new commits or checkpoints, nor of who becomes the
next leader; a woken thread re-tests the loop, as the code does.

### SharedPager

| TLA+ | Code |
|---|---|
| `excl`, `shared`, `writer` | byte 0 EXCL / SHARED, byte 16+i; byte 8 is inside `CommitAppend` |
| `numPages`, `roots` | `shm.num_pages`, `shm.collections[i].btree_root` |
| `txn` | the header copy of `Pager.begin` with the counters saved for `abort`, and the dirty page |
| `BeginShared`, `BeginWriter`, `Refresh`, `Put`, `CommitAppend`, `WritePages`, `Publish` | one commit, cut where another process may step in |
| `Abort` | `errdefer pager.abort()` of any failing step, with the roll-back of `num_pages` |
| `SnapshotBegin`, `SnapshotSlot`, `SnapshotClose` | `Db.snapshot`: one atomic load a slot |
| `CheckpointLock`, `CheckpointReset`, `CheckpointFail` | `Pager.checkpoint`, on its own or in `Db.close`; a failure keeps the WAL, or leaves it truncated with `end_offset` as it was (every record a `Hole`) |
| `OpenLock`, `ReplayScan`, `ReplayRecord`, `ReplayError`, `OpenDone` | `Pager.open`, the two passes of the replay, `finishOpen` |
| `Crash` | a process dies at any point; the kernel drops its locks |

A B+Tree is its root page, which names the last writer of each key: copy on
write is "allocate the next page, write the new tree there". `wal` is a sequence
of records, one unit long each; `Hole` is the zeros a write past the end of the
file leaves. `Db.snapshot` calls `flushForSnapshot`, which has nothing to write:
committed pages go to the file at once, and `page_cache` is non-empty (page 0)
during recovery only. A process' data lock `db.mu` makes it one thread of
control. Power loss is not in this module: what was written is read back, and
`shm.wal_end_offset` is the file's length, the hole of a half-done reset
(`ResetMayFail`) included, which the next append fills up to.

### Transactions

| TLA+ | Code |
|---|---|
| `owner`, `in_txn` | `Db.txn_owner` holding `db.mu`; `Pager.in_txn` |
| `live`, `work` | the trees under the roots in `-shm`, and under the header's roots inside a transaction |
| `snapshot`, `read_set`, `range_set`, `write_set` | the fields of `OptimisticTxn` |
| `Get`, `Put`, `Insert` | `TxnCollection`; a delete is a put of `Missing`; `ImplicitRead` is `recordImplicitReadIfNew` |
| `Find`, `Iterate` | `findOne/findAll/findRange`; `iterator` and `TxnIterator.next`, advanced so far or to its end |
| `Valid`, `CommitCollection`, `CommitOptimistic`, `Conflict` | `validateAndApply`, `commitCollectionId`, `commit` |
| `AutoPut`, `AutoInsert` | auto-commit operations, atomic under `db.mu` |
| `Begin`, `TxnPut`, `Commit`, `Abort` | explicit transactions; `Commit` publishes the begun collection's root only |
| `CommitFail`, `CommitOptimisticFail`, `CommitRefused`, `Reopen` | a commit that fails in the WAL leaves `in_txn` set, and the pager refuses transactions until it is closed |

A document is its indexed field's value, and a hash of it is the value: a
collision of Wyhash is out of scope. An auto-commit operation that fails is
aborted and changes no tree, so there is no action for it. As in the code, reads
by predicate see the snapshot and not the transaction's own writes, and an
iteration records ids and no values: an update of a scanned document that the
transaction did not `get` is not detected (src/README.md:396-405 promises positions,
and `Serialisable` claims no more). A thread in a transaction does nothing else;
`Db.begin` or an optimistic commit by the owner of an explicit transaction would
wait for its own non-reentrant `db.mu`. An iteration is over any collection, and
walks the default tree whichever it is: `Astray` is its report when that was a
created one. `Answer` is the ids that match, in the
order of the tree that is walked: it is chosen by that property, of which the
proofs show that exactly such a sequence exists.

### BTree

| TLA+ | Code |
|---|---|
| `tree` | the tree under each collection's root, as a nested value: a page is its node, a child pointer its child; root 0 is `EmptyNode` |
| `hint` | `Pager.txn_append_hint`, as a collection and the first key of the leaf, which leads to it (`HintLeaf`) |
| `Put`: `PutAtHint` or `PutByDescent` | `BTree.put`, `putTxn`: the append fast path, or `insertRec` and a new root after a split |
| `InsertIntoLeaf`, `SplitLeaf`, `BalancedSplit` | `tryInsertLeafInPlace`, `insertIntoLeafCow`: in place, append-style split or split by bytes, which are halved without the slots (`EntrySizes`) |
| `LeavesFit`, `PutRefused` | `buildLeaf`'s test of each half, slots counted; a put of which one does not fit is refused with `ValueTooLarge` and leaves the tree as it was |
| `InsertIntoInternal`, `PromotedSlot` | `insertIntoInternalCow`, append-style (a right half with no key) or balanced |
| `Delete`, `DeleteMissing`, `RemoveFromLeaf`, `DropChild` | `deleteTxn`, `deleteRec`: no merging, empty nodes are dropped, a node with one child left gives way to it |
| `Descent`, `LeafFor`; `Rebuilt`, `Joined`; `Grown` | the way down to a leaf; the way back up of `insertRec` and `deleteRec`, one level after the other; the new root of a root that was split |
| `Get` | `View.get/getInto` |
| `Frame`, `DescendTo`, `DescendToLeftmost`, `IteratorFrom` (in `BTreeScans`) | the iterator's stack of pages, each with its next slot; `descendTo`, `descendToLeftmost`, `iterator`, `iteratorFrom` |
| `Round`, `Walk` (in `BTreeScans`) | one entry handed out or one child entered in the loop of `Iterator.next`, the frames that have no more popped first; `next` until it returns null |
| `Commit` | `applyAndFinalize`'s reset of the hint |

Bytes become sizes: a value is its leaf entry's size, `KeySize` a key's in an
internal node, both with the `SlotSize` of the slot that leads to them, and a node
holds what fits its capacity. `ConstantsAssumption` has what the code's limits
(256 and 1024 bytes in a page of 4096, slots of 2) say: three entries fit in a
leaf, two keys in an internal node, and a slot takes no more than what it leads
to. Whether the halves of a split fit does not follow from it for leaves (section
4), and is a guard of `Put` as in the code. Whether a page is copied or, being
dirty already, written in place makes no difference to the tree and is not
distinguished; neither is `next_leaf`, which is written and never followed.
`findFirstByPrefix` is a read that does what a seek and one `next` do, up to 64
leaves and 16 levels, and is left out. What abort and crashes do to roots is
`SharedPager`'s. A descent is a recursive function on levels and an iteration one
on rounds, which the prover can follow. `Rounds` is a bound for both tools, of two
rounds a key and one: a child entered from above always has a key to hand out.
`MaxHeight` bounds the levels: a put that would need more is not a step of the
model (in the code nothing but the file's size bounds them).

### DocValues, DocCodec, IndexKeys, Collection, Lookups, Documents

| TLA+ | Code |
|---|---|
| `WriteVarint`, `LittleEndian`, `Signed`, `Tag` | how numbers are written, shared by the format and the keys (`DocValues`) |
| `Encode`, `Payload`, `ValueTag` | `_doc.encode` and its helpers, byte by byte |
| `Decode`, `ReadPayload`, `ReadEntries`, `ReadElements`, `ReadVarint` | `_doc.decode` and its helpers; `Raised` is a `ValueError` |
| `EncodeValue`, `IndexEntries` | `encodeValue`, `addIndexEntry` / `removeIndexEntry` and the compound ones, which skip what cannot be indexed |
| `FindOne`, `FindRange`, `SeekKey`, `PastStop` | `findOneInView` / `findOneCompoundInView`, `findRangeInView` and `RangeIterator.next` |
| `find_one`, `find_range`, `ToPyxValue`, `ToBound` | the binding's calls with their conversions |
| `store`, `work`, `owner` | the published tree, the tree as the open block sees it, the process in a block |
| `indexes`, `registry` | `Manager`'s lists in each process; the registry entries in the tree |
| `Inserted`, `Updated`, `Deleted` | `insertLocked`, `putLocked`, `deleteLocked` with the index hooks they call |
| `CreateIndex`, `DropIndex`, `DdlCommitFails` | `create_index`, `drop_index`; their transaction aborted, the list as they left it |
| `PutTooLarge` | a put whose `bt.put` raises after `beforeDelete`, inside a block that goes on |
| `GetMany`, `PassDone`, `NextCap`, `OutLens`, `Packed`, `Unpack` | `get_many`: the loop over buffer sizes, what a pass hands over, the unpacking |
| `Descend`; `Scan`, `Hits` | a lookup of `getManyDescents`, which takes the latest root for each id; all of `getManySorted`, which takes one root for all |

`Collection` has the format and the keys as parameters, `EncodeDoc`, `DecodeDoc`
and `EntriesFor`, of which it assumes what the code above the codec relies on:
`DocsAssumption`, that a dict which is written is read back, and
`EntriesAssumption`, that an entry belongs to one index and one document.
`Lookups` extends it with `IndexKeys` and states what a lookup answers. It
assumes (`LookupsAssumption`) that `EntriesFor` are `IndexEntries` of the dict that
is read back, that the i64 of documents are in their range and strings are bytes,
and that ids fit their bytes in a key and stay below the padding `PastIds`;
`KeysAssumption` that a key has at most 256 bytes (`max_key_size`), so that the
first byte of a string's length tells the length. `Documents` adds `DocCodec` and
states what reading a document answers. It is apart from `Lookups` because the
codec recurses with RECURSIVE operators, of which nothing can be proved.
`Collection.cfg` gives the parameters `Encode`, `Decoded` and `IndexEntries`, and TLC
evaluates all the assumptions for these.

`get_many` is called by a thread of one more process. Its lookups hold `db.mu`,
which is that process' own, and no lock on a file: between two descents, as
between two passes, the other processes commit, and each descent is a step. A
scan is one step, for all it reads is under one root. `reader` keeps what the pass
has read so far (`found`) and, as a ghost, the documents there were at each of its
lookups (`moments`), with which `GetManyAnswers` compares what is returned.

The widths of the format are constants (base of a byte, bytes of an i64, of a
length, of an id), so that every boundary is met by small values. The prefix of
an index's key (namespace, collection, field names, each behind its length) is
the index itself. UTF-8 and IEEE floats stay the bytes they are; Python's `dict`
is its sequence of entries. The C extension `_native` takes the place of the
same Python code when it is built and is not modelled; neither are dotted field
paths and lookups in a snapshot.

`stale` is a ghost: the indexes that some process has written to while its list
and the registry disagreed about them, or of which a put was left half done.
`IndexExact` is claimed for the others. Three things bring the disagreement
about: an index created by another process after this one opened the database;
an aborted block, or a failed commit, with `create_index` or `drop_index` in it,
which leaves the list as it was; a caught error of a put. Lookups on an index of
the list that is not in the registry answer None and do not raise.

### Client

| TLA+ | Code |
|---|---|
| `owner` | `db.mu` and `txn_owner`, which change hands together |
| `CallBlock`, `Begin`, `BlockGet`, `BlockWrite`, `BlockCommit`, `BlockRaise`, `BlockInterrupt` | `Db.transaction` and the calls in its body; the ways out of it: `else`, `except Exception`, neither |
| `CallInsertMany`, `InsertMany`, `InsertManyFails`, `InsertManyJoins`, `Sync`, `SyncFails` | `insert` and `insert_many` with a transaction of their own, or, after an interrupt, inside the one left open |
| `CallRunOptimistic`, `BeginOptimistic`, `Fn`, `FnRaises`, `OccCommit`, `OccSync`, `OccConflict`, `Retry`, `Release` | `run_optimistic`; `CallManual` is `with db.begin_optimistic()` |
| `handle`, `native`, `Close` | `OptimisticTxn._handle`; the native transactions that exist; `__exit__`, `__del__` |
| `published`, `unsynced`, `stranded`, `outcome` | ghosts: whose commit was published, whose sync failed, who ran in an abandoned transaction, what the caller was told |

Every call bumps one shared document (get, then put) or inserts rows of its own,
so the store tells whose work it holds and how often. A commit publishes and
releases `db.mu` and only then syncs, as `Db.commit` does. An error in a block
leaves the block; an application that catches the error of an `insert_many` in
its block and commits publishes the documents before the failing one. A thread
in a block that begins another one, or commits an optimistic transaction, waits
for the `db.mu` it holds (`db.zig:288`): no call of the model does that. A failing
`commitAppend` is `Transactions`' `CommitFail`.

### NotesData, Notebook, Notes

| TLA+ | Code |
|---|---|
| `Notebook` | the abstract specification: a request takes effect, or is answered from the notes as they are, in one step; an edit may be refused, any request may fail without effect |
| `lock`, `db`, `open`, `normal`, `made`, `indexes` | `_lock`, `_db`, and the handle each thread has opened with its mode and indexes |
| `CheckDb`, `Lock`, `Open`, `SetSyncMode`, `CreateIndex`, `Publish`, `OpenFails` | `get_db`, line by line |
| `ListOpen`, `ListNext`, `ListEnd` | `list_view`: the snapshot, one round of its loop, the page |
| `Show`, `Create`, `Delete` | `detail_view` and the form, `create_view`, `delete_view` |
| `EditBegin`, `EditUpdate`, `EditCommit`, `EditConflict` | a POST of `edit_view`: `run_optimistic` around `update` |
| `Reply` | the response; a thread whose `get_db` failed loses its handle with the exception |

A tab has one request at a time and a thread serves it. A commit is validated
against the note as read (`ReadSetHolds`), which is what `validateAndApply` does
for a transaction with one read. `Refinement` maps `answer` to `Promised`: a list
takes effect when its snapshot is opened, and an edit whose snapshot lacks the
note when its transaction begins; everything else in the step that answers.
`body` goes the way of `title`, `created_at` is written once, and sorting and
templates are left out.

## 3. Runs

| Run | Instance | Shows |
|---|---|---|
| `group_commit` | 3 threads, 3 commits, checkpoints and failures without bound, half-done resets included, weak fsync | `LeaderToken`, `NoLostWakeup`, `LeaderCoversSelf`, `LeaderCommitDurable`, `CheckpointCreditsDurable`, `DurabilityIsStable`, and under fairness `SyncReturns` |
| `group_commit_durable` | 3 threads, 4 commits, fsync as a barrier | `AckedDurable` fails |
| `shared_alone` | 1 process, 2 collections, 3 transactions, 3 opens, 2 crashes, 1 abort, 1 failing replay, half-done resets | `KeptUntilReplayFails`: crash recovery is right for one process while its replays succeed |
| `shared_colls` | 2 processes, 2 collections, 2 keys, 3 opens, 2 crashes, a failing replay | `PagesImmutable`, `BuildsOnLatest` |
| `shared_hole` | 3 processes, 4 transactions, 3 opens | `CommittedKept` fails, with no crash |
| `btree` | 1 tree of 8 keys, entries of 3 sizes and keys of 2, 3 or 4 entries in a leaf, 2 to 4 keys in an internal node, up to 4 levels; 2 operations a transaction, any number of transactions | `GetIsLookup`, `WalkIsSorted`; `TypeOK` says that every node fits its page |
| `btree_hint` | 6 keys, the hint offered any key | `GetIsLookup` fails |
| `transactions` | 2 threads, one of them optimistic; 2 collections, 2 ids, 2 values | `Serialisable`, `NoLostUpdate`, `ConflictMeansChange`, `CommitPublishesAll` |
| `transactions_torn` | the same, a transaction writing in both collections | `CommitPublishesAll` fails |
| `collection` | 2 processes, 4 documents of which one is too large for the tree, ids 1 and 2, a plain and a compound index, 5 calls | `DocsReadBack`, `IndexExact`, `FindOneAnswers`, `RangeAnswers`, `GetManyAnswers`, `GetManyConverges` |
| `client` | 2 threads, 3 calls of 4 kinds, 2 attempts, 1 engine error, 1 interrupt | `LockFollowsBlock`, `EffectsExact`, `OutcomeTruth`, `HandleFreedOnce`, and under fairness `CallsEnd` |
| `notes` | 2 tabs, 3 requests of 9, 2 attempts, 1 failing open or index creation, 2 clock values | `PublishedIsReady`, `DeletedStaysDeleted`, `Refinement` (of `Notebook`), and under fairness `EveryRequestAnswered` |

Why the bounds are enough. *GroupCommit*: the races are between a leader, a
follower and a newcomer or checkpoint: three threads; three LSNs tell "before,
own, after" apart. *SharedPager*: one commit in each collection beside a third
party that opens, crashes or aborts; three opens are a first, a peer's and a
recovery. `MaxAborts` is 0 in `shared_colls`, because an abort beside another
collection's commit breaks the page count (section 4); `shared_alone` has it, on
its own, with a replay that fails, which ends what its property claims, and with
resets that stop half way.
*Transactions*: two operations by the optimistic thread and any sequence by the
other are what a lost update or a phantom takes (read or scan, write, interference
in between); `MCUniverse` orders ids and values differently; iterations are over
either collection, and `ConflictMeansChange` makes the one exception of a
transaction that has iterated over the created one (section 4 shows that it is
needed). A transaction of the passing run writes to one collection, for
`transactions_torn` shows what happens otherwise. *BTree*: eight keys of uneven
sizes reach four levels, append-style and balanced splits at leaves and at
internal nodes with keys left on both sides, internal nodes with no key at all,
and collapses of those. Two operations in a transaction are what sets the hint and
takes it. One entry may be put between four smaller ones of a full leaf as a large
one, and is then refused, for the left half is too long with its slots. `AnyOrder`
is FALSE in `btree`: the hint is offered only keys that a descent would bring to
the hint's leaf, as an append-only workload does; finding 4 is what happens
otherwise. *Collection*: two documents are what an order needs, and a compound
index two fields; the documents have integers at the end of their range and of
both signs, strings whose order by bytes is not their order by length, a length of
two varint groups, a value too large for the compound key, every type of value at
two depths. Five calls are a create, a write by the other process, a block with
its end, and a reader. A list that names one id twice is looked up one by one, at
two moments; a list of four is scanned, with either occurrence of each id hit. Two
passes stand for eight, and every run of `get_many` past its first pass knows the
size it was told. *Client*: a lost
update takes two calls, an interrupt and what follows it the same thread and
another one. *Notes*: an edit that is overtaken twice, a list with a create and a
delete inside its scan, and an opening that fails while another thread waits take
three requests of two tabs.

`collection`, `client` and `notes` disable deadlock checking: their calls are
bounded, the server stops when all requests are served, and in `client` an
interrupt may leave `db.mu` held for good.

Fairness. *Client*: weak fairness of each thread's steps inside a call: it is
scheduled, and with a bounded number of calls `db.mu`, when it is free, is got by
whoever waits. New calls and interrupts are not assumed to happen. *Notes*: weak
fairness of each thread's `get_db` and view, and of sending the response;
`threading.Lock` is waited for only by threads that came before `_db` was set, of
which there are finitely many between two failures. No fairness of a particular
commit is needed for an edit: `max_attempts` ends it.

## 4. Findings

1. `group_commit_durable`: the leader loads `last_flushed_lsn` after fsync has
   returned (`wal.zig:352`), so a commit appended in between is acknowledged and
   not durable. `wal.zig:91-95` describes the right order: the snapshot before
   the fsync.
2. `shared_hole`: `Wal.flush` trusts an `end_offset` older than another process'
   checkpoint (`wal.zig:292`) and leaves a hole; the next open replays what is
   before the hole over newer trees and throws away what is behind it.
3. `transactions_torn`: `Db.begin ... Db.commit` publishes the default
   collection only (`db.zig:278`, `pager.zig:702`): writes to others vanish.
4. `btree_hint`: the append hint is the leaf of the transaction's last descent,
   not the rightmost one (`btree.zig:655`), so a put of a key that belongs
   further right may land in it, where neither `get` nor a seek finds it. An
   insert into an indexed collection makes two such puts: the document's key,
   then, greater, the index entry's, in the same tree. The hint is the pager's
   and not the tree's, so a put in another collection may land in it as well.

Disagreements met while modelling, with no run of their own. The first six are
reached by changing a configuration as it is said:

- `Wal.reset` truncates the file (`wal.zig:395`) and, when the sync after it fails
  (396), returns before it sets `end_offset` back. The next commit is written at
  the old offset, behind a hole that replay does not pass, and its own successful
  fsync makes nothing durable, where `pager.zig:178-179` says of `.full` that every
  committed transaction survives a power loss. The next checkpoint that succeeds
  repairs it. `LeaderCommitDurable` excepts the commits `behind`; without the
  exception it is `LeaderFsyncSuffices`, which fails as an invariant of
  `GroupCommit.cfg`.
- The error path of `Db.open` closes the pager, and so resets the WAL that it
  failed to replay (`db.zig:222`, `pager.zig:382`), where `pager.zig:379-381` says
  that failure is recoverable on reopen. One process is enough, which is why
  `KeptUntilReplayFails` ends where it does: `CommittedKept` fails as an invariant
  of `SharedPagerAlone.cfg`.
- `Pager.abort` stores the page count of its own `begin` (`pager.zig:736`), under
  another collection's published root. The comment at `pager.zig:732-735` says
  that no concurrent writer changes it. `SharedPagerColls.cfg` with
  `MaxAborts = 1` and the invariant `LiveRootsReadable`.
- `balancedLeafSplit` makes halves equal without their slots
  (`btree.zig:198-207`), `buildLeaf` tests them with (142-143): beside some 350
  tiny entries and a large one, a key and a value within their limits are
  refused with `ValueTooLarge`, where `btree.zig:766-767` has a full page split and
  the test at `btree.zig:1360` finds room for puts of any sizes. `PutsFindRoom`
  fails as an invariant of `BTree.cfg`. The put is recorded before it is refused
  (`btree.zig:627`): the application that catches the error in an explicit
  transaction and commits leaves in the WAL a put that the tree lacks, and that
  a replay attempts again.
- A snapshot's iterator walks the default tree for any collection
  (`db.zig:1304`), so an optimistic transaction that iterates over a created
  collection conflicts with itself for ever; `CHANGELOG.md:280-288` says that
  optimistic transactions on it already work. `ConflictMeansChange` excepts it;
  without the exception it is `UnchangedCommits`, which fails as a property of
  `Transactions.cfg`.
- A replay beside live processes publishes the root of each record it re-executes
  (`db.zig:116`); if it dies between two, they carry on from a state that lacks
  commits they had reported, and a checkpoint makes that final. The comment at
  `db.zig:223-227` says that under EXCL their commits cannot race the replay,
  `wal.zig:3-6` that re-execution gives a consistent state. This is why
  `CommittedKept` is proved under `PeersGone` (section 5) and a run checks its
  like with one process. `SharedPagerHole.cfg` with two processes, `MaxTxns = 2`
  and `MaxCrashes = 1` shows it.
- Three comments say less than the code does. `db.zig:1353-1356` has scans of
  whole collections "not yet tracked", their phantoms "a documented gap", and
  `db.zig:1823-1825` has range and indexed reads "with no read-set tracking"; both
  are recorded in `range_set` and validated at commit (`Find`, `Iterate`,
  `Valid`), and `Serialisable` holds with them, of a scan in what ids it has met.
  The docstring of `beginOptimistic` (`db.zig:324-327`) says that a put or delete
  without a prior get is "not protected from lost-update"; its
  `recordImplicitReadIfNew` protects it (`ImplicitRead`), and `NoLostUpdate` holds
  for blind writes too.
- `get_many` of few ids takes the latest root for each of them (`db.zig:827-829`),
  of many ids one root for all: beside other processes' commits the former
  returns documents of several moments. No document says which; `GetManyAnswers`
  claims a moment for each id.
- The lock table of `src/README.md:301-303` describes byte 0 as the commit lock,
  which the code now takes SHARED; `Db.snapshot` loads one root after another
  (`db.zig:535-548`), so that it is atomic within its process but not beside
  other processes' commits; a transaction that fails after its append has a
  COMMIT record in the WAL, which a later replay brings back.
- Indexes are "auto-maintained on writes" (`index.zig:1-2`), but an aborted block
  with `create_index` or `drop_index`, another process' index and a caught error
  of a put leave them wrong (`stale` in `Collection`); without that ghost TLC
  refutes `IndexExact`.
- The comment above `findRangeInView` says that the order of keys is the order of
  values within a type; strings are ordered by length first (`Less` in
  `Lookups`). A range without an upper bound goes on from integers to strings.
- The binding's README allows None, bool and float as indexed lookup values; all
  three raise `UnsupportedFieldType`. An int outside 64 bits is looked up modulo
  2^64 (`__init__.py:99`, `ToPyxValue`), while a document with it is refused.
- The binding's README says that `transaction()` aborts on an exception; a
  KeyboardInterrupt leaves it open, with `db.mu` held (`__init__.py:235`,
  `BlockInterrupt`).
- The comment in `OptimisticTxn.__exit__` (`__init__.py:785-786`) says that a clean
  exit without a commit aborts; it commits (`OccCommit` after `CallManual`).
- A call raises when its sync fails, although its work is published: an
  application that repeats an `insert` on any error inserts twice (`SyncFails`).
- `TxnCollection.delete` answers True whether or not the document exists
  (`c_api.zig:1103`).
- The docstring of `edit_view` (`views.py:141-150`) says that without the optimistic
  transaction the second tab's submit would silently overwrite the first. It
  does with it as well: the transaction begins at the POST, so of two tabs that
  had opened the form the second overwrites what the first has saved, unless the
  two POSTs overlap, and then it is retried and overwrites it. What holds is in
  `Refinement`: the fields that the form lacks are those of the latest note.
- `pyx_store.py:5-6` says that pyx is not safe for several processes, the
  application's README that it was verified with several.

## 5. Proofs

`GroupCommitProofs` proves, for every set of threads, every bound and either
reading of fsync, from `ConstantsAssumption` alone: `Invariance`
(`Spec => []IInv`), `TypeCorrect`, `SingleLeader`, `NoWakeupLost`,
`OneFsyncSuffices`, `LeaderIsDurable`, `DurabilityKept` and `CheckpointCredits`.
These are all properties of `group_commit` but the liveness one.

None of the invariants is inductive. `IInv` adds what they rest on:

- `Active`: a thread with a commit under way has an LSN;
- `Holders`: `db.mu` is held by exactly those inside a commit or checkpoint, so
  that no checkpoint runs between an append and its application;
- `Queue`: the token belongs to one thread, and a parked thread has a leader;
- `Marks`: LSNs are published in order, and a thread that has left the data lock
  is at or below `last_flushed_lsn`, so the watermark covers its leader;
- `Placement`: an applied commit is in the WAL or in the synced data file, and
  before a truncation everything applied is in the latter. So a leader's commit
  is in its fsync's promise, or a checkpoint has made it durable meanwhile, or it
  is `behind` the hole of a reset that failed half way, and then the theorem,
  like the property, claims nothing of it (section 4).

`TypeStep`, `ActiveStep`, `HoldersStep`, `QueueStep`, `MarksStep` and
`PlacementStep` show each part preserved, action by action; two action
properties follow from the invariant before the step.

`NotesProofs` proves, for any tabs, requests, stored notes and bounds that meet
`ConstantsAssumption`: `TypeCorrect`, `PublishedReady`, `DeletedStays`, and
`Implements`, that `Notes` implements `Notebook`. The invariant `IInv` adds to
`TypeOK`

- `Opener` and `Handles`: the holder of `_lock` is the one thread between `Lock`
  and `Publish`, `_db` is None meanwhile, and every other open handle belongs to a
  thread that is about to answer 500. So the first, unlocked test of `_db` is
  sound: what it finds was complete when it was published and is never changed;
- `Below`: every id of the collection is below `nextId`, so that a new note takes
  the id of no other note;
- `Scanned`: what a list has found is the filtered part of its snapshot up to the
  cursor, so that its page is the one `Promised` when the snapshot was opened;
- `Drafted`: the draft of an edit is the note of its snapshot with the form's
  fields, so that a validated commit is `Notebook`'s edit of the live note;
- `Stage` and `Attempts`: where a thread is tells its request and what it holds.

Each action is then one step of `Notebook` or a stutter, under the mapping of
`answer` to `Promised`.

`ClientProofs` proves for any threads and bounds `TypeCorrect`, `BlocksLock`,
`EffectsAreExact`, `OutcomesAreTrue` and `HandlesAreFreed`. Its `IInv` adds

- `Locked`, `Handles`: `db.mu` and the native transactions by where a thread is;
- `Numbered`: a call belongs to one thread, and calls to come have left no trace;
- `Progress`: what is published, unsynced and told of a call by where its thread is;
- `Working`: the open transaction holds the store and, beyond it, only its owner's
  part, which is what makes a commit exact and an abort traceless.

That the engine's transactions are atomic is an assumption of `Client` and the
subject of `Transactions`. Both proof modules have one lemma for each part, and
under it one step for each action.

`SharedPagerProofs` proves, for any processes, collections, keys and bounds, in
three storeys:

- `TypeInvariant` and `TypeCorrect`, from `ConstantsAssumption` alone. That page
  numbers, transaction numbers and log positions stay in their ranges depends on
  all the processes: `TypeInv` adds `Locks` (who holds which region of the lock
  file), `Scans`, `Numbered` (no two records or running transactions share a
  number), `Quota` (the processes that are between their locks and their number
  find one left) and `Room` (the page ids handed out so far are at most the
  transactions begun and `MaxTxns` for each open, counting a replay's remaining
  records; an abort puts nothing back that was not counted).
- `LiveRootsStayReadable`, `PagesStayImmutable` and `AlwaysBuildsOnLatest`, from
  `PageInv`: what a root or a held snapshot reaches is below `num_pages`, a page a
  transaction has taken is reached by nobody and is nobody else's, and the
  transaction's base is the live root (`Private`, `Based`). The hypothesis is
  `RollbackAlone`: no abort happens, or there is one process, or one collection.
  Without it they are false, as section 4 says of `Pager.abort`.
- `CommittedStaysKept`, from `KeptInv`: in one collection numbers grow along the
  WAL, so a replay that puts old writes over new roots ends with the newest, and
  until it has ended what is published is in the WAL (`Ordered`, `Restored`). It
  holds in behaviours that stay `Calm` (no hole in the WAL, no failed replay) and
  whose replays, if they die, leave no live process (`PeersGone`). Each of the
  three is needed: finding 2, and in section 4 what is said of `Db.open` and of a
  replay beside live processes. Deaths at
  any other point, also between append and publication beside live peers,
  checkpoints, opens and snapshots are all in.
- `AloneKeepsCommitted`: a single process loses nothing until a replay fails,
  wherever it dies and however often, and however many of its resets stop half
  way. It never believes the WAL longer than it is (`Short`), so the WAL is
  without holes, and `KeptInv` goes on, or begins with the zeros of a half-done
  reset, behind which nothing is replayed; what was published is in the trees when
  that comes (`HoleComes`) and stays there (`AllKeptStays`) until a checkpoint has
  reset the WAL in full.

The assumptions on constants that these use are that there are finitely many
processes, that there is a key, and that a `Hole` is not a record.

`TransactionsProofs` proves for any threads, documents, collections and lengths
of transactions `TypeCorrect`, `NeverLosesUpdate`, `ConflictsMeanChange`,
`CommitsSerialise` and `CommitsPublishAll`. They rest on `BuffersInvariant`, which
says for each transaction how its buffers and its snapshot agree:

- `RecordedReads`: a recorded read has the snapshot's value;
- `ExplainedGets`: a get returned the latest write staged before it, or else a
  recorded read;
- `CoveredPuts`: a key that puts alone have written has a recorded read, which is
  what `recordImplicitReadIfNew` is for;
- `ReportsAnswer`: a recorded scan or lookup is what the snapshot answers, or it is
  the report of an iteration over a created collection (`Astray`);
- `WritesOneCollection`, `OwnerWritesDefault`: what the hypothesis below gives.

`Valid` compares the records with the live trees, so that all this carries over
to them; `ConfirmedAnswers` shows that a confirmed report is an answer in the
sense of `Answers`, which does not say how a tree is walked. `CommitsSerialise`
and `CommitsPublishAll` assume `OneCollection`, without which finding 3 shows that
the latter is false. `NeverLosesUpdate` and `ConflictsMeanChange` assume nothing;
the exception in the latter, of a transaction with an `Astray` report, is part of
the property and is needed (section 4).

`CollectionProofs` proves for any documents, indexes, lists of ids, buffer sizes,
processes and bounds, and for any format and keys that meet `DocsAssumption` and
`EntriesAssumption`, `IndexesExact`, `AnswersEachLookup`, `GivesUpOnGrowth`
and `TypeCorrect`. Two invariants carry them:

- `IndexInv`: the store and the open block are `Good`. Documents are what was put,
  with ids handed out, none too large for the tree (`Sound`), and every index that
  is not `stale` has the entries of its documents (`ExactFor`). An update passes
  through a state that is exact for all documents but the one (`RemovesEntries`,
  `AddsEntries`); that the two meet is where an entry must belong to one document.
- `ReaderInv`: after a first pass the buffer has the room that pass asked for, so
  a pass fails only when documents grew; and each value a pass has found so far is
  the encoding of the document there was of its id then, or empty if there was
  none (`Reading`), although the store has moved on since.

`AnswersEachLookup` rests on `PackingCuts`: sequences of any number and length,
packed one after another, are cut out again at the sums of their lengths. The
buffer and the sums are defined by recursion over positions; the lemma, like the
recursions it uses, is shown by a least position where it fails (`LeastNatural`).
`UnpackAnswers` puts the two together: what is returned for an id is what some
lookup of that id saw. In a pass of descents there is a lookup for each position;
in a sorted scan, where of a repeated id one position is hit, `HitsCover` says that
each id that exists is found once at least.

`FindsTheLowest` and `RangesAreComplete` go on from `IndexInv` to what the lookups
answer, under `LookupsAssumption`, for any documents, fields and widths of the
formats. The argument is about bytes:

- `Parts(a, b, i)`: two byte strings are equal before `i`, and there `a` has the
  smaller byte. Unlike the order of strings alone this survives whatever stands
  before and after both (`PartsBehind`, `PartsBefore`), and neither string can
  begin with the other (`PartsBelow`).
- The bytes of numbers, the high ones first, part in the order of the numbers
  (`BigEndianOrder`) and are read back (`NumberIsReadBack`); both come down to
  dividing by `ByteBase` again and again (`Shifted`). With the sign flipped an i64
  keeps its order, and a varint of one byte's length begins with that length
  (`VarintIs`); so encoded values part the way `Less` orders the values
  (`ValueOrder`), and `ToPyxValue` changes none of them (`SignedIs`).
- Of two sequences of values the first that differ decide (`FlatParts`,
  `ValuesPart`): no key of other values begins with the encoding that `find_one`
  looks for, whatever the number of fields.
- `KeysAre` takes `IndexInv` to the keys: one for each document with values that can
  be indexed. `KeyAndBound` says where a key is against a bound with and without
  the padding, which lies behind every id because ids stay below it
  (`PastIdsIs`); `Enumerated` that the keys of a range have an order to be read in.

`BTreeProofs` proves for any number of keys, sizes of keys and entries, heights,
trees and lengths of transactions `TreeInvariant`, `GetsAreLookups`,
`WalksAreSorted` and `TypeCorrect`.

- `SearchTree(n, lo, hi, h, f)` says what a subtree is: its keys lie in `lo..hi-1`,
  its separators bound its children, no way down is longer than `h`, no leaf is
  empty or too large, and its leaves hold what the map `f` has between the bounds.
  There is no recursion in it: a subtree is a member of some set of nodes that is
  `Closed`, that is, has with each node its children, bounded and one lower.
- `DescentIs`, `Reaches` and `GetIs` say what a descent finds, by induction on levels.
- `Result` says what an operation makes of a subtree: nothing, a search tree, or two
  with a separator between them. A leaf with one entry more or one less gives one
  (`LeafBecomes`), and each level of the way back up turns one into another
  (`JoinedIs`): a child replaced, one more child, a node cut in two, a child
  dropped, a node with one child that gives way to it. `RebuiltIs` goes up all levels.
- A node that is too full is cut with something left on either side because an
  entry takes at most a third of a page (`BalancedIs`, `BalancedCuts`). That both
  halves of a leaf fit is not a matter of arithmetic, since they are made equal
  without their slots: it is what a put is tested for (`LeavesFit`), and one that
  fails the test changes no tree (`RefusalKeepsTreeInv`). Both halves of an internal
  node do fit when a separator takes at most a fifth of it (`BalancedFits`).
- `Squeezed`: what `PutByDescent` leaves is no higher than its ways down are long,
  so that the guard on `MaxHeight` keeps the height that the invariant speaks of.
- The hint's leaf is the leaf of a descent for each key that the hint is offered
  (`MayOffer`), and keys that lead to one leaf share the way to it (`SameWay`), so
  the append fast path does what a descent does (`AppendIs`).
- `Stands(stack, lo, hi, x, f)` says what the iterator's stack is: each frame a search
  tree with its bounds, the frames below the top internal nodes whose next child
  begins where what is above them ends, and on top a leaf at its first key that is
  not below `x`. `DescendToStands` is that a descent leaves such a stack, by
  induction on heights, `Exhausted` that popped frames hide no key, and `RoundGives`,
  `RoundEnters` and `RoundEnds` are the three things a round can do; with a count
  of rounds (`RoundsAreEnough`) the walk ends with all entries (`WalkEnds`).

The hypothesis of all four is `AnyOrder = FALSE`: finding 4 shows that they are
false without it. `TypeCorrect` has another one, `ShortKeys`, that a separator
takes at most a fifth of an internal node: two halves of a node that is too full,
made equal without their slots, then fit. The code's limits give it (a key of 256
bytes with 8 around it, slot included, in 4080), and `ConstantsAssumption` asks
for half a node only, for the sake of the small nodes of the `btree` runs, where
TLC checks the same property.

A leaf that takes a prover more than about two seconds names that prover and a
limit of its own (`SMTT(30)`, `ZenonT(40)`), so that the proofs are also found on a
slower or busier machine.

Model-checked only: `SyncReturns`, `CallsEnd` and `EveryRequestAnswered` (liveness
under fairness is beyond the prover); `DocsReadBack`, about a codec that recurses
over a document's structure with RECURSIVE operators, which the prover does not
take.

## 6. Not modelled

- Power loss beyond what `GroupCommit` says of fsync: torn or reordered writes of
  the WAL, the data file and the header, page 0 as the seed of a lost `-shm`, a
  stale `-shm`, and the LSN counter after a replay beside a live peer. The code
  relies on the file system there for orders it does not enforce, and a model
  would state the file system rather than pyx.
- `createCollection` and the caches of names; `backup`.
- Index lookups in a snapshot or an optimistic transaction through the binding
  (they read the snapshot's tree with the live list of indexes), and the lifetime
  of iterator and snapshot handles; `_ffi.py`'s declarations and the C extension.
- `json.zig`, the command line, the benchmarks, `setup.py`: conversions, callers
  and build scripts with no logic of the store.
- The free list, which only the pager's tests use; `close_db`, which nothing
  in the application calls.
