----------------------------- MODULE SharedPager -----------------------------
(***************************************************************************)
(* Several processes on one pyx file (pager.zig, wal.zig, db.zig).         *)
(*                                                                         *)
(* The processes share the data file, the WAL and the -shm counters, and   *)
(* coordinate by fcntl locks: byte 0, SHARED by a commit and EXCL by an    *)
(* open (over its WAL replay) or a checkpoint; byte 16+i by a commit in    *)
(* collection i; byte 8 by the WAL append.  Inside a process db.mu lets    *)
(* one operation run at a time, so that a process is one thread of control *)
(* here; its snapshots stay open beside it.                                *)
(*                                                                         *)
(* A B+Tree is copy-on-write and is abstracted to its root page, which     *)
(* holds for each key the transaction that wrote it last.  A transaction   *)
(* writes one key.  A WAL record stands for a PUT with its COMMIT and is   *)
(* one unit long; Hole is the run of zeros a write past the end of the     *)
(* file leaves.  This module is the view of the operating system: processes*)
(* crash, the kernel does not.  Then every byte written is read back.  The *)
(* length of wal is shm.wal_end_offset: what a half-done reset cuts off    *)
(* below it is read as no record, and is a hole once it is written beyond. *)
(***************************************************************************)
EXTENDS Integers, Sequences, FiniteSetsExt

CONSTANTS
    Procs,           \* processes
    NoProc,          \* "the lock is free"
    Hole,            \* zeros in the WAL file
    NumColls,        \* collections in use: slots 0..NumColls-1 of shm
    Keys,
    MaxTxns,         \* bound: transactions begun
    MaxOpens,        \* bound: opens of the file; the last may not end
    MaxCrashes,      \* bound: processes that die
    MaxAborts,       \* bound: transactions that fail and are aborted
    MaxReplayErrors, \* bound: replays that fail
    ResetMayFail     \* TRUE: the sync of a truncated WAL may fail

ASSUME ConstantsAssumption ==
    /\ IsFiniteSet(Procs) /\ NoProc \notin Procs
    /\ Keys # {}
    /\ NumColls \in Nat \ {0}
    /\ MaxTxns \in Nat /\ MaxOpens \in Nat /\ MaxCrashes \in Nat
    /\ MaxAborts \in Nat /\ MaxReplayErrors \in Nat
    /\ ResetMayFail \in BOOLEAN

VARIABLES
    pc,             \* what each process is doing
    txn,            \* its transaction: Pager's in-process header and dirty page
    excl,           \* holder of byte 0 EXCL
    shared,         \* holders of byte 0 SHARED
    writer,         \* holder of byte 16+i, for each collection i
    numPages,       \* shm.num_pages
    roots,          \* shm.collections[i].btree_root
    file,           \* the data file's pages, 1 and up
    wal,            \* the WAL file's records
    walEnd,         \* Wal.end_offset of each process
    pos,            \* how far each process' replay has come
    snap,           \* the roots captured by each process' snapshot
    nextTxn, opens, crashes, aborts, replayErrors,
    published       \* for each collection and key, its last published writer

vars == <<pc, txn, excl, shared, writer, numPages, roots, file, wal, walEnd,
          pos, snap, nextTxn, opens, crashes, aborts, replayErrors, published>>

locks == <<excl, shared, writer>>
shm == <<numPages, roots>>
log == <<wal, walEnd, pos>>
counts == <<nextTxn, opens, crashes, aborts, replayErrors>>

Colls == 0..(NumColls - 1)
Txns == 1..MaxTxns
Pages == 1..(MaxTxns * (MaxOpens + 1))
Trees == [Keys -> 0..MaxTxns]
EmptyTree == [k \in Keys |-> 0]
Records == [coll : Colls, key : Keys, id : Txns]

\* Zeros are no record: their checksum does not match.
ASSUME HoleAssumption == Hole \notin Records

\* The tree under a root; root 0 is the empty tree.
Tree(root) == IF root = 0 THEN EmptyTree ELSE file[root]

NoTxn == [coll |-> 0, id |-> 0, base |-> 0, pages |-> 0, page |-> 0,
          put |-> <<>>, tree |-> EmptyTree]

Init ==
    /\ pc = [p \in Procs |-> "closed"]
    /\ txn = [p \in Procs |-> NoTxn]
    /\ excl = NoProc
    /\ shared = {}
    /\ writer = [c \in Colls |-> NoProc]
    /\ numPages = 1
    /\ roots = [c \in Colls |-> 0]
    /\ file = [g \in Pages |-> EmptyTree]
    /\ wal = <<>>
    /\ walEnd = [p \in Procs |-> 0]
    /\ pos = [p \in Procs |-> 0]
    /\ snap = [p \in Procs |-> <<>>]
    /\ nextTxn = 1 /\ opens = 0 /\ crashes = 0 /\ aborts = 0 /\ replayErrors = 0
    /\ published = [c \in Colls |-> EmptyTree]

Goto(p, label) == pc' = [pc EXCEPT ![p] = label]

\* shm.collections[c].btree_root.store.
StoreRoot(c, page) == roots' = [roots EXCEPT ![c] = page]

\* The end of a transaction: byte 16+coll and byte 0 are released.
Finish(p) ==
    /\ writer' = [writer EXCEPT ![txn[p].coll] = NoProc]
    /\ shared' = shared \ {p}
    /\ txn' = [txn EXCEPT ![p] = NoTxn]
    /\ Goto(p, "idle")
    /\ UNCHANGED excl

-----------------------------------------------------------------------------
(* A commit: Collection.insert, put and their kin, under db.mu.             *)

\* Transactions begun that have not taken their number yet.
Waiting == {p \in Procs : pc[p] \in {"begin", "locked"}}

\* Pager.begin: byte 0 SHARED, waiting while it is held EXCL.
BeginShared(p, c) ==
    /\ pc[p] = "idle"
    /\ nextTxn + Cardinality(Waiting) <= MaxTxns
    /\ excl = NoProc
    /\ shared' = shared \cup {p}
    /\ txn' = [txn EXCEPT ![p].coll = c]
    /\ Goto(p, "begin")
    /\ UNCHANGED <<excl, writer, shm, file, log, snap, counts, published>>

\* Pager.begin: byte 16+coll, waiting for the collection's other writer.
BeginWriter(p) ==
    /\ pc[p] = "begin"
    /\ writer[txn[p].coll] = NoProc
    /\ writer' = [writer EXCEPT ![txn[p].coll] = p]
    /\ Goto(p, "locked")
    /\ UNCHANGED <<txn, excl, shared, shm, file, log, snap, counts, published>>

\* Fault seeded for TLC: the number is taken after the increment.
RefreshOffByOne(p) ==
    /\ pc[p] = "locked"
    /\ txn' = [txn EXCEPT ![p].base = roots[txn[p].coll],
                          ![p].pages = numPages,
                          ![p].id = nextTxn + 1]
    /\ nextTxn' = nextTxn + 1
    /\ Goto(p, "txn")
    /\ UNCHANGED <<locks, shm, file, log, snap, opens, crashes, aborts, replayErrors, published>>

\* Pager.begin: refresh the header from shm and keep it for an abort.
Refresh(p) ==
    /\ pc[p] = "locked"
    /\ txn' = [txn EXCEPT ![p].base = roots[txn[p].coll],
                          ![p].pages = numPages,
                          ![p].id = nextTxn]
    /\ nextTxn' = nextTxn + 1
    /\ Goto(p, "txn")
    /\ UNCHANGED <<locks, shm, file, log, snap, opens, crashes, aborts, replayErrors, published>>

\* Fault seeded for TLC: a page is taken from the header, not from shm.
PutFromHeader(p, k) ==
    /\ pc[p] = "txn"
    /\ txn' = [txn EXCEPT ![p].put = <<k>>,
                          ![p].page = txn[p].pages,
                          ![p].tree = [Tree(txn[p].base) EXCEPT ![k] = txn[p].id]]
    /\ numPages' = Max({numPages, txn[p].pages + 1})
    /\ Goto(p, "dirty")
    /\ UNCHANGED <<locks, roots, file, log, snap, counts, published>>

\* BTree.put: copy the path to a page allocated with fetchAdd, in memory.
Put(p, k) ==
    /\ pc[p] = "txn"
    /\ txn' = [txn EXCEPT ![p].put = <<k>>,
                          ![p].page = numPages,
                          ![p].tree = [Tree(txn[p].base) EXCEPT ![k] = txn[p].id]]
    /\ numPages' = numPages + 1
    /\ Goto(p, "dirty")
    /\ UNCHANGED <<locks, roots, file, log, snap, counts, published>>

\* Pager.commitAppend: under byte 8, Wal.flush takes the larger of its own
\* end and shm's, and writes there.
CommitAppend(p) ==
    /\ pc[p] = "dirty"
    /\ LET end == Max({walEnd[p], Len(wal)})
           rec == [coll |-> txn[p].coll, key |-> Head(txn[p].put), id |-> txn[p].id]
       IN /\ wal' = [i \in 1..end |-> IF i <= Len(wal) THEN wal[i] ELSE Hole] \o <<rec>>
          /\ walEnd' = [walEnd EXCEPT ![p] = end + 1]
    /\ Goto(p, "appended")
    /\ UNCHANGED <<txn, locks, shm, file, pos, snap, counts, published>>

\* Pager.applyAndFinalize: the dirty page goes to the data file.
WritePages(p) ==
    /\ pc[p] = "appended"
    /\ file' = [file EXCEPT ![txn[p].page] = txn[p].tree]
    /\ Goto(p, "written")
    /\ UNCHANGED <<txn, locks, shm, log, snap, counts, published>>

\* Pager.applyAndFinalize: store the root, release the locks.
Publish(p) ==
    /\ pc[p] = "written"
    /\ StoreRoot(txn[p].coll, txn[p].page)
    /\ published' = [published EXCEPT ![txn[p].coll][Head(txn[p].put)] = txn[p].id]
    /\ Finish(p)
    /\ UNCHANGED <<numPages, file, log, snap, counts>>

\* A step of the operation fails: errdefer Pager.abort rolls num_pages back.
\* After the append the record stays in the WAL.
Abort(p) ==
    /\ pc[p] \in {"txn", "dirty", "appended", "written"}
    /\ aborts < MaxAborts
    /\ aborts' = aborts + 1
    /\ numPages' = txn[p].pages
    /\ Finish(p)
    /\ UNCHANGED <<roots, file, log, snap, nextTxn, opens, crashes, replayErrors, published>>

-----------------------------------------------------------------------------
(* Db.snapshot, outside a transaction.                                      *)

\* Under db.mu; flushForSnapshot has nothing to write, see README.
SnapshotBegin(p) ==
    /\ pc[p] = "idle"
    /\ snap[p] = <<>>
    /\ Goto(p, "capture")
    /\ UNCHANGED <<txn, locks, shm, file, log, snap, counts, published>>

\* The loop over the slots: one atomic load each.
SnapshotSlot(p) ==
    /\ pc[p] = "capture"
    /\ LET slot == Len(snap[p])
       IN /\ snap' = [snap EXCEPT ![p] = Append(@, roots[slot])]
          /\ Goto(p, IF slot + 1 = NumColls THEN "idle" ELSE "capture")
    /\ UNCHANGED <<txn, locks, shm, file, log, counts, published>>

\* Snapshot.close.
SnapshotClose(p) ==
    /\ pc[p] = "idle"
    /\ snap[p] # <<>>
    /\ snap' = [snap EXCEPT ![p] = <<>>]
    /\ UNCHANGED <<pc, txn, locks, shm, file, log, counts, published>>

-----------------------------------------------------------------------------
(* Db.checkpoint; Db.close ends in one.                                     *)

\* Db.close: the process' snapshots are closed before; another open follows.
MayLeave(p) == snap[p] = <<>> /\ opens < MaxOpens

\* Byte 0 EXCL, waiting for every commit and open to end; then byte 8, free.
CheckpointLock(p) ==
    /\ pc[p] = "idle"
    /\ excl = NoProc /\ shared = {}
    /\ excl' = p
    /\ Goto(p, "checkpoint")
    /\ UNCHANGED <<txn, shared, writer, shm, file, log, snap, counts, published>>

\* Sync the data file, Wal.reset.  Db.close goes on to close the files.
CheckpointReset(p, label) ==
    /\ pc[p] = "checkpoint"
    /\ label = "closed" => MayLeave(p)
    /\ wal' = <<>>
    /\ walEnd' = [walEnd EXCEPT ![p] = 0]
    /\ excl' = NoProc
    /\ Goto(p, label)
    /\ UNCHANGED <<txn, shared, writer, shm, file, pos, snap, counts, published>>

\* The data file's sync fails, or Wal.reset's setLength: the WAL is kept.
\* Or the sync after setLength fails: the records are gone, end_offset and
\* its copy in shm are not set back.  Db.close ignores the error.
CheckpointFail(p, label) ==
    /\ pc[p] = "checkpoint"
    /\ label = "closed" => MayLeave(p)
    /\ \/ wal' = wal
       \/ ResetMayFail /\ wal' = [i \in DOMAIN wal |-> Hole]
    /\ walEnd' = [walEnd EXCEPT ![p] = IF label = "closed" THEN 0 ELSE @]
    /\ excl' = NoProc
    /\ Goto(p, label)
    /\ UNCHANGED <<txn, shared, writer, shm, file, pos, snap, counts, published>>

-----------------------------------------------------------------------------
(* Db.open: Pager.open, replayWal, finishOpen.                              *)

\* Fault seeded for TLC: commits under byte 0 SHARED are not waited for.
OpenLockUnshared(p) ==
    /\ pc[p] = "closed"
    /\ opens < MaxOpens
    /\ opens' = opens + 1
    /\ excl = NoProc
    /\ excl' = p
    /\ walEnd' = [walEnd EXCEPT ![p] = Len(wal)]
    /\ Goto(p, "opening")
    /\ UNCHANGED <<txn, shared, writer, shm, file, wal, pos, snap,
                   nextTxn, crashes, aborts, replayErrors, published>>

\* Byte 0 EXCL; the live -shm is trusted, the WAL's end taken from it.
OpenLock(p) ==
    /\ pc[p] = "closed"
    /\ opens < MaxOpens
    /\ opens' = opens + 1
    /\ excl = NoProc /\ shared = {}
    /\ excl' = p
    /\ walEnd' = [walEnd EXCEPT ![p] = Len(wal)]
    /\ Goto(p, "opening")
    /\ UNCHANGED <<txn, shared, writer, shm, file, wal, pos, snap,
                   nextTxn, crashes, aborts, replayErrors, published>>

\* The records before the first hole: replay's pass 1 stops there.
GoodPrefix == Max({n \in 0..Len(wal) : \A i \in 1..n : wal[i] # Hole})

\* Fault seeded for TLC: the scan drops the last good COMMIT.
ReplayScanShort(p) ==
    /\ pc[p] = "opening"
    /\ wal # <<>>
    /\ LET n == Max({0, GoodPrefix - 1})
       IN /\ wal' = SubSeq(wal, 1, n)
          /\ walEnd' = [walEnd EXCEPT ![p] = n]
    /\ pos' = [pos EXCEPT ![p] = 1]
    /\ Goto(p, "replay")
    /\ UNCHANGED <<txn, locks, shm, file, snap, counts, published>>

\* Wal.replay's pass 1: truncate behind the last good COMMIT.
ReplayScan(p) ==
    /\ pc[p] = "opening"
    /\ wal # <<>>
    /\ wal' = SubSeq(wal, 1, GoodPrefix)
    /\ walEnd' = [walEnd EXCEPT ![p] = GoodPrefix]
    /\ pos' = [pos EXCEPT ![p] = 1]
    /\ Goto(p, "replay")
    /\ UNCHANGED <<txn, locks, shm, file, snap, counts, published>>

\* Pass 2: BTree.put re-executes a record as a commit of its own, without
\* WAL or locks, and stores the root.
ReplayRecord(p) ==
    /\ pc[p] = "replay"
    /\ pos[p] <= Len(wal)
    /\ LET rec == wal[pos[p]]
       IN /\ file' = [file EXCEPT ![numPages] =
                         [Tree(roots[rec.coll]) EXCEPT ![rec.key] = rec.id]]
          /\ StoreRoot(rec.coll, numPages)
    /\ numPages' = numPages + 1
    /\ pos' = [pos EXCEPT ![p] = @ + 1]
    /\ UNCHANGED <<pc, txn, locks, wal, walEnd, snap, counts, published>>

\* replayWal returns an error: Db.open's errdefer closes the pager, and
\* Pager.close checkpoints, which resets the WAL.
ReplayError(p) ==
    /\ pc[p] \in {"opening", "replay"}
    /\ wal # <<>>
    /\ replayErrors < MaxReplayErrors
    /\ opens < MaxOpens
    /\ replayErrors' = replayErrors + 1
    /\ wal' = <<>>
    /\ walEnd' = [walEnd EXCEPT ![p] = 0]
    /\ pos' = [pos EXCEPT ![p] = 0]
    /\ excl' = NoProc
    /\ Goto(p, "closed")
    /\ UNCHANGED <<txn, shared, writer, shm, file, snap, nextTxn, opens, crashes, aborts, published>>

\* An empty WAL needs no replay; after one, Pager.checkpoint resets it.
OpenDone(p) ==
    /\ \/ pc[p] = "opening" /\ wal = <<>>
       \/ pc[p] = "replay" /\ pos[p] > Len(wal)
    /\ wal' = <<>>
    /\ walEnd' = [walEnd EXCEPT ![p] = 0]
    /\ pos' = [pos EXCEPT ![p] = 0]
    /\ excl' = NoProc
    /\ Goto(p, "idle")
    /\ UNCHANGED <<txn, shared, writer, shm, file, snap, counts, published>>

-----------------------------------------------------------------------------
\* A process dies: the kernel drops its locks; shm and the files stay.
Crash(p) ==
    /\ pc[p] # "closed"
    /\ opens < MaxOpens
    /\ crashes < MaxCrashes
    /\ crashes' = crashes + 1
    /\ Goto(p, "closed")
    /\ txn' = [txn EXCEPT ![p] = NoTxn]
    /\ excl' = IF excl = p THEN NoProc ELSE excl
    /\ shared' = shared \ {p}
    /\ writer' = [c \in Colls |-> IF writer[c] = p THEN NoProc ELSE writer[c]]
    /\ walEnd' = [walEnd EXCEPT ![p] = 0]
    /\ pos' = [pos EXCEPT ![p] = 0]
    /\ snap' = [snap EXCEPT ![p] = <<>>]
    /\ UNCHANGED <<shm, file, wal, nextTxn, opens, aborts, replayErrors, published>>

Commit(p) ==
    \/ \E c \in Colls : BeginShared(p, c)
    \/ BeginWriter(p) \/ Refresh(p)
    \/ \E k \in Keys : Put(p, k)
    \/ CommitAppend(p) \/ WritePages(p) \/ Publish(p) \/ Abort(p)

Snapshot(p) == SnapshotBegin(p) \/ SnapshotSlot(p) \/ SnapshotClose(p)

Checkpoint(p) ==
    \/ CheckpointLock(p)
    \/ \E label \in {"idle", "closed"} : CheckpointReset(p, label) \/ CheckpointFail(p, label)

Open(p) ==
    \/ OpenLock(p) \/ ReplayScan(p) \/ ReplayRecord(p) \/ ReplayError(p) \/ OpenDone(p)

Next == \E p \in Procs : Commit(p) \/ Snapshot(p) \/ Checkpoint(p) \/ Open(p) \/ Crash(p)

Spec == Init /\ [][Next]_vars

-----------------------------------------------------------------------------
Pcs == {"closed", "opening", "replay", "idle", "capture", "checkpoint",
        "begin", "locked", "txn", "dirty", "appended", "written"}

Transactions ==
    [coll : Colls, id : 0..MaxTxns, base : {0} \cup Pages, pages : Nat, page : {0} \cup Pages,
     put : {<<>>} \cup {<<k>> : k \in Keys}, tree : Trees]

TypeOK ==
    /\ pc \in [Procs -> Pcs]
    /\ txn \in [Procs -> Transactions]
    /\ excl \in Procs \cup {NoProc}
    /\ shared \subseteq Procs
    /\ writer \in [Colls -> Procs \cup {NoProc}]
    /\ numPages \in Nat \ {0}
    /\ roots \in [Colls -> {0} \cup Pages]
    /\ file \in [Pages -> Trees]
    /\ wal \in Seq(Records \cup {Hole})
    /\ walEnd \in [Procs -> Nat] /\ pos \in [Procs -> Nat]
    /\ snap \in [Procs -> Seq({0} \cup Pages)]
    /\ nextTxn \in 1..(MaxTxns + 1)
    /\ opens \in 0..MaxOpens /\ crashes \in 0..MaxCrashes
    /\ aborts \in 0..MaxAborts /\ replayErrors \in 0..MaxReplayErrors
    /\ published \in [Colls -> Trees]

\* Pages some reader may be walking: live trees and open snapshots.
Reachable ==
    ({roots[c] : c \in Colls} \cup UNION {{snap[p][i] : i \in DOMAIN snap[p]} : p \in Procs})
        \ {0}

(* "Pages reachable from the captured root are never mutated ... even when  *)
(* [the] writers are in a different process" (README.md:334-337), across    *)
(* commits, aborts, replays and crashes; live roots included.               *)
PagesImmutable == [][\A g \in Reachable : file'[g] = file[g]]_vars

(* A commit or a replayed record builds on the collection's latest tree:    *)
(* what is published differs from what was live in one key, so no other     *)
(* process' write is lost (pager.zig:513-534, 547-551).                     *)
BuildsOnLatest ==
    [][\A c \in Colls : \E k \in Keys : \A j \in Keys \ {k} :
           Tree(roots[c])[j] = Tree(roots[c])'[j]]_vars

(* Every live root passes Pager.read's bound on page ids (pager.zig:884):   *)
(* the roll-back of num_pages by one transaction's abort never cuts off     *)
(* another's tree (pager.zig:732-736).                                      *)
LiveRootsReadable == \A c \in Colls : roots[c] < numPages

Replaying == \E p \in Procs : pc[p] \in {"opening", "replay"}

(* Once some process has the file open and no replay is running, the live   *)
(* trees hold every published write, or a later one to the key: opening the *)
(* file, after crashes or beside live processes, undoes no commit           *)
(* (wal.zig:3-6, 412-415).                                                  *)
CommittedKept ==
    (\E p \in Procs : pc[p] = "idle") /\ ~Replaying =>
        \A c \in Colls, k \in Keys : Tree(roots[c])[k] >= published[c][k]

(* The same until a replay fails half way and its database is closed, which *)
(* throws the rest of the WAL away (db.zig:222).                            *)
KeptUntilReplayFails == replayErrors = 0 => CommittedKept

=============================================================================
