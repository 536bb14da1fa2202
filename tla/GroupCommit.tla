---------------------------- MODULE GroupCommit ----------------------------
(***************************************************************************)
(* The durability queue of one pyx process (wal.zig, pager.zig, db.zig).   *)
(*                                                                         *)
(* A writer appends its records to the WAL and applies its pages to the    *)
(* data file under the data lock db.mu, releases db.mu and only then calls *)
(* Wal.syncToLsn.  There the writers race: the first becomes the leader    *)
(* and issues one fsync for all of them, the others wait on sync_cv.  A    *)
(* checkpoint, also under db.mu, syncs the data file and truncates the WAL *)
(* while a leader may still be inside its fsync; when the truncation is    *)
(* done but its sync fails, the append cursor stays where it was, and what *)
(* is written from then on lies behind a hole that a replay does not pass. *)
(*                                                                         *)
(* A transaction is its COMMIT record's LSN: no other LSN is ever compared *)
(* by this code.  The kernel is modelled by what fsync promises: walCache  *)
(* is what a replay of the WAL file would find, walDisk what it would find *)
(* after a power loss.  A truncation is taken to be on disk at once: all   *)
(* it drops is in the data file by then.                                   *)
(* sync_mu is held only over straight-line code, so that every critical    *)
(* section under it is one action; db.mu is held over several and is a     *)
(* variable.                                                               *)
(***************************************************************************)
EXTENDS Integers, FiniteSets

CONSTANTS
    Threads,        \* the writer threads of the process
    NoThread,       \* "db.mu is free"
    MaxLsn,         \* bound: the number of commits attempted in a behaviour
    FsyncIsBarrier, \* TRUE: fsync covers every write that completed before it
                    \* returned (the comment at wal.zig:347); FALSE: it is
                    \* only sure to cover what was written before the call
    ResetMayFail    \* TRUE: the sync of a truncated WAL may fail

ASSUME ConstantsAssumption ==
    /\ NoThread \notin Threads
    /\ MaxLsn \in Nat
    /\ FsyncIsBarrier \in BOOLEAN /\ ResetMayFail \in BOOLEAN

VARIABLES
    pc,                \* where each thread is
    mu,                \* holder of db.mu
    lsn,               \* the thread's commit_lsn
    nextLsn,           \* shm.nextLsn
    walCache,          \* commits a replay of the WAL file would find
    walDisk,           \* commits it would find after a power loss
    stale,             \* end_offset lies beyond the end of the truncated file
    behind,            \* commits in the WAL file behind the hole this leaves
    applied,           \* commits whose pages were pwritten to the data file
    dataDisk,          \* commits whose pages survive a power loss
    last_flushed_lsn,
    fsynced_lsn,
    leader_active,
    inFlight,          \* walCache at the time of the thread's fsync call
    watermark,         \* the leader's local copy of last_flushed_lsn
    acked              \* commits that were reported as successful

vars == <<pc, mu, lsn, nextLsn, walCache, walDisk, stale, behind, applied,
          dataDisk, last_flushed_lsn, fsynced_lsn, leader_active, inFlight,
          watermark, acked>>

wal == <<walCache, walDisk, stale, behind>>
files == <<wal, applied, dataDisk>>
queue == <<last_flushed_lsn, fsynced_lsn, leader_active>>
local == <<lsn, inFlight, watermark>>

Lsns == 1..MaxLsn

\* Threads that are inside the leader's part of the loop, sync_mu released.
LeaderPcs == {"fsync", "fsynced", "fsyncFailed", "credit", "creditFailed"}
\* Threads that hold db.mu: a commit being written, a checkpoint running.
WriterPcs == {"flushed", "published"}
CheckpointPcs == {"ckpt", "ckptSynced", "ckptTruncated"}
Pcs == {"idle", "enter", "parked"} \cup LeaderPcs \cup WriterPcs \cup CheckpointPcs

Goto(t, label) == pc' = [pc EXCEPT ![t] = label]

\* sync_cv.broadcast by thread t, which goes on at label: every parked thread
\* is woken and will take the loop's tests again.
Broadcast(t, label) ==
    pc' = [u \in Threads |-> IF u = t THEN label
                             ELSE IF pc[u] = "parked" THEN "enter" ELSE pc[u]]

Larger(a, b) == IF a > b THEN a ELSE b

\* The thread returns to its caller: its commit_lsn and watermark go out of
\* scope.
Leave(t) ==
    /\ lsn' = [lsn EXCEPT ![t] = 0]
    /\ watermark' = [watermark EXCEPT ![t] = 0]

Init ==
    /\ pc = [t \in Threads |-> "idle"]
    /\ mu = NoThread
    /\ lsn = [t \in Threads |-> 0]
    /\ nextLsn = 1
    /\ walCache = {} /\ walDisk = {}
    /\ stale = FALSE /\ behind = {}
    /\ applied = {} /\ dataDisk = {}
    /\ last_flushed_lsn = 0
    /\ fsynced_lsn = 0
    /\ leader_active = FALSE
    /\ inFlight = [t \in Threads |-> {}]
    /\ watermark = [t \in Threads |-> 0]
    /\ acked = {}

-----------------------------------------------------------------------------
(* The commit under db.mu: Collection.put and its kin, Pager.commitAppend,  *)
(* Pager.applyAndFinalize.                                                  *)

\* commitAppend: take db.mu and an LSN, write the batch with one pwritev at
\* end_offset.
Flush(t) ==
    /\ pc[t] = "idle"
    /\ mu = NoThread
    /\ nextLsn <= MaxLsn
    /\ mu' = t
    /\ lsn' = [lsn EXCEPT ![t] = nextLsn]
    /\ nextLsn' = nextLsn + 1
    /\ IF stale
       THEN behind' = behind \cup {nextLsn} /\ UNCHANGED walCache
       ELSE walCache' = walCache \cup {nextLsn} /\ UNCHANGED behind
    /\ Goto(t, "flushed")
    /\ UNCHANGED <<walDisk, stale, applied, dataDisk, queue, inFlight, watermark, acked>>

\* The pwritev fails: the batch is discarded, the transaction aborted, db.mu
\* released and the error returned.  The LSN is spent.
FlushFail(t) ==
    /\ pc[t] = "idle"
    /\ mu = NoThread
    /\ nextLsn <= MaxLsn
    /\ nextLsn' = nextLsn + 1
    /\ UNCHANGED <<pc, mu, files, queue, local, acked>>

\* Fault seeded for TLC: the LSN after the commit's is published.
PublishFlushedOffByOne(t) ==
    /\ pc[t] = "flushed"
    /\ last_flushed_lsn' = lsn[t] + 1
    /\ Goto(t, "published")
    /\ UNCHANGED <<mu, nextLsn, files, fsynced_lsn, leader_active, local, acked>>

\* Fault seeded for TLC: the high-water mark is not published.
PublishFlushedForgotten(t) ==
    /\ pc[t] = "flushed"
    /\ Goto(t, "published")
    /\ UNCHANGED <<mu, nextLsn, files, queue, local, acked>>

\* commitAppend's last act: publish the new high-water mark to the queue.
PublishFlushed(t) ==
    /\ pc[t] = "flushed"
    /\ last_flushed_lsn' = lsn[t]
    /\ Goto(t, "published")
    /\ UNCHANGED <<mu, nextLsn, files, fsynced_lsn, leader_active, local, acked>>

\* applyAndFinalize: the dirty pages reach the data file, db.mu is released
\* and the thread goes on to syncToLsn.
Apply(t) ==
    /\ pc[t] = "published"
    /\ applied' = applied \cup {lsn[t]}
    /\ mu' = NoThread
    /\ Goto(t, "enter")
    /\ UNCHANGED <<nextLsn, wal, dataDisk, queue, local, acked>>

\* A page write fails: abort, release db.mu, return the error.  The COMMIT
\* record stays in the WAL.
ApplyFail(t) ==
    /\ pc[t] = "published"
    /\ mu' = NoThread
    /\ Goto(t, "idle")
    /\ Leave(t)
    /\ UNCHANGED <<nextLsn, files, queue, inFlight, acked>>

-----------------------------------------------------------------------------
(* Wal.syncToLsn.                                                           *)

\* fsynced_lsn covers the commit: report success.
Return(t) ==
    /\ pc[t] = "enter"
    /\ fsynced_lsn >= lsn[t]
    /\ acked' = acked \cup {lsn[t]}
    /\ Goto(t, "idle")
    /\ Leave(t)
    /\ UNCHANGED <<mu, nextLsn, files, queue, inFlight>>

\* Fault seeded for TLC: leader_active is not tested.
BecomeLeaderUnchecked(t) ==
    /\ pc[t] = "enter"
    /\ fsynced_lsn < lsn[t]
    /\ leader_active' = TRUE
    /\ inFlight' = [inFlight EXCEPT ![t] = walCache]
    /\ Goto(t, "fsync")
    /\ UNCHANGED <<mu, lsn, nextLsn, files, last_flushed_lsn, fsynced_lsn,
                   watermark, acked>>

\* No leader: become it, release sync_mu, call fsync.
BecomeLeader(t) ==
    /\ pc[t] = "enter"
    /\ fsynced_lsn < lsn[t]
    /\ ~leader_active
    /\ leader_active' = TRUE
    /\ inFlight' = [inFlight EXCEPT ![t] = walCache]
    /\ Goto(t, "fsync")
    /\ UNCHANGED <<mu, lsn, nextLsn, files, last_flushed_lsn, fsynced_lsn,
                   watermark, acked>>

\* A leader is at work: wait on sync_cv.
Park(t) ==
    /\ pc[t] = "enter"
    /\ fsynced_lsn < lsn[t]
    /\ leader_active
    /\ Goto(t, "parked")
    /\ UNCHANGED <<mu, nextLsn, files, queue, local, acked>>

\* What an fsync that returns now has persisted: at least what was written
\* before the call and is still in the file, and any of what came since.
FsyncCovers(t, S) ==
    /\ S \subseteq walCache
    /\ inFlight[t] \cap walCache \subseteq S
    /\ FsyncIsBarrier => S = walCache

FsyncReturn(t) ==
    /\ pc[t] = "fsync"
    /\ \E S \in SUBSET walCache :
          /\ FsyncCovers(t, S)
          /\ walDisk' = walDisk \cup S
    /\ inFlight' = [inFlight EXCEPT ![t] = {}]
    /\ Goto(t, "fsynced")
    /\ UNCHANGED <<mu, lsn, nextLsn, walCache, stale, behind, applied, dataDisk,
                   queue, watermark, acked>>

\* fsync fails.  It may have persisted something; nothing is promised.
FsyncFail(t) ==
    /\ pc[t] = "fsync"
    /\ inFlight' = [inFlight EXCEPT ![t] = {}]
    /\ Goto(t, "fsyncFailed")
    /\ UNCHANGED <<mu, lsn, nextLsn, files, queue, watermark, acked>>

\* The leader loads last_flushed_lsn once fsync has returned, either way.
LoadWatermark(t) ==
    /\ pc[t] \in {"fsynced", "fsyncFailed"}
    /\ watermark' = [watermark EXCEPT ![t] = last_flushed_lsn]
    /\ Goto(t, IF pc[t] = "fsynced" THEN "credit" ELSE "creditFailed")
    /\ UNCHANGED <<mu, lsn, nextLsn, files, queue, inFlight, acked>>

\* Fault seeded for TLC: the leader leaves without a broadcast.
CreditSilent(t) ==
    /\ pc[t] = "credit"
    /\ leader_active' = FALSE
    /\ fsynced_lsn' = Larger(watermark[t], fsynced_lsn)
    /\ acked' = acked \cup {lsn[t]}
    /\ Goto(t, "idle")
    /\ Leave(t)
    /\ UNCHANGED <<mu, nextLsn, files, last_flushed_lsn, inFlight>>

\* Under sync_mu again: advance fsynced_lsn to the watermark, wake the
\* followers, and leave the loop if the own commit is covered.
Credit(t) ==
    /\ pc[t] = "credit"
    /\ leader_active' = FALSE
    /\ fsynced_lsn' = Larger(watermark[t], fsynced_lsn)
    /\ IF fsynced_lsn' >= lsn[t]
       THEN Broadcast(t, "idle") /\ Leave(t) /\ acked' = acked \cup {lsn[t]}
       ELSE Broadcast(t, "enter") /\ UNCHANGED <<lsn, watermark, acked>>
    /\ UNCHANGED <<mu, nextLsn, files, last_flushed_lsn, inFlight>>

\* Fault seeded for TLC: the error path does not wake the followers.
CreditFailedSilent(t) ==
    /\ pc[t] = "creditFailed"
    /\ leader_active' = FALSE
    /\ Goto(t, "idle")
    /\ Leave(t)
    /\ UNCHANGED <<mu, nextLsn, files, last_flushed_lsn, fsynced_lsn, inFlight, acked>>

\* The error path: wake the followers and return the error.
CreditFailed(t) ==
    /\ pc[t] = "creditFailed"
    /\ leader_active' = FALSE
    /\ Broadcast(t, "idle")
    /\ Leave(t)
    /\ UNCHANGED <<mu, nextLsn, files, last_flushed_lsn, fsynced_lsn, inFlight, acked>>

-----------------------------------------------------------------------------
(* Db.checkpoint, Pager.checkpoint, Wal.reset.                              *)

\* Fault seeded for TLC: the checkpoint does not take db.mu.
CheckpointBeginUnlocked(t) ==
    /\ pc[t] = "idle"
    /\ Goto(t, "ckpt")
    /\ UNCHANGED <<mu, nextLsn, files, queue, local, acked>>

CheckpointBegin(t) ==
    /\ pc[t] = "idle"
    /\ mu = NoThread
    /\ mu' = t
    /\ Goto(t, "ckpt")
    /\ UNCHANGED <<nextLsn, files, queue, local, acked>>

\* Fault seeded for TLC: the WAL is reset without the data file's sync.
CheckpointSyncSkipped(t) ==
    /\ pc[t] = "ckpt"
    /\ Goto(t, "ckptSynced")
    /\ UNCHANGED <<mu, nextLsn, files, queue, local, acked>>

\* file.sync: all that was written to the data file is durable.
CheckpointSync(t) ==
    /\ pc[t] = "ckpt"
    /\ dataDisk' = applied
    /\ Goto(t, "ckptSynced")
    /\ UNCHANGED <<mu, nextLsn, wal, applied, queue, local, acked>>

\* Wal.reset: setLength back to the WAL's header, with end_offset as it was.
CheckpointTruncate(t) ==
    /\ pc[t] = "ckptSynced"
    /\ walCache' = {} /\ walDisk' = {} /\ behind' = {}
    /\ stale' = (stale \/ walCache # {})
    /\ Goto(t, "ckptTruncated")
    /\ UNCHANGED <<mu, nextLsn, applied, dataDisk, queue, local, acked>>

\* Wal.reset's end: sync the WAL, set end_offset back; then, under sync_mu,
\* credit everything flushed and wake all.
CheckpointCredit(t) ==
    /\ pc[t] = "ckptTruncated"
    /\ stale' = FALSE
    /\ fsynced_lsn' = Larger(last_flushed_lsn, fsynced_lsn)
    /\ mu' = NoThread
    /\ Broadcast(t, "idle")
    /\ UNCHANGED <<nextLsn, walCache, walDisk, behind, applied, dataDisk,
                   last_flushed_lsn, leader_active, local, acked>>

\* The data file's sync, the WAL's setLength or the WAL's sync fails: the
\* error is returned at once, and nobody is credited or woken.
CheckpointFail(t) ==
    /\ pc[t] \in CheckpointPcs
    /\ pc[t] = "ckptTruncated" => ResetMayFail
    /\ mu' = NoThread
    /\ Goto(t, "idle")
    /\ UNCHANGED <<nextLsn, files, queue, local, acked>>

-----------------------------------------------------------------------------
Commit(t) == Flush(t) \/ FlushFail(t) \/ PublishFlushed(t) \/ Apply(t) \/ ApplyFail(t)

SyncToLsn(t) ==
    \/ Return(t) \/ BecomeLeader(t) \/ Park(t)
    \/ FsyncReturn(t) \/ FsyncFail(t) \/ LoadWatermark(t)
    \/ Credit(t) \/ CreditFailed(t)

Checkpoint(t) ==
    \/ CheckpointBegin(t) \/ CheckpointSync(t) \/ CheckpointFail(t)
    \/ CheckpointTruncate(t) \/ CheckpointCredit(t)

Next == \E t \in Threads : Commit(t) \/ SyncToLsn(t) \/ Checkpoint(t)

Spec == Init /\ [][Next]_vars

\* A thread inside syncToLsn keeps running: it is scheduled, gets sync_mu
\* (held for a few instructions only) and its fsync call returns, well or not.
\* Nothing is assumed of new commits or checkpoints.
Fairness == \A t \in Threads : WF_vars(SyncToLsn(t))

FairSpec == Spec /\ Fairness

-----------------------------------------------------------------------------
TypeOK ==
    /\ pc \in [Threads -> Pcs]
    /\ mu \in Threads \cup {NoThread}
    /\ lsn \in [Threads -> 0..MaxLsn]
    /\ nextLsn \in 1..(MaxLsn + 1)
    /\ walCache \subseteq Lsns /\ walDisk \subseteq Lsns
    /\ stale \in BOOLEAN /\ behind \subseteq Lsns
    /\ applied \subseteq Lsns /\ dataDisk \subseteq Lsns
    /\ last_flushed_lsn \in 0..MaxLsn
    /\ fsynced_lsn \in 0..MaxLsn
    /\ leader_active \in BOOLEAN
    /\ inFlight \in [Threads -> SUBSET Lsns]
    /\ watermark \in [Threads -> 0..MaxLsn]
    /\ acked \subseteq Lsns

\* A commit that a power loss would not undo.
Recoverable(l) == l \in walDisk \cup dataDisk

(* leader_active is a token held by exactly one thread (wal.zig:334-336,    *)
(* 353-354): two leaders would fsync twice and race on fsynced_lsn, and a   *)
(* token without a thread would park every later writer.                    *)
LeaderToken ==
    /\ leader_active <=> \E t \in Threads : pc[t] \in LeaderPcs
    /\ \A t, u \in Threads : pc[t] \in LeaderPcs /\ pc[u] \in LeaderPcs => t = u

(* No lost wakeup: a thread waits on sync_cv only while some leader is      *)
(* between taking the token and the broadcast that ends its term, on its    *)
(* error path too (wal.zig:358-365).                                        *)
NoLostWakeup ==
    \A t \in Threads :
        pc[t] = "parked" => \E u \in Threads : pc[u] \in LeaderPcs

(* A leader's own commit is always covered by the watermark it loads, so    *)
(* that one successful fsync is enough for it (wal.zig:351, the while loop  *)
(* at 333 never makes a leader go round twice).                             *)
LeaderCoversSelf ==
    \A t \in Threads : pc[t] \in {"credit", "creditFailed"} => watermark[t] >= lsn[t]

(* A thread that led a successful fsync has its own commit durable, with a  *)
(* checkpoint truncating the WAL under its fsync or not (wal.zig:339-357    *)
(* beside 399-416), unless it wrote the commit behind the hole of a reset   *)
(* that failed half way: what another's fsync credits is at risk, not this. *)
LeaderCommitDurable ==
    \A t \in Threads :
        pc[t] \in {"fsynced", "credit"} /\ lsn[t] \notin behind => Recoverable(lsn[t])

(* The same without the exception, as sync mode full promises it of every   *)
(* commit (pager.zig:178-179): one fsync after the append makes it durable. *)
LeaderFsyncSuffices ==
    \A t \in Threads : pc[t] \in {"fsynced", "credit"} => Recoverable(lsn[t])

(* What the comment at wal.zig:401-405 says of a checkpoint: when it raises *)
(* fsynced_lsn, every commit that raise covers is durable, although the WAL *)
(* it was written to is gone and its writer may be waiting in syncToLsn.    *)
CheckpointCreditsDurable ==
    [][\A t \in Threads : pc[t] = "ckptTruncated" /\ pc'[t] = "idle" =>
           \A l \in applied : l <= fsynced_lsn' => Recoverable(l)']_vars

(* Truncating the WAL never gives up a durable commit (pager.zig:467-481):  *)
(* what would survive a power loss before a step survives one after it,     *)
(* whatever leaders and writers the checkpoint runs beside.                 *)
DurabilityIsStable ==
    [][\A l \in applied : Recoverable(l) => Recoverable(l)']_vars

(* Every thread that calls syncToLsn returns, with success or an error.     *)
SyncReturns ==
    \A t \in Threads : pc[t] = "enter" ~> pc[t] = "idle"

(* What sync mode full promises (pager.zig:185, wal.zig:91-95): a commit    *)
(* reported as successful survives a power loss.                            *)
AckedDurable == \A l \in acked : Recoverable(l)

=============================================================================
