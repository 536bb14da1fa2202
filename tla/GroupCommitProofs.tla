------------------------- MODULE GroupCommitProofs -------------------------
(***************************************************************************)
(* What GroupCommit guarantees for any set of threads, any number of       *)
(* commits and either reading of fsync, proved with TLAPS.                 *)
(*                                                                         *)
(* Each theorem rests on one inductive invariant, IInv: the type, who      *)
(* holds db.mu (Holders), who leads (Queue), how the LSNs of the threads   *)
(* relate to last_flushed_lsn (Marks), and where the bytes of a commit     *)
(* are (Placement).                                                        *)
(***************************************************************************)
EXTENDS GroupCommit, TLAPS

\* Threads past applyAndFinalize, inside syncToLsn.
SyncPcs == {"enter", "parked"} \cup LeaderPcs

\* A thread with a commit under way knows its LSN.
Active ==
    \A t \in Threads : pc[t] \in WriterPcs \cup SyncPcs => lsn[t] \in Lsns

Holders ==
    \A t \in Threads : mu = t <=> pc[t] \in WriterPcs \cup CheckpointPcs

Queue ==
    /\ LeaderToken
    /\ \A t \in Threads : pc[t] = "parked" => leader_active

Marks ==
    /\ last_flushed_lsn < nextLsn
    /\ \A t \in Threads :
          /\ pc[t] = "flushed" => /\ lsn[t] + 1 = nextLsn
                                  /\ last_flushed_lsn < lsn[t]
          /\ pc[t] \in {"published"} \cup SyncPcs => lsn[t] <= last_flushed_lsn
          /\ pc[t] \in {"credit", "creditFailed"} => lsn[t] <= watermark[t]

Placement ==
    /\ dataDisk \subseteq applied
    /\ applied \subseteq walCache \cup behind \cup dataDisk
    /\ \A t \in Threads :
          /\ pc[t] \in WriterPcs => lsn[t] \in walCache \cup behind
          /\ pc[t] \in {"ckptSynced", "ckptTruncated"} => applied \subseteq dataDisk
          /\ pc[t] \in SyncPcs => lsn[t] \in applied
          /\ pc[t] = "fsync" => lsn[t] \in inFlight[t] \cup behind \cup dataDisk
          /\ pc[t] \in {"fsynced", "credit"} => lsn[t] \in walDisk \cup behind \cup dataDisk

IInv == TypeOK /\ Active /\ Holders /\ Queue /\ Marks /\ Placement

(* Every step keeps the type. *)
LEMMA TypeStep == TypeOK /\ Active /\ [Next]_vars => TypeOK'
<1> SUFFICES ASSUME TypeOK /\ Active, [Next]_vars PROVE TypeOK'
  OBVIOUS
<1> USE ConstantsAssumption DEF TypeOK, Active, Lsns, SyncPcs, Pcs, LeaderPcs, WriterPcs, CheckpointPcs
<1>1. ASSUME NEW t \in Threads, Flush(t) PROVE TypeOK'
  <2>1. nextLsn \in Lsns
    BY <1>1 DEF Flush
  <2>2. walCache' \subseteq Lsns /\ behind' \subseteq Lsns
    BY <1>1, <2>1 DEF Flush
  <2> QED
    BY <1>1, <2>1, <2>2 DEF Flush, Goto, files, wal, queue, local
<1>2. ASSUME NEW t \in Threads, FlushFail(t) PROVE TypeOK'
  BY <1>2 DEF FlushFail, files, wal, queue, local
<1>3. ASSUME NEW t \in Threads, PublishFlushed(t) PROVE TypeOK'
  BY <1>3 DEF PublishFlushed, Goto, files, wal, queue, local
<1>4. ASSUME NEW t \in Threads, Apply(t) PROVE TypeOK'
  BY <1>4 DEF Apply, Goto, files, wal, queue, local
<1>5. ASSUME NEW t \in Threads, ApplyFail(t) PROVE TypeOK'
  BY <1>5 DEF ApplyFail, Goto, Leave, files, wal, queue, local
<1>6. ASSUME NEW t \in Threads, Return(t) PROVE TypeOK'
  <2>1. lsn[t] \in Lsns
    BY <1>6 DEF Return
  <2>2. lsn' \in [Threads -> 0..MaxLsn] /\ watermark' \in [Threads -> 0..MaxLsn]
    BY <1>6 DEF Return, Leave
  <2>3. QED
    BY <1>6, <2>1, <2>2 DEF Return, Goto, files, wal, queue
<1>7. ASSUME NEW t \in Threads, BecomeLeader(t) PROVE TypeOK'
  BY <1>7 DEF BecomeLeader, Goto, files, wal, queue, local
<1>8. ASSUME NEW t \in Threads, Park(t) PROVE TypeOK'
  BY <1>8 DEF Park, Goto, files, wal, queue, local
<1>9. ASSUME NEW t \in Threads, FsyncReturn(t) PROVE TypeOK'
  BY <1>9 DEF FsyncReturn, Goto, FsyncCovers, files, wal, queue, local
<1>10. ASSUME NEW t \in Threads, FsyncFail(t) PROVE TypeOK'
  BY <1>10 DEF FsyncFail, Goto, files, wal, queue, local
<1>11. ASSUME NEW t \in Threads, LoadWatermark(t) PROVE TypeOK'
  BY <1>11 DEF LoadWatermark, Goto, files, wal, queue, local
<1>12. ASSUME NEW t \in Threads, Credit(t) PROVE TypeOK'
  <2>1. lsn[t] \in Lsns
    BY <1>12 DEF Credit
  <2>2. pc' \in [Threads -> Pcs]
    BY <1>12 DEF Credit, Broadcast
  <2>3. lsn' \in [Threads -> 0..MaxLsn] /\ watermark' \in [Threads -> 0..MaxLsn]
    BY <1>12 DEF Credit, Leave
  <2>4. QED
    BY <1>12, <2>1, <2>2, <2>3 DEF Credit, Larger, files, wal
<1>13. ASSUME NEW t \in Threads, CreditFailed(t) PROVE TypeOK'
  <2>1. pc' \in [Threads -> Pcs]
    BY <1>13 DEF CreditFailed, Broadcast
  <2>2. lsn' \in [Threads -> 0..MaxLsn] /\ watermark' \in [Threads -> 0..MaxLsn]
    BY <1>13 DEF CreditFailed, Leave
  <2>3. QED
    BY <1>13, <2>1, <2>2 DEF CreditFailed, files, wal
<1>14. ASSUME NEW t \in Threads, CheckpointBegin(t) PROVE TypeOK'
  BY <1>14 DEF CheckpointBegin, Goto, files, wal, queue, local
<1>15. ASSUME NEW t \in Threads, CheckpointSync(t) PROVE TypeOK'
  BY <1>15 DEF CheckpointSync, Goto, files, wal, queue, local
<1>16. ASSUME NEW t \in Threads, CheckpointFail(t) PROVE TypeOK'
  BY <1>16 DEF CheckpointFail, Goto, files, wal, queue, local
<1>17. ASSUME NEW t \in Threads, CheckpointTruncate(t) PROVE TypeOK'
  BY <1>17 DEF CheckpointTruncate, Goto, files, wal, queue, local
<1>18. ASSUME NEW t \in Threads, CheckpointCredit(t) PROVE TypeOK'
  BY <1>18 DEF CheckpointCredit, Broadcast, Larger, files, wal, queue, local
<1>19. CASE UNCHANGED vars
  BY <1>19 DEF vars
<1> QED
  BY <1>1, <1>2, <1>3, <1>4, <1>5, <1>6, <1>7, <1>8, <1>9, <1>10, <1>11, <1>12, <1>13, <1>14, <1>15, <1>16, <1>17, <1>18, <1>19
     DEF Next, Commit, SyncToLsn, Checkpoint

(* Every step keeps the threads' LSNs. *)
LEMMA ActiveStep == TypeOK /\ Active /\ [Next]_vars => Active'
<1> SUFFICES ASSUME TypeOK /\ Active, [Next]_vars PROVE Active'
  OBVIOUS
<1> USE ConstantsAssumption DEF TypeOK, Active, Lsns, SyncPcs, Pcs, LeaderPcs, WriterPcs, CheckpointPcs
<1>1. ASSUME NEW t \in Threads, Flush(t) PROVE Active'
  BY <1>1 DEF Flush, Goto, files, wal, queue, local
<1>2. ASSUME NEW t \in Threads, FlushFail(t) PROVE Active'
  BY <1>2 DEF FlushFail, files, wal, queue, local
<1>3. ASSUME NEW t \in Threads, PublishFlushed(t) PROVE Active'
  BY <1>3 DEF PublishFlushed, Goto, files, wal, queue, local
<1>4. ASSUME NEW t \in Threads, Apply(t) PROVE Active'
  BY <1>4 DEF Apply, Goto, files, wal, queue, local
<1>5. ASSUME NEW t \in Threads, ApplyFail(t) PROVE Active'
  BY <1>5 DEF ApplyFail, Goto, Leave, files, wal, queue, local
<1>6. ASSUME NEW t \in Threads, Return(t) PROVE Active'
  BY <1>6 DEF Return, Goto, Leave, files, wal, queue, local
<1>7. ASSUME NEW t \in Threads, BecomeLeader(t) PROVE Active'
  BY <1>7 DEF BecomeLeader, Goto, files, wal, queue, local
<1>8. ASSUME NEW t \in Threads, Park(t) PROVE Active'
  BY <1>8 DEF Park, Goto, files, wal, queue, local
<1>9. ASSUME NEW t \in Threads, FsyncReturn(t) PROVE Active'
  BY <1>9 DEF FsyncReturn, Goto, FsyncCovers, files, wal, queue, local
<1>10. ASSUME NEW t \in Threads, FsyncFail(t) PROVE Active'
  BY <1>10 DEF FsyncFail, Goto, files, wal, queue, local
<1>11. ASSUME NEW t \in Threads, LoadWatermark(t) PROVE Active'
  BY <1>11 DEF LoadWatermark, Goto, files, wal, queue, local
<1>12. ASSUME NEW t \in Threads, Credit(t) PROVE Active'
  BY <1>12 DEF Credit, Broadcast, Leave, Larger, files, wal, queue, local
<1>13. ASSUME NEW t \in Threads, CreditFailed(t) PROVE Active'
  BY <1>13 DEF CreditFailed, Broadcast, Leave, files, wal, queue, local
<1>14. ASSUME NEW t \in Threads, CheckpointBegin(t) PROVE Active'
  BY <1>14 DEF CheckpointBegin, Goto, files, wal, queue, local
<1>15. ASSUME NEW t \in Threads, CheckpointSync(t) PROVE Active'
  BY <1>15 DEF CheckpointSync, Goto, files, wal, queue, local
<1>16. ASSUME NEW t \in Threads, CheckpointFail(t) PROVE Active'
  BY <1>16 DEF CheckpointFail, Goto, files, wal, queue, local
<1>17. ASSUME NEW t \in Threads, CheckpointTruncate(t) PROVE Active'
  BY <1>17 DEF CheckpointTruncate, Goto, files, wal, queue, local
<1>18. ASSUME NEW t \in Threads, CheckpointCredit(t) PROVE Active'
  BY <1>18 DEF CheckpointCredit, Broadcast, Larger, files, wal, queue, local
<1>19. CASE UNCHANGED vars
  BY <1>19 DEF vars
<1> QED
  BY <1>1, <1>2, <1>3, <1>4, <1>5, <1>6, <1>7, <1>8, <1>9, <1>10, <1>11, <1>12, <1>13, <1>14, <1>15, <1>16, <1>17, <1>18, <1>19
     DEF Next, Commit, SyncToLsn, Checkpoint

(* Every step keeps db.mu with the thread that runs under it. *)
LEMMA HoldersStep == TypeOK /\ Holders /\ [Next]_vars => Holders'
<1> SUFFICES ASSUME TypeOK /\ Holders, [Next]_vars PROVE Holders'
  OBVIOUS
<1> USE ConstantsAssumption DEF TypeOK, Holders, Pcs, LeaderPcs, WriterPcs, CheckpointPcs
<1>1. ASSUME NEW t \in Threads, Flush(t) PROVE Holders'
  BY <1>1 DEF Flush, Goto, files, wal, queue, local
<1>2. ASSUME NEW t \in Threads, FlushFail(t) PROVE Holders'
  BY <1>2 DEF FlushFail, files, wal, queue, local
<1>3. ASSUME NEW t \in Threads, PublishFlushed(t) PROVE Holders'
  BY <1>3 DEF PublishFlushed, Goto, files, wal, queue, local
<1>4. ASSUME NEW t \in Threads, Apply(t) PROVE Holders'
  BY <1>4 DEF Apply, Goto, files, wal, queue, local
<1>5. ASSUME NEW t \in Threads, ApplyFail(t) PROVE Holders'
  BY <1>5 DEF ApplyFail, Goto, Leave, files, wal, queue, local
<1>6. ASSUME NEW t \in Threads, Return(t) PROVE Holders'
  BY <1>6 DEF Return, Goto, Leave, files, wal, queue, local
<1>7. ASSUME NEW t \in Threads, BecomeLeader(t) PROVE Holders'
  BY <1>7 DEF BecomeLeader, Goto, files, wal, queue, local
<1>8. ASSUME NEW t \in Threads, Park(t) PROVE Holders'
  BY <1>8 DEF Park, Goto, files, wal, queue, local
<1>9. ASSUME NEW t \in Threads, FsyncReturn(t) PROVE Holders'
  BY <1>9 DEF FsyncReturn, Goto, FsyncCovers, files, wal, queue, local
<1>10. ASSUME NEW t \in Threads, FsyncFail(t) PROVE Holders'
  BY <1>10 DEF FsyncFail, Goto, files, wal, queue, local
<1>11. ASSUME NEW t \in Threads, LoadWatermark(t) PROVE Holders'
  BY <1>11 DEF LoadWatermark, Goto, files, wal, queue, local
<1>12. ASSUME NEW t \in Threads, Credit(t) PROVE Holders'
  BY <1>12 DEF Credit, Broadcast, Leave, Larger, files, wal, queue, local
<1>13. ASSUME NEW t \in Threads, CreditFailed(t) PROVE Holders'
  BY <1>13 DEF CreditFailed, Broadcast, Leave, files, wal, queue, local
<1>14. ASSUME NEW t \in Threads, CheckpointBegin(t) PROVE Holders'
  BY <1>14 DEF CheckpointBegin, Goto, files, wal, queue, local
<1>15. ASSUME NEW t \in Threads, CheckpointSync(t) PROVE Holders'
  BY <1>15 DEF CheckpointSync, Goto, files, wal, queue, local
<1>16. ASSUME NEW t \in Threads, CheckpointFail(t) PROVE Holders'
  BY <1>16 DEF CheckpointFail, Goto, files, wal, queue, local
<1>17. ASSUME NEW t \in Threads, CheckpointTruncate(t) PROVE Holders'
  BY <1>17 DEF CheckpointTruncate, Goto, files, wal, queue, local
<1>18. ASSUME NEW t \in Threads, CheckpointCredit(t) PROVE Holders'
  BY <1>18 DEF CheckpointCredit, Broadcast, Larger, files, wal, queue, local
<1>19. CASE UNCHANGED vars
  BY <1>19 DEF vars
<1> QED
  BY <1>1, <1>2, <1>3, <1>4, <1>5, <1>6, <1>7, <1>8, <1>9, <1>10, <1>11, <1>12, <1>13, <1>14, <1>15, <1>16, <1>17, <1>18, <1>19
     DEF Next, Commit, SyncToLsn, Checkpoint

(* Every step keeps the leader's token. *)
LEMMA QueueStep == TypeOK /\ Queue /\ [Next]_vars => Queue'
<1> SUFFICES ASSUME TypeOK /\ Queue, [Next]_vars PROVE Queue'
  OBVIOUS
<1> USE ConstantsAssumption DEF TypeOK, Queue, LeaderToken, Pcs, LeaderPcs, WriterPcs, CheckpointPcs
<1>1. ASSUME NEW t \in Threads, Flush(t) PROVE Queue'
  BY <1>1 DEF Flush, Goto, files, wal, queue, local
<1>2. ASSUME NEW t \in Threads, FlushFail(t) PROVE Queue'
  BY <1>2 DEF FlushFail, files, wal, queue, local
<1>3. ASSUME NEW t \in Threads, PublishFlushed(t) PROVE Queue'
  BY <1>3 DEF PublishFlushed, Goto, files, wal, queue, local
<1>4. ASSUME NEW t \in Threads, Apply(t) PROVE Queue'
  BY <1>4 DEF Apply, Goto, files, wal, queue, local
<1>5. ASSUME NEW t \in Threads, ApplyFail(t) PROVE Queue'
  BY <1>5 DEF ApplyFail, Goto, Leave, files, wal, queue, local
<1>6. ASSUME NEW t \in Threads, Return(t) PROVE Queue'
  BY <1>6 DEF Return, Goto, Leave, files, wal, queue, local
<1>7. ASSUME NEW t \in Threads, BecomeLeader(t) PROVE Queue'
  BY <1>7 DEF BecomeLeader, Goto, files, wal, queue, local
<1>8. ASSUME NEW t \in Threads, Park(t) PROVE Queue'
  BY <1>8 DEF Park, Goto, files, wal, queue, local
<1>9. ASSUME NEW t \in Threads, FsyncReturn(t) PROVE Queue'
  BY <1>9 DEF FsyncReturn, Goto, FsyncCovers, files, wal, queue, local
<1>10. ASSUME NEW t \in Threads, FsyncFail(t) PROVE Queue'
  BY <1>10 DEF FsyncFail, Goto, files, wal, queue, local
<1>11. ASSUME NEW t \in Threads, LoadWatermark(t) PROVE Queue'
  BY <1>11 DEF LoadWatermark, Goto, files, wal, queue, local
<1>12. ASSUME NEW t \in Threads, Credit(t) PROVE Queue'
  BY <1>12 DEF Credit, Broadcast, Leave, Larger, files, wal, queue, local
<1>13. ASSUME NEW t \in Threads, CreditFailed(t) PROVE Queue'
  BY <1>13 DEF CreditFailed, Broadcast, Leave, files, wal, queue, local
<1>14. ASSUME NEW t \in Threads, CheckpointBegin(t) PROVE Queue'
  BY <1>14 DEF CheckpointBegin, Goto, files, wal, queue, local
<1>15. ASSUME NEW t \in Threads, CheckpointSync(t) PROVE Queue'
  BY <1>15 DEF CheckpointSync, Goto, files, wal, queue, local
<1>16. ASSUME NEW t \in Threads, CheckpointFail(t) PROVE Queue'
  BY <1>16 DEF CheckpointFail, Goto, files, wal, queue, local
<1>17. ASSUME NEW t \in Threads, CheckpointTruncate(t) PROVE Queue'
  BY <1>17 DEF CheckpointTruncate, Goto, files, wal, queue, local
<1>18. ASSUME NEW t \in Threads, CheckpointCredit(t) PROVE Queue'
  BY <1>18 DEF CheckpointCredit, Broadcast, Larger, files, wal, queue, local
<1>19. CASE UNCHANGED vars
  BY <1>19 DEF vars
<1> QED
  BY <1>1, <1>2, <1>3, <1>4, <1>5, <1>6, <1>7, <1>8, <1>9, <1>10, <1>11, <1>12, <1>13, <1>14, <1>15, <1>16, <1>17, <1>18, <1>19
     DEF Next, Commit, SyncToLsn, Checkpoint

(* Every step keeps the order of the LSNs. *)
LEMMA MarksStep == TypeOK /\ Holders /\ Marks /\ [Next]_vars => Marks'
<1> SUFFICES ASSUME TypeOK /\ Holders /\ Marks, [Next]_vars PROVE Marks'
  OBVIOUS
<1> USE ConstantsAssumption DEF TypeOK, Holders, Marks, SyncPcs, Pcs, LeaderPcs, WriterPcs, CheckpointPcs
<1>1. ASSUME NEW t \in Threads, Flush(t) PROVE Marks'
  BY <1>1 DEF Flush, Goto, files, wal, queue, local
<1>2. ASSUME NEW t \in Threads, FlushFail(t) PROVE Marks'
  BY <1>2 DEF FlushFail, files, wal, queue, local
<1>3. ASSUME NEW t \in Threads, PublishFlushed(t) PROVE Marks'
  BY <1>3 DEF PublishFlushed, Goto, files, wal, queue, local
<1>4. ASSUME NEW t \in Threads, Apply(t) PROVE Marks'
  BY <1>4 DEF Apply, Goto, files, wal, queue, local
<1>5. ASSUME NEW t \in Threads, ApplyFail(t) PROVE Marks'
  BY <1>5 DEF ApplyFail, Goto, Leave, files, wal, queue, local
<1>6. ASSUME NEW t \in Threads, Return(t) PROVE Marks'
  BY <1>6 DEF Return, Goto, Leave, files, wal, queue, local
<1>7. ASSUME NEW t \in Threads, BecomeLeader(t) PROVE Marks'
  BY <1>7 DEF BecomeLeader, Goto, files, wal, queue, local
<1>8. ASSUME NEW t \in Threads, Park(t) PROVE Marks'
  BY <1>8 DEF Park, Goto, files, wal, queue, local
<1>9. ASSUME NEW t \in Threads, FsyncReturn(t) PROVE Marks'
  BY <1>9 DEF FsyncReturn, Goto, FsyncCovers, files, wal, queue, local
<1>10. ASSUME NEW t \in Threads, FsyncFail(t) PROVE Marks'
  BY <1>10 DEF FsyncFail, Goto, files, wal, queue, local
<1>11. ASSUME NEW t \in Threads, LoadWatermark(t) PROVE Marks'
  BY <1>11 DEF LoadWatermark, Goto, files, wal, queue, local
<1>12. ASSUME NEW t \in Threads, Credit(t) PROVE Marks'
  BY <1>12 DEF Credit, Broadcast, Leave, Larger, files, wal, queue, local
<1>13. ASSUME NEW t \in Threads, CreditFailed(t) PROVE Marks'
  BY <1>13 DEF CreditFailed, Broadcast, Leave, files, wal, queue, local
<1>14. ASSUME NEW t \in Threads, CheckpointBegin(t) PROVE Marks'
  BY <1>14 DEF CheckpointBegin, Goto, files, wal, queue, local
<1>15. ASSUME NEW t \in Threads, CheckpointSync(t) PROVE Marks'
  BY <1>15 DEF CheckpointSync, Goto, files, wal, queue, local
<1>16. ASSUME NEW t \in Threads, CheckpointFail(t) PROVE Marks'
  BY <1>16 DEF CheckpointFail, Goto, files, wal, queue, local
<1>17. ASSUME NEW t \in Threads, CheckpointTruncate(t) PROVE Marks'
  BY <1>17 DEF CheckpointTruncate, Goto, files, wal, queue, local
<1>18. ASSUME NEW t \in Threads, CheckpointCredit(t) PROVE Marks'
  BY <1>18 DEF CheckpointCredit, Broadcast, Larger, files, wal, queue, local
<1>19. CASE UNCHANGED vars
  BY <1>19 DEF vars
<1> QED
  BY <1>1, <1>2, <1>3, <1>4, <1>5, <1>6, <1>7, <1>8, <1>9, <1>10, <1>11, <1>12, <1>13, <1>14, <1>15, <1>16, <1>17, <1>18, <1>19
     DEF Next, Commit, SyncToLsn, Checkpoint

(* Every step keeps the bytes where the writers expect them. *)
LEMMA PlacementStep == TypeOK /\ Holders /\ Placement /\ [Next]_vars => Placement'
<1> SUFFICES ASSUME TypeOK /\ Holders /\ Placement, [Next]_vars PROVE Placement'
  OBVIOUS
<1> USE ConstantsAssumption DEF TypeOK, Holders, Placement, SyncPcs, Pcs, LeaderPcs, WriterPcs, CheckpointPcs
<1>1. ASSUME NEW t \in Threads, Flush(t) PROVE Placement'
  BY <1>1 DEF Flush, Goto, files, wal, queue, local
<1>2. ASSUME NEW t \in Threads, FlushFail(t) PROVE Placement'
  BY <1>2 DEF FlushFail, files, wal, queue, local
<1>3. ASSUME NEW t \in Threads, PublishFlushed(t) PROVE Placement'
  BY <1>3 DEF PublishFlushed, Goto, files, wal, queue, local
<1>4. ASSUME NEW t \in Threads, Apply(t) PROVE Placement'
  BY <1>4 DEF Apply, Goto, files, wal, queue, local
<1>5. ASSUME NEW t \in Threads, ApplyFail(t) PROVE Placement'
  BY <1>5 DEF ApplyFail, Goto, Leave, files, wal, queue, local
<1>6. ASSUME NEW t \in Threads, Return(t) PROVE Placement'
  BY <1>6 DEF Return, Goto, Leave, files, wal, queue, local
<1>7. ASSUME NEW t \in Threads, BecomeLeader(t) PROVE Placement'
  BY <1>7 DEF BecomeLeader, Goto, files, wal, queue, local
<1>8. ASSUME NEW t \in Threads, Park(t) PROVE Placement'
  BY <1>8 DEF Park, Goto, files, wal, queue, local
<1>9. ASSUME NEW t \in Threads, FsyncReturn(t) PROVE Placement'
  BY <1>9 DEF FsyncReturn, Goto, FsyncCovers, files, wal, queue, local
<1>10. ASSUME NEW t \in Threads, FsyncFail(t) PROVE Placement'
  BY <1>10 DEF FsyncFail, Goto, files, wal, queue, local
<1>11. ASSUME NEW t \in Threads, LoadWatermark(t) PROVE Placement'
  BY <1>11 DEF LoadWatermark, Goto, files, wal, queue, local
<1>12. ASSUME NEW t \in Threads, Credit(t) PROVE Placement'
  BY <1>12 DEF Credit, Broadcast, Leave, Larger, files, wal, queue, local
<1>13. ASSUME NEW t \in Threads, CreditFailed(t) PROVE Placement'
  BY <1>13 DEF CreditFailed, Broadcast, Leave, files, wal, queue, local
<1>14. ASSUME NEW t \in Threads, CheckpointBegin(t) PROVE Placement'
  BY <1>14 DEF CheckpointBegin, Goto, files, wal, queue, local
<1>15. ASSUME NEW t \in Threads, CheckpointSync(t) PROVE Placement'
  BY <1>15 DEF CheckpointSync, Goto, files, wal, queue, local
<1>16. ASSUME NEW t \in Threads, CheckpointFail(t) PROVE Placement'
  BY <1>16 DEF CheckpointFail, Goto, files, wal, queue, local
<1>17. ASSUME NEW t \in Threads, CheckpointTruncate(t) PROVE Placement'
  BY <1>17 DEF CheckpointTruncate, Goto, files, wal, queue, local
<1>18. ASSUME NEW t \in Threads, CheckpointCredit(t) PROVE Placement'
  BY <1>18 DEF CheckpointCredit, Broadcast, Larger, files, wal, queue, local
<1>19. CASE UNCHANGED vars
  BY <1>19 DEF vars
<1> QED
  BY <1>1, <1>2, <1>3, <1>4, <1>5, <1>6, <1>7, <1>8, <1>9, <1>10, <1>11, <1>12, <1>13, <1>14, <1>15, <1>16, <1>17, <1>18, <1>19
     DEF Next, Commit, SyncToLsn, Checkpoint

(* The invariant holds initially: no thread is doing anything. *)
LEMMA InitEstablishes == Init => IInv
<1> SUFFICES ASSUME Init PROVE IInv
  OBVIOUS
<1> USE ConstantsAssumption
        DEF Init, SyncPcs, Pcs, LeaderPcs, WriterPcs, CheckpointPcs
<1>1. TypeOK
  <2>1. pc \in [Threads -> Pcs] /\ inFlight \in [Threads -> SUBSET Lsns]
    OBVIOUS
  <2>2. lsn \in [Threads -> 0..MaxLsn] /\ watermark \in [Threads -> 0..MaxLsn]
    OBVIOUS
  <2>3. /\ nextLsn \in 1..(MaxLsn + 1)
        /\ last_flushed_lsn \in 0..MaxLsn /\ fsynced_lsn \in 0..MaxLsn
    OBVIOUS
  <2> QED
    BY <2>1, <2>2, <2>3 DEF TypeOK
<1>2. Active /\ Holders
  BY DEF Active, Holders
<1>3. Queue
  BY DEF Queue, LeaderToken
<1>4. Marks
  BY DEF Marks
<1>5. Placement
  BY DEF Placement
<1> QED
  BY <1>1, <1>2, <1>3, <1>4, <1>5 DEF IInv

(* Every step keeps the invariant. *)
LEMMA NextPreserves == IInv /\ [Next]_vars => IInv'
  BY TypeStep, ActiveStep, HoldersStep, QueueStep, MarksStep, PlacementStep DEF IInv

(* The inductive invariant holds of every behaviour. *)
THEOREM Invariance == Spec => []IInv
  BY InitEstablishes, NextPreserves, PTL DEF Spec

(* The variables keep their types, with no LSN beyond the counter. *)
THEOREM TypeCorrect == Spec => []TypeOK
<1>1. IInv => TypeOK
  BY DEF IInv
<1> QED
  BY <1>1, Invariance, PTL

(* There is never a second leader, and never a token without its leader,   *)
(* for any number of threads (wal.zig:333-367).                             *)
THEOREM SingleLeader == Spec => []LeaderToken
<1>1. IInv => LeaderToken
  BY DEF IInv, Queue
<1> QED
  BY <1>1, Invariance, PTL

(* A follower is parked only under a leader that will still broadcast, so  *)
(* a wakeup cannot be lost between the test of leader_active and the wait.  *)
THEOREM NoWakeupLost == Spec => []NoLostWakeup
<1>1. IInv => NoLostWakeup
  BY DEF IInv, Queue, LeaderToken, NoLostWakeup
<1> QED
  BY <1>1, Invariance, PTL

(* The watermark a leader loads is never below its own commit: it fsyncs   *)
(* once and leaves.                                                         *)
THEOREM OneFsyncSuffices == Spec => []LeaderCoversSelf
<1>1. IInv => LeaderCoversSelf
  <2> SUFFICES ASSUME IInv, NEW t \in Threads, pc[t] \in {"credit", "creditFailed"}
               PROVE  watermark[t] >= lsn[t]
    BY DEF LeaderCoversSelf
  <2>1. lsn[t] <= watermark[t]
    BY DEF IInv, Marks
  <2>2. lsn[t] \in Int /\ watermark[t] \in Int
    BY ConstantsAssumption DEF IInv, TypeOK
  <2> QED
    BY <2>1, <2>2
<1> QED
  BY <1>1, Invariance, PTL

(* The commit of a thread that led a successful fsync is durable, whatever *)
(* checkpoint ran beside the fsync and however it failed, unless it was     *)
(* written behind the hole that a half-done reset of the WAL had left.      *)
THEOREM LeaderIsDurable == Spec => []LeaderCommitDurable
<1>1. IInv => LeaderCommitDurable
  BY DEF IInv, Placement, LeaderCommitDurable, Recoverable
<1> QED
  BY <1>1, Invariance, PTL

(* One step never takes a durable commit back. *)
LEMMA DurableStep ==
  IInv /\ [Next]_vars =>
    [\A l \in applied : Recoverable(l) => Recoverable(l)']_vars
<1> SUFFICES ASSUME IInv, [Next]_vars, NEW l \in applied, Recoverable(l)
             PROVE  Recoverable(l)'
  OBVIOUS
<1> USE DEF Recoverable
<1>1. CASE walDisk \subseteq walDisk' /\ dataDisk \subseteq dataDisk'
  BY <1>1
<1>2. ASSUME NEW t \in Threads, CheckpointSync(t) PROVE Recoverable(l)'
  BY <1>2 DEF CheckpointSync, IInv, Placement
<1>3. ASSUME NEW t \in Threads, CheckpointTruncate(t) PROVE Recoverable(l)'
  <2>1. l \in dataDisk
    BY <1>3 DEF CheckpointTruncate, IInv, Placement
  <2> QED
    BY <1>3, <2>1 DEF CheckpointTruncate
<1>4. ASSUME NEW t \in Threads,
             Commit(t) \/ SyncToLsn(t) \/ Checkpoint(t),
             ~CheckpointSync(t), ~CheckpointTruncate(t)
      PROVE  walDisk \subseteq walDisk' /\ dataDisk \subseteq dataDisk'
  BY <1>4 DEF Commit, SyncToLsn, Checkpoint, files, wal,
       Flush, FlushFail, PublishFlushed, Apply, ApplyFail, Return, BecomeLeader,
       Park, FsyncReturn, FsyncFail, LoadWatermark, Credit, CreditFailed,
       CheckpointBegin, CheckpointFail, CheckpointCredit
<1> QED
  BY <1>1, <1>2, <1>3, <1>4 DEF Next, vars

(* No step takes a durable commit back: in particular the truncation of    *)
(* the WAL finds every applied commit in the synced data file.              *)
THEOREM DurabilityKept == Spec => DurabilityIsStable
  BY DurableStep, Invariance, PTL DEF Spec, DurabilityIsStable

(* When a checkpoint credits the queue, everything it credits is in the    *)
(* synced data file.                                                        *)
THEOREM CheckpointCredits == Spec => CheckpointCreditsDurable
<1>1. IInv /\ [Next]_vars =>
        [\A t \in Threads : pc[t] = "ckptTruncated" /\ pc'[t] = "idle" =>
           \A l \in applied : l <= fsynced_lsn' => Recoverable(l)']_vars
  <2> SUFFICES ASSUME IInv, [Next]_vars,
                      NEW t \in Threads, pc[t] = "ckptTruncated", pc'[t] = "idle",
                      NEW l \in applied
               PROVE  Recoverable(l)'
    OBVIOUS
  <2>1. l \in dataDisk
    BY DEF IInv, Placement
  <2>2. Recoverable(l)
    BY <2>1 DEF Recoverable
  <2>3. [\A k \in applied : Recoverable(k) => Recoverable(k)']_vars
    BY DurableStep
  <2> QED
    BY <2>2, <2>3 DEF vars, Recoverable
<1> QED
  BY <1>1, Invariance, PTL DEF Spec, CheckpointCreditsDurable

=============================================================================
