---------------------------- MODULE ClientProofs ----------------------------
(***************************************************************************)
(* What the binding's calls guarantee for any number of threads, calls and *)
(* attempts, any size of batch and any number of failures and interrupts,  *)
(* proved with TLAPS.                                                      *)
(***************************************************************************)
EXTENDS Client, TLAPS

(* The inductive invariant.                                                 *)

\* What a thread does is what it was called for, and run_optimistic begins a
\* transaction only while attempts are left.
Stage ==
    \A t \in Threads :
        /\ pc[t] \in BlockPcs \cup {"begin", "raising"} => kind[t] = "block"
        /\ pc[t] = "insert" => kind[t] = "insert_many"
        /\ pc[t] = "sync" => kind[t] \in {"block", "insert_many"}
        /\ pc[t] \in {"open", "fn", "commit", "occSync", "release"} =>
              kind[t] \in {"run_optimistic", "manual"}
        /\ pc[t] = "open" => attempts[t] < MaxAttempts

\* An interrupted thread is in no block of its own again.
Locked ==
    /\ LockFollowsBlock
    /\ \A t \in left : pc[t] \notin BlockPcs \cup {"raising"}

\* The handle is there from begin_optimistic to the end of the transaction.
Handles ==
    \A t \in Threads :
        /\ native[t] = IF handle[t] THEN 1 ELSE 0
        /\ pc[t] \in {"fn", "commit", "occSync"} => handle[t]
        /\ pc[t] \notin {"fn", "commit", "occSync", "release"} => ~handle[t]

\* A call is the work of one thread, and open until that thread is idle.
Numbered ==
    /\ \A t \in Threads : call[t] <= calls
    /\ \A t \in Threads : pc[t] # "idle" => call[t] # 0 /\ outcome[call[t]] = "running"
    /\ \A t, u \in Threads : call[t] = call[u] /\ call[t] # 0 => t = u
    /\ \A c \in Calls : c > calls => outcome[c] = "none" /\ c \notin published

\* When a call's commit is published.
Progress ==
    \A t \in Threads :
        /\ pc[t] \in BlockPcs \cup {"begin", "raising", "insert", "open", "fn", "commit"} =>
              call[t] \notin published
        /\ pc[t] \in {"sync", "occSync"} => call[t] \in published
        /\ pc[t] = "release" =>
              \/ result[t] = "returned" /\ call[t] \in published
              \/ result[t] = "conflict" /\ call[t] \notin published
              \/ result[t] = "raised" /\ (call[t] \notin published \/ call[t] \in unsynced)

\* What the block that holds db.mu has made of the store.
Working ==
    \A t \in Threads :
        /\ pc[t] = "body" => work.doc = doc /\ work.rows = rows
        /\ pc[t] = "read" => work.doc = doc /\ work.rows = rows /\ seen[t] = doc
        /\ pc[t] = "bumped" =>
              work.doc = Bump(doc, call[t]) /\ work.rows = rows \cup RowsOf(call[t])

IInv ==
    /\ TypeOK /\ Stage /\ Locked /\ Handles /\ Numbered /\ Progress /\ Working
    /\ OutcomeTruth /\ EffectsExact


\* The calls, and where each begins.
Opens(k, label) ==
    \/ k = "block" /\ label = "begin"
    \/ k = "insert_many" /\ label = "insert"
    \/ k \in {"run_optimistic", "manual"} /\ label = "open"

-----------------------------------------------------------------------------
(* Every step keeps each part.                                              *)

\* Bump adds one to a call's count and leaves the others.
LEMMA BumpOne ==
    ASSUME NEW d \in Docs, NEW c \in Calls
    PROVE  /\ Bump(d, c) \in Docs
           /\ Bump(d, c)[c] = d[c] + 1
           /\ \A e \in Calls \ {c} : Bump(d, c)[e] = d[e]
  BY DEF Bump, Docs

\* The rows of a call, and a part of them.
LEMMA RowsTyped ==
    ASSUME NEW c \in Calls, NEW n \in 0..Batch-1
    PROVE  RowsOf(c) \subseteq AllRows /\ {c} \X (1..n) \subseteq AllRows
<1>1. 1..n \subseteq 1..Batch
  BY ConstantsAssumption
<1>2. QED
  BY <1>1 DEF RowsOf, AllRows

\* The rows of two calls are apart.
LEMMA RowsApart ==
    ASSUME NEW c, NEW e, c # e
    PROVE  RowsOf(c) \cap RowsOf(e) = {}
  BY DEF RowsOf

\* An open call has a number.
LEMMA CallTyped ==
    ASSUME CallTypes, Numbered, NEW t \in Threads, pc[t] # "idle"
    PROVE  call[t] \in Calls
  BY ConstantsAssumption DEF CallTypes, Calls, Numbered

\* The types.
LEMMA StoreTypesStep == IInv /\ [Next]_vars => StoreTypes'
<1> SUFFICES ASSUME StoreTypes, CallTypes, Numbered, [Next]_vars PROVE StoreTypes'
  BY DEF IInv, TypeOK
<1> USE ConstantsAssumption DEF StoreTypes
<1>1. ASSUME NEW t \in Threads, NEW k, NEW label, Opens(k, label), Call(t, k, label)
     PROVE  StoreTypes'
  BY <1>1 DEF Opens, Call, Goto, store, txn, ghost, bounds
<1>2. ASSUME NEW t \in Threads, Begin(t) PROVE StoreTypes'
  BY <1>2 DEF Begin, Goto, store, txn, ghost, bounds
<1>3. ASSUME NEW t \in Threads, BeginFails(t) PROVE StoreTypes'
  BY <1>3 DEF BeginFails, Fail, Finish, Goto, store, txn, ghost, bounds
<1>4. ASSUME NEW t \in Threads, BlockGet(t) PROVE StoreTypes'
  BY <1>4 DEF BlockGet, Goto, store, txn, ghost, bounds
<1>5. ASSUME NEW t \in Threads, BlockWrite(t) PROVE StoreTypes'
  <2>1. call[t] \in Calls
    BY <1>5, CallTyped DEF BlockWrite
  <2>2. Bump(seen[t], call[t]) \in Docs
    BY <2>1, BumpOne
  <2>3. RowsOf(call[t]) \subseteq AllRows
    BY <2>1, RowsTyped, ConstantsAssumption
  <2>4. QED
    BY <1>5, <2>2, <2>3 DEF BlockWrite, store, txn, ghost, bounds
<1>6. ASSUME NEW t \in Threads, BlockWriteFails(t) PROVE StoreTypes'
  <2>1. call[t] \in Calls
    BY <1>6, CallTyped DEF BlockWriteFails
  <2>2. PICK n \in 0..Batch-1 : work' = [work EXCEPT !.rows = @ \cup ({call[t]} \X (1..n))]
    BY <1>6 DEF BlockWriteFails
  <2>3. {call[t]} \X (1..n) \subseteq AllRows
    BY <2>1, RowsTyped
  <2>4. work' \in [doc : Docs, rows : SUBSET AllRows]
    BY <2>2, <2>3
  <2>5. QED
    BY <1>6, <2>4 DEF BlockWriteFails, store, txn
<1>7. ASSUME NEW t \in Threads, BlockCommit(t) PROVE StoreTypes'
  BY <1>7 DEF BlockCommit, PublishWork, Goto, store, txn, ghost, bounds
<1>8. ASSUME NEW t \in Threads, BlockRaise(t) PROVE StoreTypes'
  BY <1>8 DEF BlockRaise, Finish, Goto, store, txn, ghost, bounds
<1>9. ASSUME NEW t \in Threads, BlockInterrupt(t) PROVE StoreTypes'
  BY <1>9 DEF BlockInterrupt, Finish, Goto, store, txn, ghost, bounds
<1>10. ASSUME NEW t \in Threads, InsertMany(t) PROVE StoreTypes'
  <2>1. call[t] \in Calls
    BY <1>10, CallTyped DEF InsertMany
  <2>2. RowsOf(call[t]) \subseteq AllRows
    BY <2>1, RowsTyped, ConstantsAssumption
  <2>3. QED
    BY <1>10, <2>2 DEF InsertMany, store, txn
<1>11. ASSUME NEW t \in Threads, InsertManyFails(t) PROVE StoreTypes'
  BY <1>11 DEF InsertManyFails, Fail, Finish, Goto, store, txn, ghost, bounds
<1>12. ASSUME NEW t \in Threads, InsertManyJoins(t) PROVE StoreTypes'
  <2>1. call[t] \in Calls
    BY <1>12, CallTyped DEF InsertManyJoins
  <2>2. RowsOf(call[t]) \subseteq AllRows
    BY <2>1, RowsTyped, ConstantsAssumption
  <2>3. QED
    BY <1>12, <2>2 DEF InsertManyJoins, store, txn
<1>13. ASSUME NEW t \in Threads, Sync(t) PROVE StoreTypes'
  BY <1>13 DEF Sync, Finish, Goto, store, txn, ghost, bounds
<1>14. ASSUME NEW t \in Threads, SyncFails(t) PROVE StoreTypes'
  BY <1>14 DEF SyncFails, Fail, Finish, Goto, store, txn, ghost, bounds
<1>15. ASSUME NEW t \in Threads, BeginOptimistic(t) PROVE StoreTypes'
  BY <1>15 DEF BeginOptimistic, Goto, store, txn, ghost, bounds
<1>16. ASSUME NEW t \in Threads, BeginOptimisticFails(t) PROVE StoreTypes'
  BY <1>16 DEF BeginOptimisticFails, Fail, Finish, Goto, store, txn, ghost, bounds
<1>17. ASSUME NEW t \in Threads, Fn(t) PROVE StoreTypes'
  BY <1>17 DEF Fn, Goto, store, txn, ghost, bounds
<1>18. ASSUME NEW t \in Threads, FnRaises(t) PROVE StoreTypes'
  BY <1>18 DEF FnRaises, Free, EndTxn, Goto, store, txn, ghost, bounds
<1>19. ASSUME NEW t \in Threads, OccCommit(t) PROVE StoreTypes'
  <2>1. call[t] \in Calls
    BY <1>19, CallTyped DEF OccCommit
  <2>2. Bump(seen[t], call[t]) \in Docs
    BY <2>1, BumpOne
  <2>3. RowsOf(call[t]) \subseteq AllRows
    BY <2>1, RowsTyped, ConstantsAssumption
  <2>4. QED
    BY <1>19, <2>2, <2>3 DEF OccCommit, store, txn, ghost, bounds
<1>20. ASSUME NEW t \in Threads, OccSync(t) PROVE StoreTypes'
  BY <1>20 DEF OccSync, Free, EndTxn, Goto, store, txn, ghost, bounds
<1>21. ASSUME NEW t \in Threads, OccSyncFails(t) PROVE StoreTypes'
  BY <1>21 DEF OccSyncFails, Fail, Free, EndTxn, Goto, store, txn, ghost, bounds
<1>22. ASSUME NEW t \in Threads, OccConflict(t) PROVE StoreTypes'
  BY <1>22 DEF OccConflict, Free, EndTxn, Goto, store, txn, ghost, bounds
<1>23. ASSUME NEW t \in Threads, OccCommitFails(t) PROVE StoreTypes'
  BY <1>23 DEF OccCommitFails, Fail, Free, EndTxn, Goto, store, txn, ghost, bounds
<1>24. ASSUME NEW t \in Threads, Retry(t) PROVE StoreTypes'
  BY <1>24 DEF Retry, Close, Conflicted, Goto, store, txn, ghost, bounds
<1>25. ASSUME NEW t \in Threads, Release(t) PROVE StoreTypes'
  BY <1>25 DEF Release, Close, Conflicted, Finish, Goto, store, txn, ghost, bounds
<1>26. CASE UNCHANGED vars
  BY <1>26 DEF vars, store, txn, ghost, bounds
<1>27. QED
  BY <1>1, <1>2, <1>3, <1>4, <1>5, <1>6, <1>7, <1>8, <1>9, <1>10,
     <1>11, <1>12, <1>13, <1>14, <1>15, <1>16, <1>17, <1>18, <1>19, <1>20,
     <1>21, <1>22, <1>23, <1>24, <1>25, <1>26
  DEF Next, BlockStep, BatchStep, OccStep, Opens,
      CallBlock, CallInsertMany, CallRunOptimistic, CallManual

\* The types of the threads.
LEMMA ThreadTypesStep == IInv /\ [Next]_vars => ThreadTypes'
<1> SUFFICES ASSUME ThreadTypes, Stage, [Next]_vars PROVE ThreadTypes'
  BY DEF IInv, TypeOK
<1> USE ConstantsAssumption DEF ThreadTypes, Pcs, Outcomes, BlockPcs, Stage
<1>1. ASSUME NEW t \in Threads, NEW k, NEW label, Opens(k, label), Call(t, k, label)
     PROVE  ThreadTypes'
  BY <1>1 DEF Opens, Call, Goto, store, txn, ghost, bounds
<1>2. ASSUME NEW t \in Threads, Begin(t) PROVE ThreadTypes'
  BY <1>2 DEF Begin, Goto, store, txn, ghost, bounds
<1>3. ASSUME NEW t \in Threads, BeginFails(t) PROVE ThreadTypes'
  BY <1>3 DEF BeginFails, Fail, Finish, Goto, store, txn, ghost, bounds
<1>4. ASSUME NEW t \in Threads, BlockGet(t) PROVE ThreadTypes'
  BY <1>4 DEF BlockGet, Goto, store, txn, ghost, bounds
<1>5. ASSUME NEW t \in Threads, BlockWrite(t) PROVE ThreadTypes'
  BY <1>5 DEF BlockWrite, Goto, store, txn, ghost, bounds
<1>6. ASSUME NEW t \in Threads, BlockWriteFails(t) PROVE ThreadTypes'
  BY <1>6 DEF BlockWriteFails, Fail, Goto, store, txn, ghost, bounds
<1>7. ASSUME NEW t \in Threads, BlockCommit(t) PROVE ThreadTypes'
  BY <1>7 DEF BlockCommit, PublishWork, Goto, store, txn, ghost, bounds
<1>8. ASSUME NEW t \in Threads, BlockRaise(t) PROVE ThreadTypes'
  BY <1>8 DEF BlockRaise, Finish, Goto, store, txn, ghost, bounds
<1>9. ASSUME NEW t \in Threads, BlockInterrupt(t) PROVE ThreadTypes'
  BY <1>9 DEF BlockInterrupt, Finish, Goto, store, txn, ghost, bounds
<1>10. ASSUME NEW t \in Threads, InsertMany(t) PROVE ThreadTypes'
  BY <1>10 DEF InsertMany, Goto, store, txn, ghost, bounds
<1>11. ASSUME NEW t \in Threads, InsertManyFails(t) PROVE ThreadTypes'
  BY <1>11 DEF InsertManyFails, Fail, Finish, Goto, store, txn, ghost, bounds
<1>12. ASSUME NEW t \in Threads, InsertManyJoins(t) PROVE ThreadTypes'
  BY <1>12 DEF InsertManyJoins, Finish, Goto, store, txn, ghost, bounds
<1>13. ASSUME NEW t \in Threads, Sync(t) PROVE ThreadTypes'
  BY <1>13 DEF Sync, Finish, Goto, store, txn, ghost, bounds
<1>14. ASSUME NEW t \in Threads, SyncFails(t) PROVE ThreadTypes'
  BY <1>14 DEF SyncFails, Fail, Finish, Goto, store, txn, ghost, bounds
<1>15. ASSUME NEW t \in Threads, BeginOptimistic(t) PROVE ThreadTypes'
  BY <1>15 DEF BeginOptimistic, Goto, store, txn, ghost, bounds
<1>16. ASSUME NEW t \in Threads, BeginOptimisticFails(t) PROVE ThreadTypes'
  BY <1>16 DEF BeginOptimisticFails, Fail, Finish, Goto, store, txn, ghost, bounds
<1>17. ASSUME NEW t \in Threads, Fn(t) PROVE ThreadTypes'
  BY <1>17 DEF Fn, Goto, store, txn, ghost, bounds
<1>18. ASSUME NEW t \in Threads, FnRaises(t) PROVE ThreadTypes'
  <2>1. native' \in [Threads -> Int] /\ handle' \in [Threads -> BOOLEAN]
    <3>1. CASE kind[t] = "run_optimistic"
      <4>1. native' = [native EXCEPT ![t] = @ - 1] /\ handle' = [handle EXCEPT ![t] = FALSE]
        BY <1>18, <3>1 DEF FnRaises, Free
      <4>2. QED
        BY <4>1
    <3>2. CASE kind[t] # "run_optimistic"
      BY <1>18, <3>2 DEF FnRaises
    <3>3. QED
      BY <3>1, <3>2
  <2>2. pc' \in [Threads -> Pcs] /\ result' \in [Threads -> Outcomes]
    BY <1>18 DEF FnRaises, EndTxn, Goto
  <2>3. UNCHANGED <<owner, left, kind, attempts>>
    BY <1>18 DEF FnRaises
  <2>4. QED
    BY <2>1, <2>2, <2>3
<1>19. ASSUME NEW t \in Threads, OccCommit(t) PROVE ThreadTypes'
  BY <1>19 DEF OccCommit, Goto, store, txn, ghost, bounds
<1>20. ASSUME NEW t \in Threads, OccSync(t) PROVE ThreadTypes'
  BY <1>20 DEF OccSync, Free, EndTxn, Goto, store, txn, ghost, bounds
<1>21. ASSUME NEW t \in Threads, OccSyncFails(t) PROVE ThreadTypes'
  BY <1>21 DEF OccSyncFails, Fail, Free, EndTxn, Goto, store, txn, ghost, bounds
<1>22. ASSUME NEW t \in Threads, OccConflict(t) PROVE ThreadTypes'
  BY <1>22 DEF OccConflict, Free, EndTxn, Goto, store, txn, ghost, bounds
<1>23. ASSUME NEW t \in Threads, OccCommitFails(t) PROVE ThreadTypes'
  BY <1>23 DEF OccCommitFails, Fail, Free, EndTxn, Goto, store, txn, ghost, bounds
<1>24. ASSUME NEW t \in Threads, Retry(t) PROVE ThreadTypes'
  BY <1>24 DEF Retry, Close, Conflicted, Goto, store, txn, ghost, bounds
<1>25. ASSUME NEW t \in Threads, Release(t) PROVE ThreadTypes'
  BY <1>25 DEF Release, Close, Conflicted, Finish, Goto, store, txn, ghost, bounds
<1>26. CASE UNCHANGED vars
  BY <1>26 DEF vars, store, txn, ghost, bounds
<1>27. QED
  BY <1>1, <1>2, <1>3, <1>4, <1>5, <1>6, <1>7, <1>8, <1>9, <1>10,
     <1>11, <1>12, <1>13, <1>14, <1>15, <1>16, <1>17, <1>18, <1>19, <1>20,
     <1>21, <1>22, <1>23, <1>24, <1>25, <1>26
  DEF Next, BlockStep, BatchStep, OccStep, Opens,
      CallBlock, CallInsertMany, CallRunOptimistic, CallManual

\* The types of the calls.
LEMMA CallTypesStep == IInv /\ [Next]_vars => CallTypes'
<1> SUFFICES ASSUME ThreadTypes, CallTypes, Numbered, Progress, [Next]_vars PROVE CallTypes'
  BY DEF IInv, TypeOK
<1> USE ConstantsAssumption DEF CallTypes, Calls, Outcomes, ThreadTypes, Numbered, Progress
<1>1. ASSUME NEW t \in Threads, NEW k, NEW label, Opens(k, label), Call(t, k, label)
     PROVE  CallTypes'
  BY <1>1 DEF Opens, Call, Goto, store, txn, ghost, bounds
<1>2. ASSUME NEW t \in Threads, Begin(t) PROVE CallTypes'
  BY <1>2 DEF Begin, Goto, store, txn, ghost, bounds
<1>3. ASSUME NEW t \in Threads, BeginFails(t) PROVE CallTypes'
  BY <1>3 DEF BeginFails, Fail, Finish, Goto, store, txn, ghost, bounds
<1>4. ASSUME NEW t \in Threads, BlockGet(t) PROVE CallTypes'
  BY <1>4 DEF BlockGet, Goto, store, txn, ghost, bounds
<1>5. ASSUME NEW t \in Threads, BlockWrite(t) PROVE CallTypes'
  BY <1>5 DEF BlockWrite, Goto, store, txn, ghost, bounds
<1>6. ASSUME NEW t \in Threads, BlockWriteFails(t) PROVE CallTypes'
  <2>1. failures' \in 0..MaxFailures
    BY SMTT(30), <1>6 DEF BlockWriteFails, Fail
  <2>2. UNCHANGED <<call, outcome, published, unsynced, stranded, calls, interrupts>>
    BY <1>6 DEF BlockWriteFails, ghost
  <2>3. QED
    BY <2>1, <2>2
<1>7. ASSUME NEW t \in Threads, BlockCommit(t) PROVE CallTypes'
  <2>1. call[t] \in Calls
    BY <1>7, CallTyped DEF BlockCommit
  <2>2. published' \subseteq Calls /\ unsynced' \subseteq Calls /\ stranded' \subseteq Calls
    BY ZenonT(40), <1>7, <2>1 DEF BlockCommit, PublishWork, bounds
  <2>3. failures' \in 0..MaxFailures /\ interrupts' = interrupts /\ calls' = calls
    BY <1>7 DEF BlockCommit, PublishWork, bounds
  <2>4. call' = call /\ outcome' \in [Calls -> Outcomes]
    BY <1>7 DEF BlockCommit, PublishWork, bounds
  <2>5. QED
    BY <2>2, <2>3, <2>4
<1>8. ASSUME NEW t \in Threads, BlockRaise(t) PROVE CallTypes'
  BY <1>8 DEF BlockRaise, Finish, Goto, store, txn, ghost, bounds
<1>9. ASSUME NEW t \in Threads, BlockInterrupt(t) PROVE CallTypes'
  <2>1. interrupts' \in 0..MaxInterrupts
    BY <1>9 DEF BlockInterrupt
  <2>2. UNCHANGED <<call, published, unsynced, stranded, calls, failures>>
    BY <1>9 DEF BlockInterrupt, ghost
  <2>3. outcome' \in [Calls -> Outcomes]
    BY <1>9 DEF BlockInterrupt, Finish
  <2>4. QED
    BY <2>1, <2>2, <2>3
<1>10. ASSUME NEW t \in Threads, InsertMany(t) PROVE CallTypes'
  <2>1. call[t] \in Calls
    BY <1>10, CallTyped DEF InsertMany
  <2>2. published' \subseteq Calls /\ unsynced' \subseteq Calls /\ stranded' \subseteq Calls
    BY ZenonT(40), <1>10, <2>1 DEF InsertMany, bounds
  <2>3. failures' \in 0..MaxFailures /\ interrupts' = interrupts /\ calls' = calls
    BY <1>10 DEF InsertMany, bounds
  <2>4. call' = call /\ outcome' \in [Calls -> Outcomes]
    BY <1>10 DEF InsertMany, bounds
  <2>5. QED
    BY <2>2, <2>3, <2>4
<1>11. ASSUME NEW t \in Threads, InsertManyFails(t) PROVE CallTypes'
  BY <1>11 DEF InsertManyFails, Fail, Finish, Goto, store, txn, ghost, bounds
<1>12. ASSUME NEW t \in Threads, InsertManyJoins(t) PROVE CallTypes'
  BY SMTT(30), <1>12 DEF InsertManyJoins, Finish, Goto, store, txn, ghost, bounds
<1>13. ASSUME NEW t \in Threads, Sync(t) PROVE CallTypes'
  BY <1>13 DEF Sync, Finish, Goto, store, txn, ghost, bounds
<1>14. ASSUME NEW t \in Threads, SyncFails(t) PROVE CallTypes'
  <2>1. call[t] \in Calls
    BY <1>14, CallTyped DEF SyncFails
  <2>2. published' \subseteq Calls /\ unsynced' \subseteq Calls /\ stranded' \subseteq Calls
    BY ZenonT(40), <1>14, <2>1 DEF SyncFails, Fail, Finish
  <2>3. failures' \in 0..MaxFailures /\ interrupts' = interrupts /\ calls' = calls
    BY <1>14 DEF SyncFails, Fail, Finish
  <2>4. call' = call /\ outcome' \in [Calls -> Outcomes]
    BY <1>14 DEF SyncFails, Fail, Finish
  <2>5. QED
    BY <2>2, <2>3, <2>4
<1>15. ASSUME NEW t \in Threads, BeginOptimistic(t) PROVE CallTypes'
  BY <1>15 DEF BeginOptimistic, Goto, store, txn, ghost, bounds
<1>16. ASSUME NEW t \in Threads, BeginOptimisticFails(t) PROVE CallTypes'
  BY <1>16 DEF BeginOptimisticFails, Fail, Finish, Goto, store, txn, ghost, bounds
<1>17. ASSUME NEW t \in Threads, Fn(t) PROVE CallTypes'
  BY <1>17 DEF Fn, Goto, store, txn, ghost, bounds
<1>18. ASSUME NEW t \in Threads, FnRaises(t) PROVE CallTypes'
  BY <1>18 DEF FnRaises, Free, EndTxn, Goto, store, txn, ghost, bounds
<1>19. ASSUME NEW t \in Threads, OccCommit(t) PROVE CallTypes'
  <2>1. call[t] \in Calls
    BY <1>19, CallTyped DEF OccCommit
  <2>2. published' \subseteq Calls /\ unsynced' \subseteq Calls /\ stranded' \subseteq Calls
    BY ZenonT(40), <1>19, <2>1 DEF OccCommit, bounds
  <2>3. failures' \in 0..MaxFailures /\ interrupts' = interrupts /\ calls' = calls
    BY <1>19 DEF OccCommit, bounds
  <2>4. call' = call /\ outcome' \in [Calls -> Outcomes]
    BY <1>19 DEF OccCommit, bounds
  <2>5. QED
    BY <2>2, <2>3, <2>4
<1>20. ASSUME NEW t \in Threads, OccSync(t) PROVE CallTypes'
  BY <1>20 DEF OccSync, Free, EndTxn, Goto, store, txn, ghost, bounds
<1>21. ASSUME NEW t \in Threads, OccSyncFails(t) PROVE CallTypes'
  <2>1. call[t] \in Calls
    BY <1>21, CallTyped DEF OccSyncFails
  <2>2. published' \subseteq Calls /\ unsynced' \subseteq Calls /\ stranded' \subseteq Calls
    BY ZenonT(40), <1>21, <2>1 DEF OccSyncFails, Fail
  <2>3. failures' \in 0..MaxFailures /\ interrupts' = interrupts /\ calls' = calls
    BY <1>21 DEF OccSyncFails, Fail
  <2>4. call' = call /\ outcome' \in [Calls -> Outcomes]
    BY <1>21 DEF OccSyncFails, Fail
  <2>5. QED
    BY <2>2, <2>3, <2>4
<1>22. ASSUME NEW t \in Threads, OccConflict(t) PROVE CallTypes'
  BY <1>22 DEF OccConflict, Free, EndTxn, Goto, store, txn, ghost, bounds
<1>23. ASSUME NEW t \in Threads, OccCommitFails(t) PROVE CallTypes'
  BY <1>23 DEF OccCommitFails, Fail, Free, EndTxn, Goto, store, txn, ghost, bounds
<1>24. ASSUME NEW t \in Threads, Retry(t) PROVE CallTypes'
  BY <1>24 DEF Retry, Close, Conflicted, Goto, store, txn, ghost, bounds
<1>25. ASSUME NEW t \in Threads, Release(t) PROVE CallTypes'
  BY <1>25 DEF Release, Close, Conflicted, Finish, Goto, store, txn, ghost, bounds
<1>26. CASE UNCHANGED vars
  BY <1>26 DEF vars, store, txn, ghost, bounds
<1>27. QED
  BY <1>1, <1>2, <1>3, <1>4, <1>5, <1>6, <1>7, <1>8, <1>9, <1>10,
     <1>11, <1>12, <1>13, <1>14, <1>15, <1>16, <1>17, <1>18, <1>19, <1>20,
     <1>21, <1>22, <1>23, <1>24, <1>25, <1>26
  DEF Next, BlockStep, BatchStep, OccStep, Opens,
      CallBlock, CallInsertMany, CallRunOptimistic, CallManual

\* The stages.
LEMMA StageStep == IInv /\ [Next]_vars => Stage'
<1> SUFFICES ASSUME ThreadTypes, Stage, [Next]_vars PROVE Stage'
  BY DEF IInv, TypeOK
<1> USE ConstantsAssumption DEF ThreadTypes, Pcs, Outcomes, BlockPcs, Stage
<1>1. ASSUME NEW t \in Threads, NEW k, NEW label, Opens(k, label), Call(t, k, label)
     PROVE  Stage'
  BY <1>1 DEF Opens, Call, Goto, store, txn, ghost, bounds
<1>2. ASSUME NEW t \in Threads, Begin(t) PROVE Stage'
  BY <1>2 DEF Begin, Goto, store, txn, ghost, bounds
<1>3. ASSUME NEW t \in Threads, BeginFails(t) PROVE Stage'
  BY <1>3 DEF BeginFails, Fail, Finish, Goto, store, txn, ghost, bounds
<1>4. ASSUME NEW t \in Threads, BlockGet(t) PROVE Stage'
  BY <1>4 DEF BlockGet, Goto, store, txn, ghost, bounds
<1>5. ASSUME NEW t \in Threads, BlockWrite(t) PROVE Stage'
  BY <1>5 DEF BlockWrite, Goto, store, txn, ghost, bounds
<1>6. ASSUME NEW t \in Threads, BlockWriteFails(t) PROVE Stage'
  BY <1>6 DEF BlockWriteFails, Fail, Goto, store, txn, ghost, bounds
<1>7. ASSUME NEW t \in Threads, BlockCommit(t) PROVE Stage'
  BY <1>7 DEF BlockCommit, PublishWork, Goto, store, txn, ghost, bounds
<1>8. ASSUME NEW t \in Threads, BlockRaise(t) PROVE Stage'
  BY <1>8 DEF BlockRaise, Finish, Goto, store, txn, ghost, bounds
<1>9. ASSUME NEW t \in Threads, BlockInterrupt(t) PROVE Stage'
  BY <1>9 DEF BlockInterrupt, Finish, Goto, store, txn, ghost, bounds
<1>10. ASSUME NEW t \in Threads, InsertMany(t) PROVE Stage'
  BY <1>10 DEF InsertMany, Goto, store, txn, ghost, bounds
<1>11. ASSUME NEW t \in Threads, InsertManyFails(t) PROVE Stage'
  BY <1>11 DEF InsertManyFails, Fail, Finish, Goto, store, txn, ghost, bounds
<1>12. ASSUME NEW t \in Threads, InsertManyJoins(t) PROVE Stage'
  BY <1>12 DEF InsertManyJoins, Finish, Goto, store, txn, ghost, bounds
<1>13. ASSUME NEW t \in Threads, Sync(t) PROVE Stage'
  BY <1>13 DEF Sync, Finish, Goto, store, txn, ghost, bounds
<1>14. ASSUME NEW t \in Threads, SyncFails(t) PROVE Stage'
  BY <1>14 DEF SyncFails, Fail, Finish, Goto, store, txn, ghost, bounds
<1>15. ASSUME NEW t \in Threads, BeginOptimistic(t) PROVE Stage'
  BY <1>15 DEF BeginOptimistic, Goto, store, txn, ghost, bounds
<1>16. ASSUME NEW t \in Threads, BeginOptimisticFails(t) PROVE Stage'
  BY <1>16 DEF BeginOptimisticFails, Fail, Finish, Goto, store, txn, ghost, bounds
<1>17. ASSUME NEW t \in Threads, Fn(t) PROVE Stage'
  BY <1>17 DEF Fn, Goto, store, txn, ghost, bounds
<1>18. ASSUME NEW t \in Threads, FnRaises(t) PROVE Stage'
  BY <1>18 DEF FnRaises, Free, EndTxn, Goto, store, txn, ghost, bounds
<1>19. ASSUME NEW t \in Threads, OccCommit(t) PROVE Stage'
  BY <1>19 DEF OccCommit, Goto, store, txn, ghost, bounds
<1>20. ASSUME NEW t \in Threads, OccSync(t) PROVE Stage'
  BY <1>20 DEF OccSync, Free, EndTxn, Goto, store, txn, ghost, bounds
<1>21. ASSUME NEW t \in Threads, OccSyncFails(t) PROVE Stage'
  BY <1>21 DEF OccSyncFails, Fail, Free, EndTxn, Goto, store, txn, ghost, bounds
<1>22. ASSUME NEW t \in Threads, OccConflict(t) PROVE Stage'
  BY <1>22 DEF OccConflict, Free, EndTxn, Goto, store, txn, ghost, bounds
<1>23. ASSUME NEW t \in Threads, OccCommitFails(t) PROVE Stage'
  BY <1>23 DEF OccCommitFails, Fail, Free, EndTxn, Goto, store, txn, ghost, bounds
<1>24. ASSUME NEW t \in Threads, Retry(t) PROVE Stage'
  BY <1>24 DEF Retry, Close, Conflicted, Goto, store, txn, ghost, bounds
<1>25. ASSUME NEW t \in Threads, Release(t) PROVE Stage'
  BY <1>25 DEF Release, Close, Conflicted, Finish, Goto, store, txn, ghost, bounds
<1>26. CASE UNCHANGED vars
  BY <1>26 DEF vars, store, txn, ghost, bounds
<1>27. QED
  BY <1>1, <1>2, <1>3, <1>4, <1>5, <1>6, <1>7, <1>8, <1>9, <1>10,
     <1>11, <1>12, <1>13, <1>14, <1>15, <1>16, <1>17, <1>18, <1>19, <1>20,
     <1>21, <1>22, <1>23, <1>24, <1>25, <1>26
  DEF Next, BlockStep, BatchStep, OccStep, Opens,
      CallBlock, CallInsertMany, CallRunOptimistic, CallManual

\* db.mu.
LEMMA LockedStep == IInv /\ [Next]_vars => Locked'
<1> SUFFICES ASSUME ThreadTypes, Locked, [Next]_vars PROVE Locked'
  BY DEF IInv, TypeOK
<1> USE ConstantsAssumption DEF ThreadTypes, Pcs, Outcomes, BlockPcs, Locked, LockFollowsBlock
<1>1. ASSUME NEW t \in Threads, NEW k, NEW label, Opens(k, label), Call(t, k, label)
     PROVE  Locked'
  BY <1>1 DEF Opens, Call, Goto, store, txn, ghost, bounds
<1>2. ASSUME NEW t \in Threads, Begin(t) PROVE Locked'
  BY <1>2 DEF Begin, Goto, store, txn, ghost, bounds
<1>3. ASSUME NEW t \in Threads, BeginFails(t) PROVE Locked'
  BY <1>3 DEF BeginFails, Fail, Finish, Goto, store, txn, ghost, bounds
<1>4. ASSUME NEW t \in Threads, BlockGet(t) PROVE Locked'
  BY <1>4 DEF BlockGet, Goto, store, txn, ghost, bounds
<1>5. ASSUME NEW t \in Threads, BlockWrite(t) PROVE Locked'
  BY <1>5 DEF BlockWrite, Goto, store, txn, ghost, bounds
<1>6. ASSUME NEW t \in Threads, BlockWriteFails(t) PROVE Locked'
  BY <1>6 DEF BlockWriteFails, Fail, Goto, store, txn, ghost, bounds
<1>7. ASSUME NEW t \in Threads, BlockCommit(t) PROVE Locked'
  BY <1>7 DEF BlockCommit, PublishWork, Goto, store, txn, ghost, bounds
<1>8. ASSUME NEW t \in Threads, BlockRaise(t) PROVE Locked'
  BY <1>8 DEF BlockRaise, Finish, Goto, store, txn, ghost, bounds
<1>9. ASSUME NEW t \in Threads, BlockInterrupt(t) PROVE Locked'
  BY <1>9 DEF BlockInterrupt, Finish, Goto, store, txn, ghost, bounds
<1>10. ASSUME NEW t \in Threads, InsertMany(t) PROVE Locked'
  BY <1>10 DEF InsertMany, Goto, store, txn, ghost, bounds
<1>11. ASSUME NEW t \in Threads, InsertManyFails(t) PROVE Locked'
  BY <1>11 DEF InsertManyFails, Fail, Finish, Goto, store, txn, ghost, bounds
<1>12. ASSUME NEW t \in Threads, InsertManyJoins(t) PROVE Locked'
  BY <1>12 DEF InsertManyJoins, Finish, Goto, store, txn, ghost, bounds
<1>13. ASSUME NEW t \in Threads, Sync(t) PROVE Locked'
  BY <1>13 DEF Sync, Finish, Goto, store, txn, ghost, bounds
<1>14. ASSUME NEW t \in Threads, SyncFails(t) PROVE Locked'
  BY <1>14 DEF SyncFails, Fail, Finish, Goto, store, txn, ghost, bounds
<1>15. ASSUME NEW t \in Threads, BeginOptimistic(t) PROVE Locked'
  BY <1>15 DEF BeginOptimistic, Goto, store, txn, ghost, bounds
<1>16. ASSUME NEW t \in Threads, BeginOptimisticFails(t) PROVE Locked'
  BY <1>16 DEF BeginOptimisticFails, Fail, Finish, Goto, store, txn, ghost, bounds
<1>17. ASSUME NEW t \in Threads, Fn(t) PROVE Locked'
  BY <1>17 DEF Fn, Goto, store, txn, ghost, bounds
<1>18. ASSUME NEW t \in Threads, FnRaises(t) PROVE Locked'
  BY <1>18 DEF FnRaises, Free, EndTxn, Goto, store, txn, ghost, bounds
<1>19. ASSUME NEW t \in Threads, OccCommit(t) PROVE Locked'
  BY <1>19 DEF OccCommit, Goto, store, txn, ghost, bounds
<1>20. ASSUME NEW t \in Threads, OccSync(t) PROVE Locked'
  BY <1>20 DEF OccSync, Free, EndTxn, Goto, store, txn, ghost, bounds
<1>21. ASSUME NEW t \in Threads, OccSyncFails(t) PROVE Locked'
  BY <1>21 DEF OccSyncFails, Fail, Free, EndTxn, Goto, store, txn, ghost, bounds
<1>22. ASSUME NEW t \in Threads, OccConflict(t) PROVE Locked'
  BY <1>22 DEF OccConflict, Free, EndTxn, Goto, store, txn, ghost, bounds
<1>23. ASSUME NEW t \in Threads, OccCommitFails(t) PROVE Locked'
  BY <1>23 DEF OccCommitFails, Fail, Free, EndTxn, Goto, store, txn, ghost, bounds
<1>24. ASSUME NEW t \in Threads, Retry(t) PROVE Locked'
  BY <1>24 DEF Retry, Close, Conflicted, Goto, store, txn, ghost, bounds
<1>25. ASSUME NEW t \in Threads, Release(t) PROVE Locked'
  BY <1>25 DEF Release, Close, Conflicted, Finish, Goto, store, txn, ghost, bounds
<1>26. CASE UNCHANGED vars
  BY <1>26 DEF vars, store, txn, ghost, bounds
<1>27. QED
  BY <1>1, <1>2, <1>3, <1>4, <1>5, <1>6, <1>7, <1>8, <1>9, <1>10,
     <1>11, <1>12, <1>13, <1>14, <1>15, <1>16, <1>17, <1>18, <1>19, <1>20,
     <1>21, <1>22, <1>23, <1>24, <1>25, <1>26
  DEF Next, BlockStep, BatchStep, OccStep, Opens,
      CallBlock, CallInsertMany, CallRunOptimistic, CallManual

\* The handles.
LEMMA HandlesStep == IInv /\ [Next]_vars => Handles'
<1> SUFFICES ASSUME ThreadTypes, Handles, [Next]_vars PROVE Handles'
  BY DEF IInv, TypeOK
<1> USE ConstantsAssumption DEF ThreadTypes, Pcs, Outcomes, BlockPcs, Handles
<1>1. ASSUME NEW t \in Threads, NEW k, NEW label, Opens(k, label), Call(t, k, label)
     PROVE  Handles'
  BY <1>1 DEF Opens, Call, Goto, store, txn, ghost, bounds
<1>2. ASSUME NEW t \in Threads, Begin(t) PROVE Handles'
  BY <1>2 DEF Begin, Goto, store, txn, ghost, bounds
<1>3. ASSUME NEW t \in Threads, BeginFails(t) PROVE Handles'
  BY <1>3 DEF BeginFails, Fail, Finish, Goto, store, txn, ghost, bounds
<1>4. ASSUME NEW t \in Threads, BlockGet(t) PROVE Handles'
  BY <1>4 DEF BlockGet, Goto, store, txn, ghost, bounds
<1>5. ASSUME NEW t \in Threads, BlockWrite(t) PROVE Handles'
  BY <1>5 DEF BlockWrite, Goto, store, txn, ghost, bounds
<1>6. ASSUME NEW t \in Threads, BlockWriteFails(t) PROVE Handles'
  BY <1>6 DEF BlockWriteFails, Fail, Goto, store, txn, ghost, bounds
<1>7. ASSUME NEW t \in Threads, BlockCommit(t) PROVE Handles'
  BY <1>7 DEF BlockCommit, PublishWork, Goto, store, txn, ghost, bounds
<1>8. ASSUME NEW t \in Threads, BlockRaise(t) PROVE Handles'
  BY <1>8 DEF BlockRaise, Finish, Goto, store, txn, ghost, bounds
<1>9. ASSUME NEW t \in Threads, BlockInterrupt(t) PROVE Handles'
  BY <1>9 DEF BlockInterrupt, Finish, Goto, store, txn, ghost, bounds
<1>10. ASSUME NEW t \in Threads, InsertMany(t) PROVE Handles'
  BY <1>10 DEF InsertMany, Goto, store, txn, ghost, bounds
<1>11. ASSUME NEW t \in Threads, InsertManyFails(t) PROVE Handles'
  BY <1>11 DEF InsertManyFails, Fail, Finish, Goto, store, txn, ghost, bounds
<1>12. ASSUME NEW t \in Threads, InsertManyJoins(t) PROVE Handles'
  BY <1>12 DEF InsertManyJoins, Finish, Goto, store, txn, ghost, bounds
<1>13. ASSUME NEW t \in Threads, Sync(t) PROVE Handles'
  BY <1>13 DEF Sync, Finish, Goto, store, txn, ghost, bounds
<1>14. ASSUME NEW t \in Threads, SyncFails(t) PROVE Handles'
  BY <1>14 DEF SyncFails, Fail, Finish, Goto, store, txn, ghost, bounds
<1>15. ASSUME NEW t \in Threads, BeginOptimistic(t) PROVE Handles'
  BY <1>15 DEF BeginOptimistic, Goto, store, txn, ghost, bounds
<1>16. ASSUME NEW t \in Threads, BeginOptimisticFails(t) PROVE Handles'
  BY <1>16 DEF BeginOptimisticFails, Fail, Finish, Goto, store, txn, ghost, bounds
<1>17. ASSUME NEW t \in Threads, Fn(t) PROVE Handles'
  BY <1>17 DEF Fn, Goto, store, txn, ghost, bounds
<1>18. ASSUME NEW t \in Threads, FnRaises(t) PROVE Handles'
  BY <1>18 DEF FnRaises, Free, EndTxn, Goto, store, txn, ghost, bounds
<1>19. ASSUME NEW t \in Threads, OccCommit(t) PROVE Handles'
  BY <1>19 DEF OccCommit, Goto, store, txn, ghost, bounds
<1>20. ASSUME NEW t \in Threads, OccSync(t) PROVE Handles'
  BY <1>20 DEF OccSync, Free, EndTxn, Goto, store, txn, ghost, bounds
<1>21. ASSUME NEW t \in Threads, OccSyncFails(t) PROVE Handles'
  BY <1>21 DEF OccSyncFails, Fail, Free, EndTxn, Goto, store, txn, ghost, bounds
<1>22. ASSUME NEW t \in Threads, OccConflict(t) PROVE Handles'
  BY <1>22 DEF OccConflict, Free, EndTxn, Goto, store, txn, ghost, bounds
<1>23. ASSUME NEW t \in Threads, OccCommitFails(t) PROVE Handles'
  BY <1>23 DEF OccCommitFails, Fail, Free, EndTxn, Goto, store, txn, ghost, bounds
<1>24. ASSUME NEW t \in Threads, Retry(t) PROVE Handles'
  BY <1>24 DEF Retry, Close, Conflicted, Goto, store, txn, ghost, bounds
<1>25. ASSUME NEW t \in Threads, Release(t) PROVE Handles'
  BY <1>25 DEF Release, Close, Conflicted, Finish, Goto, store, txn, ghost, bounds
<1>26. CASE UNCHANGED vars
  BY <1>26 DEF vars, store, txn, ghost, bounds
<1>27. QED
  BY <1>1, <1>2, <1>3, <1>4, <1>5, <1>6, <1>7, <1>8, <1>9, <1>10,
     <1>11, <1>12, <1>13, <1>14, <1>15, <1>16, <1>17, <1>18, <1>19, <1>20,
     <1>21, <1>22, <1>23, <1>24, <1>25, <1>26
  DEF Next, BlockStep, BatchStep, OccStep, Opens,
      CallBlock, CallInsertMany, CallRunOptimistic, CallManual

\* The numbers of the calls.
LEMMA NumberedStep == IInv /\ [Next]_vars => Numbered'
<1> SUFFICES ASSUME ThreadTypes, CallTypes, Numbered, [Next]_vars PROVE Numbered'
  BY DEF IInv, TypeOK
<1> USE ConstantsAssumption DEF ThreadTypes, Pcs, Outcomes, BlockPcs, CallTypes, Calls, Numbered
<1>1. ASSUME NEW t \in Threads, NEW k, NEW label, Opens(k, label), Call(t, k, label)
     PROVE  Numbered'
  <2> USE <1>1 DEF Call, Goto
  <2>1. /\ calls' = calls + 1 /\ calls + 1 \in Calls
        /\ call' = [call EXCEPT ![t] = calls + 1]
        /\ outcome' = [outcome EXCEPT ![calls + 1] = "running"]
        /\ published' = published
    BY DEF ghost
  <2>2. call'[t] = calls + 1 /\ \A u \in Threads \ {t} : call'[u] = call[u] /\ call[u] <= calls
    BY <2>1
  <2>3. \A u \in Threads : call'[u] <= calls'
    BY SMTT(30), <2>1, <2>2
  <2>4. \A u \in Threads : pc'[u] # "idle" => call'[u] # 0 /\ outcome'[call'[u]] = "running"
    <3>1. ASSUME NEW u \in Threads \ {t}, pc'[u] # "idle"
          PROVE  call'[u] # 0 /\ outcome'[call'[u]] = "running"
      <4>1. pc[u] # "idle"
        BY <3>1
      <4>2. call[u] \in Calls /\ call[u] # calls + 1 /\ outcome[call[u]] = "running"
        BY <4>1, <2>2
      <4>3. QED
        BY <4>2, <2>1, <2>2
    <3>2. call'[t] # 0 /\ outcome'[call'[t]] = "running"
      BY <2>1, <2>2
    <3>3. QED
      BY <3>1, <3>2
  <2>5. \A u, v \in Threads : call'[u] = call'[v] /\ call'[u] # 0 => u = v
    BY SMTT(30), <2>2
  <2>6. \A c \in Calls : c > calls' => outcome'[c] = "none" /\ c \notin published'
    BY <2>1
  <2>7. QED
    BY <2>3, <2>4, <2>5, <2>6
<1>2. ASSUME NEW t \in Threads, Begin(t) PROVE Numbered'
  BY <1>2 DEF Begin, Goto, store, txn, ghost, bounds
<1>3. ASSUME NEW t \in Threads, BeginFails(t) PROVE Numbered'
  BY <1>3 DEF BeginFails, Fail, Finish, Goto, store, txn, ghost, bounds
<1>4. ASSUME NEW t \in Threads, BlockGet(t) PROVE Numbered'
  BY <1>4 DEF BlockGet, Goto, store, txn, ghost, bounds
<1>5. ASSUME NEW t \in Threads, BlockWrite(t) PROVE Numbered'
  BY <1>5 DEF BlockWrite, Goto, store, txn, ghost, bounds
<1>6. ASSUME NEW t \in Threads, BlockWriteFails(t) PROVE Numbered'
  BY ZenonT(40), <1>6 DEF BlockWriteFails, Fail, Goto, store, txn, ghost, bounds
<1>7. ASSUME NEW t \in Threads, BlockCommit(t) PROVE Numbered'
  BY <1>7 DEF BlockCommit, PublishWork, Goto, store, txn, ghost, bounds
<1>8. ASSUME NEW t \in Threads, BlockRaise(t) PROVE Numbered'
  BY <1>8 DEF BlockRaise, Finish, Goto, store, txn, ghost, bounds
<1>9. ASSUME NEW t \in Threads, BlockInterrupt(t) PROVE Numbered'
  BY <1>9 DEF BlockInterrupt, Finish, Goto, store, txn, ghost, bounds
<1>10. ASSUME NEW t \in Threads, InsertMany(t) PROVE Numbered'
  BY <1>10 DEF InsertMany, Goto, store, txn, ghost, bounds
<1>11. ASSUME NEW t \in Threads, InsertManyFails(t) PROVE Numbered'
  BY <1>11 DEF InsertManyFails, Fail, Finish, Goto, store, txn, ghost, bounds
<1>12. ASSUME NEW t \in Threads, InsertManyJoins(t) PROVE Numbered'
  BY SMTT(30), <1>12 DEF InsertManyJoins, Finish, Goto, store, txn, ghost, bounds
<1>13. ASSUME NEW t \in Threads, Sync(t) PROVE Numbered'
  BY <1>13 DEF Sync, Finish, Goto, store, txn, ghost, bounds
<1>14. ASSUME NEW t \in Threads, SyncFails(t) PROVE Numbered'
  BY <1>14 DEF SyncFails, Fail, Finish, Goto, store, txn, ghost, bounds
<1>15. ASSUME NEW t \in Threads, BeginOptimistic(t) PROVE Numbered'
  BY <1>15 DEF BeginOptimistic, Goto, store, txn, ghost, bounds
<1>16. ASSUME NEW t \in Threads, BeginOptimisticFails(t) PROVE Numbered'
  BY <1>16 DEF BeginOptimisticFails, Fail, Finish, Goto, store, txn, ghost, bounds
<1>17. ASSUME NEW t \in Threads, Fn(t) PROVE Numbered'
  BY <1>17 DEF Fn, Goto, store, txn, ghost, bounds
<1>18. ASSUME NEW t \in Threads, FnRaises(t) PROVE Numbered'
  BY <1>18 DEF FnRaises, Free, EndTxn, Goto, store, txn, ghost, bounds
<1>19. ASSUME NEW t \in Threads, OccCommit(t) PROVE Numbered'
  BY <1>19 DEF OccCommit, Goto, store, txn, ghost, bounds
<1>20. ASSUME NEW t \in Threads, OccSync(t) PROVE Numbered'
  BY <1>20 DEF OccSync, Free, EndTxn, Goto, store, txn, ghost, bounds
<1>21. ASSUME NEW t \in Threads, OccSyncFails(t) PROVE Numbered'
  BY <1>21 DEF OccSyncFails, Fail, Free, EndTxn, Goto, store, txn, ghost, bounds
<1>22. ASSUME NEW t \in Threads, OccConflict(t) PROVE Numbered'
  BY <1>22 DEF OccConflict, Free, EndTxn, Goto, store, txn, ghost, bounds
<1>23. ASSUME NEW t \in Threads, OccCommitFails(t) PROVE Numbered'
  BY <1>23 DEF OccCommitFails, Fail, Free, EndTxn, Goto, store, txn, ghost, bounds
<1>24. ASSUME NEW t \in Threads, Retry(t) PROVE Numbered'
  BY <1>24 DEF Retry, Close, Conflicted, Goto, store, txn, ghost, bounds
<1>25. ASSUME NEW t \in Threads, Release(t) PROVE Numbered'
  BY <1>25 DEF Release, Close, Conflicted, Finish, Goto, store, txn, ghost, bounds
<1>26. CASE UNCHANGED vars
  BY <1>26 DEF vars, store, txn, ghost, bounds
<1>27. QED
  BY <1>1, <1>2, <1>3, <1>4, <1>5, <1>6, <1>7, <1>8, <1>9, <1>10,
     <1>11, <1>12, <1>13, <1>14, <1>15, <1>16, <1>17, <1>18, <1>19, <1>20,
     <1>21, <1>22, <1>23, <1>24, <1>25, <1>26
  DEF Next, BlockStep, BatchStep, OccStep, Opens,
      CallBlock, CallInsertMany, CallRunOptimistic, CallManual

\* What is published when.
LEMMA ProgressStep == IInv /\ [Next]_vars => Progress'
<1> SUFFICES ASSUME ThreadTypes, CallTypes, Numbered, Progress, [Next]_vars PROVE Progress'
  BY DEF IInv, TypeOK
<1> USE ConstantsAssumption DEF ThreadTypes, Pcs, Outcomes, BlockPcs, CallTypes, Calls, Numbered, Progress
<1>1. ASSUME NEW t \in Threads, NEW k, NEW label, Opens(k, label), Call(t, k, label)
     PROVE  Progress'
  BY SMTT(30), <1>1 DEF Opens, Call, Goto, store, txn, ghost, bounds
<1>2. ASSUME NEW t \in Threads, Begin(t) PROVE Progress'
  BY <1>2 DEF Begin, Goto, store, txn, ghost, bounds
<1>3. ASSUME NEW t \in Threads, BeginFails(t) PROVE Progress'
  BY <1>3 DEF BeginFails, Fail, Finish, Goto, store, txn, ghost, bounds
<1>4. ASSUME NEW t \in Threads, BlockGet(t) PROVE Progress'
  BY <1>4 DEF BlockGet, Goto, store, txn, ghost, bounds
<1>5. ASSUME NEW t \in Threads, BlockWrite(t) PROVE Progress'
  BY <1>5 DEF BlockWrite, Goto, store, txn, ghost, bounds
<1>6. ASSUME NEW t \in Threads, BlockWriteFails(t) PROVE Progress'
  BY <1>6 DEF BlockWriteFails, Fail, Goto, store, txn, ghost, bounds
<1>7. ASSUME NEW t \in Threads, BlockCommit(t) PROVE Progress'
  BY <1>7 DEF BlockCommit, PublishWork, Goto, store, txn, ghost, bounds
<1>8. ASSUME NEW t \in Threads, BlockRaise(t) PROVE Progress'
  BY <1>8 DEF BlockRaise, Finish, Goto, store, txn, ghost, bounds
<1>9. ASSUME NEW t \in Threads, BlockInterrupt(t) PROVE Progress'
  BY <1>9 DEF BlockInterrupt, Finish, Goto, store, txn, ghost, bounds
<1>10. ASSUME NEW t \in Threads, InsertMany(t) PROVE Progress'
  BY <1>10 DEF InsertMany, Goto, store, txn, ghost, bounds
<1>11. ASSUME NEW t \in Threads, InsertManyFails(t) PROVE Progress'
  BY <1>11 DEF InsertManyFails, Fail, Finish, Goto, store, txn, ghost, bounds
<1>12. ASSUME NEW t \in Threads, InsertManyJoins(t) PROVE Progress'
  BY <1>12 DEF InsertManyJoins, Finish, Goto, store, txn, ghost, bounds
<1>13. ASSUME NEW t \in Threads, Sync(t) PROVE Progress'
  BY <1>13 DEF Sync, Finish, Goto, store, txn, ghost, bounds
<1>14. ASSUME NEW t \in Threads, SyncFails(t) PROVE Progress'
  BY <1>14 DEF SyncFails, Fail, Finish, Goto, store, txn, ghost, bounds
<1>15. ASSUME NEW t \in Threads, BeginOptimistic(t) PROVE Progress'
  BY <1>15 DEF BeginOptimistic, Goto, store, txn, ghost, bounds
<1>16. ASSUME NEW t \in Threads, BeginOptimisticFails(t) PROVE Progress'
  BY <1>16 DEF BeginOptimisticFails, Fail, Finish, Goto, store, txn, ghost, bounds
<1>17. ASSUME NEW t \in Threads, Fn(t) PROVE Progress'
  BY <1>17 DEF Fn, Goto, store, txn, ghost, bounds
<1>18. ASSUME NEW t \in Threads, FnRaises(t) PROVE Progress'
  BY <1>18 DEF FnRaises, Free, EndTxn, Goto, store, txn, ghost, bounds
<1>19. ASSUME NEW t \in Threads, OccCommit(t) PROVE Progress'
  BY <1>19 DEF OccCommit, Goto, store, txn, ghost, bounds
<1>20. ASSUME NEW t \in Threads, OccSync(t) PROVE Progress'
  BY <1>20 DEF OccSync, Free, EndTxn, Goto, store, txn, ghost, bounds
<1>21. ASSUME NEW t \in Threads, OccSyncFails(t) PROVE Progress'
  BY SMTT(30), <1>21 DEF OccSyncFails, Fail, Free, EndTxn, Goto, store, txn, ghost, bounds
<1>22. ASSUME NEW t \in Threads, OccConflict(t) PROVE Progress'
  BY <1>22 DEF OccConflict, Free, EndTxn, Goto, store, txn, ghost, bounds
<1>23. ASSUME NEW t \in Threads, OccCommitFails(t) PROVE Progress'
  BY <1>23 DEF OccCommitFails, Fail, Free, EndTxn, Goto, store, txn, ghost, bounds
<1>24. ASSUME NEW t \in Threads, Retry(t) PROVE Progress'
  BY <1>24 DEF Retry, Close, Conflicted, Goto, store, txn, ghost, bounds
<1>25. ASSUME NEW t \in Threads, Release(t) PROVE Progress'
  BY <1>25 DEF Release, Close, Conflicted, Finish, Goto, store, txn, ghost, bounds
<1>26. CASE UNCHANGED vars
  BY <1>26 DEF vars, store, txn, ghost, bounds
<1>27. QED
  BY <1>1, <1>2, <1>3, <1>4, <1>5, <1>6, <1>7, <1>8, <1>9, <1>10,
     <1>11, <1>12, <1>13, <1>14, <1>15, <1>16, <1>17, <1>18, <1>19, <1>20,
     <1>21, <1>22, <1>23, <1>24, <1>25, <1>26
  DEF Next, BlockStep, BatchStep, OccStep, Opens,
      CallBlock, CallInsertMany, CallRunOptimistic, CallManual

\* The block's work.
LEMMA WorkingStep == IInv /\ [Next]_vars => Working'
<1> SUFFICES ASSUME ThreadTypes, StoreTypes, Locked, Working, [Next]_vars PROVE Working'
  BY DEF IInv, TypeOK
<1> USE ConstantsAssumption DEF ThreadTypes, StoreTypes, BlockPcs, Locked, LockFollowsBlock, Working
<1>1. ASSUME NEW t \in Threads, NEW k, NEW label, Opens(k, label), Call(t, k, label)
     PROVE  Working'
  BY <1>1 DEF Opens, Call, Goto, store, txn, ghost, bounds
<1>2. ASSUME NEW t \in Threads, Begin(t) PROVE Working'
  BY <1>2 DEF Begin, Goto, store, txn, ghost, bounds
<1>3. ASSUME NEW t \in Threads, BeginFails(t) PROVE Working'
  BY <1>3 DEF BeginFails, Fail, Finish, Goto, store, txn, ghost, bounds
<1>4. ASSUME NEW t \in Threads, BlockGet(t) PROVE Working'
  BY <1>4 DEF BlockGet, Goto, store, txn, ghost, bounds
<1>5. ASSUME NEW t \in Threads, BlockWrite(t) PROVE Working'
  BY <1>5 DEF BlockWrite, Goto, store, txn, ghost, bounds
<1>6. ASSUME NEW t \in Threads, BlockWriteFails(t) PROVE Working'
  BY <1>6 DEF BlockWriteFails, Fail, Goto, store, txn, ghost, bounds
<1>7. ASSUME NEW t \in Threads, BlockCommit(t) PROVE Working'
  BY <1>7 DEF BlockCommit, PublishWork, Goto, store, txn, ghost, bounds
<1>8. ASSUME NEW t \in Threads, BlockRaise(t) PROVE Working'
  BY <1>8 DEF BlockRaise, Finish, Goto, store, txn, ghost, bounds
<1>9. ASSUME NEW t \in Threads, BlockInterrupt(t) PROVE Working'
  BY <1>9 DEF BlockInterrupt, Finish, Goto, store, txn, ghost, bounds
<1>10. ASSUME NEW t \in Threads, InsertMany(t) PROVE Working'
  BY <1>10 DEF InsertMany, Goto, store, txn, ghost, bounds
<1>11. ASSUME NEW t \in Threads, InsertManyFails(t) PROVE Working'
  BY <1>11 DEF InsertManyFails, Fail, Finish, Goto, store, txn, ghost, bounds
<1>12. ASSUME NEW t \in Threads, InsertManyJoins(t) PROVE Working'
  BY <1>12 DEF InsertManyJoins, Finish, Goto, store, txn, ghost, bounds
<1>13. ASSUME NEW t \in Threads, Sync(t) PROVE Working'
  BY <1>13 DEF Sync, Finish, Goto, store, txn, ghost, bounds
<1>14. ASSUME NEW t \in Threads, SyncFails(t) PROVE Working'
  BY <1>14 DEF SyncFails, Fail, Finish, Goto, store, txn, ghost, bounds
<1>15. ASSUME NEW t \in Threads, BeginOptimistic(t) PROVE Working'
  BY <1>15 DEF BeginOptimistic, Goto, store, txn, ghost, bounds
<1>16. ASSUME NEW t \in Threads, BeginOptimisticFails(t) PROVE Working'
  BY <1>16 DEF BeginOptimisticFails, Fail, Finish, Goto, store, txn, ghost, bounds
<1>17. ASSUME NEW t \in Threads, Fn(t) PROVE Working'
  BY <1>17 DEF Fn, Goto, store, txn, ghost, bounds
<1>18. ASSUME NEW t \in Threads, FnRaises(t) PROVE Working'
  BY <1>18 DEF FnRaises, Free, EndTxn, Goto, store, txn, ghost, bounds
<1>19. ASSUME NEW t \in Threads, OccCommit(t) PROVE Working'
  BY <1>19 DEF OccCommit, Goto, store, txn, ghost, bounds
<1>20. ASSUME NEW t \in Threads, OccSync(t) PROVE Working'
  BY <1>20 DEF OccSync, Free, EndTxn, Goto, store, txn, ghost, bounds
<1>21. ASSUME NEW t \in Threads, OccSyncFails(t) PROVE Working'
  BY <1>21 DEF OccSyncFails, Fail, Free, EndTxn, Goto, store, txn, ghost, bounds
<1>22. ASSUME NEW t \in Threads, OccConflict(t) PROVE Working'
  BY <1>22 DEF OccConflict, Free, EndTxn, Goto, store, txn, ghost, bounds
<1>23. ASSUME NEW t \in Threads, OccCommitFails(t) PROVE Working'
  BY <1>23 DEF OccCommitFails, Fail, Free, EndTxn, Goto, store, txn, ghost, bounds
<1>24. ASSUME NEW t \in Threads, Retry(t) PROVE Working'
  BY <1>24 DEF Retry, Close, Conflicted, Goto, store, txn, ghost, bounds
<1>25. ASSUME NEW t \in Threads, Release(t) PROVE Working'
  BY <1>25 DEF Release, Close, Conflicted, Finish, Goto, store, txn, ghost, bounds
<1>26. CASE UNCHANGED vars
  BY <1>26 DEF vars, store, txn, ghost, bounds
<1>27. QED
  BY <1>1, <1>2, <1>3, <1>4, <1>5, <1>6, <1>7, <1>8, <1>9, <1>10,
     <1>11, <1>12, <1>13, <1>14, <1>15, <1>16, <1>17, <1>18, <1>19, <1>20,
     <1>21, <1>22, <1>23, <1>24, <1>25, <1>26
  DEF Next, BlockStep, BatchStep, OccStep, Opens,
      CallBlock, CallInsertMany, CallRunOptimistic, CallManual

\* What callers are told.
LEMMA OutcomeStep == IInv /\ [Next]_vars => OutcomeTruth'
<1> SUFFICES ASSUME ThreadTypes, CallTypes, Numbered, Progress, OutcomeTruth, [Next]_vars PROVE OutcomeTruth'
  BY DEF IInv, TypeOK
<1> USE ConstantsAssumption DEF CallTypes, Calls, BlockPcs, Numbered, Progress, OutcomeTruth
<1>1. ASSUME NEW t \in Threads, NEW k, NEW label, Opens(k, label), Call(t, k, label)
     PROVE  OutcomeTruth'
  BY <1>1 DEF Opens, Call, Goto, store, txn, ghost, bounds
<1>2. ASSUME NEW t \in Threads, Begin(t) PROVE OutcomeTruth'
  BY <1>2 DEF Begin, Goto, store, txn, ghost, bounds
<1>3. ASSUME NEW t \in Threads, BeginFails(t) PROVE OutcomeTruth'
  BY <1>3 DEF BeginFails, Fail, Finish, Goto, store, txn, ghost, bounds
<1>4. ASSUME NEW t \in Threads, BlockGet(t) PROVE OutcomeTruth'
  BY <1>4 DEF BlockGet, Goto, store, txn, ghost, bounds
<1>5. ASSUME NEW t \in Threads, BlockWrite(t) PROVE OutcomeTruth'
  BY <1>5 DEF BlockWrite, Goto, store, txn, ghost, bounds
<1>6. ASSUME NEW t \in Threads, BlockWriteFails(t) PROVE OutcomeTruth'
  BY <1>6 DEF BlockWriteFails, Fail, Goto, store, txn, ghost, bounds
<1>7. ASSUME NEW t \in Threads, BlockCommit(t) PROVE OutcomeTruth'
  BY <1>7 DEF BlockCommit, PublishWork, Goto, store, txn, ghost, bounds
<1>8. ASSUME NEW t \in Threads, BlockRaise(t) PROVE OutcomeTruth'
  BY <1>8 DEF BlockRaise, Finish, Goto, store, txn, ghost, bounds
<1>9. ASSUME NEW t \in Threads, BlockInterrupt(t) PROVE OutcomeTruth'
  BY <1>9 DEF BlockInterrupt, Finish, Goto, store, txn, ghost, bounds
<1>10. ASSUME NEW t \in Threads, InsertMany(t) PROVE OutcomeTruth'
  BY <1>10 DEF InsertMany, Goto, store, txn, ghost, bounds
<1>11. ASSUME NEW t \in Threads, InsertManyFails(t) PROVE OutcomeTruth'
  BY <1>11 DEF InsertManyFails, Fail, Finish, Goto, store, txn, ghost, bounds
<1>12. ASSUME NEW t \in Threads, InsertManyJoins(t) PROVE OutcomeTruth'
  BY <1>12 DEF InsertManyJoins, Finish, Goto, store, txn, ghost, bounds
<1>13. ASSUME NEW t \in Threads, Sync(t) PROVE OutcomeTruth'
  BY <1>13 DEF Sync, Finish, Goto, store, txn, ghost, bounds
<1>14. ASSUME NEW t \in Threads, SyncFails(t) PROVE OutcomeTruth'
  BY <1>14 DEF SyncFails, Fail, Finish, Goto, store, txn, ghost, bounds
<1>15. ASSUME NEW t \in Threads, BeginOptimistic(t) PROVE OutcomeTruth'
  BY <1>15 DEF BeginOptimistic, Goto, store, txn, ghost, bounds
<1>16. ASSUME NEW t \in Threads, BeginOptimisticFails(t) PROVE OutcomeTruth'
  BY <1>16 DEF BeginOptimisticFails, Fail, Finish, Goto, store, txn, ghost, bounds
<1>17. ASSUME NEW t \in Threads, Fn(t) PROVE OutcomeTruth'
  BY <1>17 DEF Fn, Goto, store, txn, ghost, bounds
<1>18. ASSUME NEW t \in Threads, FnRaises(t) PROVE OutcomeTruth'
  BY <1>18 DEF FnRaises, Free, EndTxn, Goto, store, txn, ghost, bounds
<1>19. ASSUME NEW t \in Threads, OccCommit(t) PROVE OutcomeTruth'
  BY <1>19 DEF OccCommit, Goto, store, txn, ghost, bounds
<1>20. ASSUME NEW t \in Threads, OccSync(t) PROVE OutcomeTruth'
  BY <1>20 DEF OccSync, Free, EndTxn, Goto, store, txn, ghost, bounds
<1>21. ASSUME NEW t \in Threads, OccSyncFails(t) PROVE OutcomeTruth'
  BY <1>21 DEF OccSyncFails, Fail, Free, EndTxn, Goto, store, txn, ghost, bounds
<1>22. ASSUME NEW t \in Threads, OccConflict(t) PROVE OutcomeTruth'
  BY <1>22 DEF OccConflict, Free, EndTxn, Goto, store, txn, ghost, bounds
<1>23. ASSUME NEW t \in Threads, OccCommitFails(t) PROVE OutcomeTruth'
  BY <1>23 DEF OccCommitFails, Fail, Free, EndTxn, Goto, store, txn, ghost, bounds
<1>24. ASSUME NEW t \in Threads, Retry(t) PROVE OutcomeTruth'
  BY <1>24 DEF Retry, Close, Conflicted, Goto, store, txn, ghost, bounds
<1>25. ASSUME NEW t \in Threads, Release(t) PROVE OutcomeTruth'
  BY <1>25 DEF Release, Close, Conflicted, Finish, Goto, store, txn, ghost, bounds
<1>26. CASE UNCHANGED vars
  BY <1>26 DEF vars, store, txn, ghost, bounds
<1>27. QED
  BY <1>1, <1>2, <1>3, <1>4, <1>5, <1>6, <1>7, <1>8, <1>9, <1>10,
     <1>11, <1>12, <1>13, <1>14, <1>15, <1>16, <1>17, <1>18, <1>19, <1>20,
     <1>21, <1>22, <1>23, <1>24, <1>25, <1>26
  DEF Next, BlockStep, BatchStep, OccStep, Opens,
      CallBlock, CallInsertMany, CallRunOptimistic, CallManual

\* What the store holds.
LEMMA EffectsStep == IInv /\ [Next]_vars => EffectsExact'
<1> SUFFICES ASSUME ThreadTypes, StoreTypes, CallTypes, Stage, Numbered, Progress, Working, EffectsExact, [Next]_vars PROVE EffectsExact'
  BY DEF IInv, TypeOK
<1> USE ConstantsAssumption DEF CallTypes, Numbered, Progress, EffectsExact, BlockPcs
<1>1. ASSUME NEW t \in Threads, NEW k, NEW label, Opens(k, label), Call(t, k, label)
     PROVE  EffectsExact'
  <2>1. UNCHANGED <<doc, rows, published>>
    BY <1>1 DEF Call, store, ghost
  <2>2. /\ call'[t] = calls + 1 /\ calls + 1 \in Calls /\ calls + 1 \notin published
        /\ \A u \in Threads \ {t} : call'[u] = call[u] /\ kind'[u] = kind[u]
    BY <1>1 DEF Call, Calls, ThreadTypes
  <2>3. QED
    BY <2>1, <2>2
<1>2. ASSUME NEW t \in Threads, Begin(t) PROVE EffectsExact'
  BY <1>2 DEF Begin, Goto, store, txn, ghost, bounds
<1>3. ASSUME NEW t \in Threads, BeginFails(t) PROVE EffectsExact'
  BY <1>3 DEF BeginFails, Fail, Finish, Goto, store, txn, ghost, bounds
<1>4. ASSUME NEW t \in Threads, BlockGet(t) PROVE EffectsExact'
  BY <1>4 DEF BlockGet, Goto, store, txn, ghost, bounds
<1>5. ASSUME NEW t \in Threads, BlockWrite(t) PROVE EffectsExact'
  BY <1>5 DEF BlockWrite, Goto, store, txn, ghost, bounds
<1>6. ASSUME NEW t \in Threads, BlockWriteFails(t) PROVE EffectsExact'
  BY <1>6 DEF BlockWriteFails, Fail, Goto, store, txn, ghost, bounds
<1>7. ASSUME NEW t \in Threads, BlockCommit(t) PROVE EffectsExact'
  <2>1. call[t] \in Calls /\ call[t] \notin published
    BY <1>7, CallTyped DEF BlockCommit
  <2>2. work.doc = Bump(doc, call[t]) /\ work.rows = rows \cup RowsOf(call[t])
    BY <1>7 DEF BlockCommit, Working
  <2>3. published' = published \cup {call[t]} /\ UNCHANGED <<call, kind>>
    BY <1>7 DEF BlockCommit, PublishWork
  <2>4. doc'[call[t]] = doc[call[t]] + 1 /\ \A c \in Calls \ {call[t]} : doc'[c] = doc[c]
    <3>1. doc' = Bump(doc, call[t]) /\ doc \in Docs
      BY <1>7, <2>2 DEF BlockCommit, PublishWork, store, StoreTypes
    <3>2. /\ Bump(doc, call[t])[call[t]] = doc[call[t]] + 1
          /\ \A e \in Calls \ {call[t]} : Bump(doc, call[t])[e] = doc[e]
      BY <3>1, <2>1, BumpOne
    <3>3. QED
      BY <3>1, <3>2
  <2>5. rows' = rows \cup RowsOf(call[t])
    BY <1>7, <2>2 DEF BlockCommit, PublishWork, store
  <2>6. \A c \in Calls \ {call[t]} : RowsOf(c) \cap RowsOf(call[t]) = {}
    BY RowsApart
  <2>7. ASSUME NEW c \in Calls
        PROVE  /\ doc'[c] <= 1
               /\ c \notin published' => doc'[c] = 0 /\ rows' \cap RowsOf(c) = {}
               /\ c \in published' => doc'[c] = 1 \/ RowsOf(c) \subseteq rows'
    <3>1. CASE c = call[t]
      <4>1. doc[c] = 0
        BY <2>1, <3>1 DEF EffectsExact
      <4>2. doc'[c] \in {0, 1} /\ (doc'[c] = 1 \/ RowsOf(c) \subseteq rows')
        BY <4>1, <2>4, <2>5, <3>1
      <4>3. QED
        BY <4>2, <2>3, <3>1
    <3>2. CASE c # call[t]
      <4>1. doc'[c] = doc[c] /\ RowsOf(c) \cap rows' = RowsOf(c) \cap rows
        BY <2>4, <2>5, <2>6, <3>2
      <4>2. c \in published' <=> c \in published
        BY <2>3, <3>2
      <4>3. QED
        BY <4>1, <4>2 DEF EffectsExact
    <3>3. QED
      BY <3>1, <3>2
  <2>8. ASSUME NEW u \in Threads, call'[u] \in published'
        PROVE  /\ kind'[u] \in {"block", "run_optimistic", "manual"} => doc'[call'[u]] = 1
               /\ kind'[u] \in {"block", "insert_many"} => RowsOf(call'[u]) \subseteq rows'
    <3>1. CASE u = t
      <4>1. kind[t] \in {"block"}
        BY <1>7 DEF BlockCommit, Stage, BlockPcs
      <4>2. QED
        BY <3>1, <4>1, <2>1, <2>3, <2>4, <2>5 DEF StoreTypes, Docs, EffectsExact
    <3>2. CASE u # t
      <4>1. call[u] \in published /\ call[u] # call[t] /\ call[u] \in Calls
        BY <2>8, <3>2, <2>1, <2>3 DEF Numbered, CallTypes, Calls
      <4>2. QED
        BY <4>1, <2>3, <2>4, <2>5 DEF EffectsExact
    <3>3. QED
      BY <3>1, <3>2
  <2>9. QED
    BY <2>7, <2>8 DEF EffectsExact
<1>8. ASSUME NEW t \in Threads, BlockRaise(t) PROVE EffectsExact'
  BY <1>8 DEF BlockRaise, Finish, Goto, store, txn, ghost, bounds
<1>9. ASSUME NEW t \in Threads, BlockInterrupt(t) PROVE EffectsExact'
  BY <1>9 DEF BlockInterrupt, Finish, Goto, store, txn, ghost, bounds
<1>10. ASSUME NEW t \in Threads, InsertMany(t) PROVE EffectsExact'
  <2>1. call[t] \in Calls /\ call[t] \notin published
    BY <1>10, CallTyped DEF InsertMany
  <2>3. published' = published \cup {call[t]} /\ UNCHANGED <<call, kind>>
    BY <1>10 DEF InsertMany
  <2>4. doc' = doc
    BY <1>10 DEF InsertMany, store
  <2>5. rows' = rows \cup RowsOf(call[t])
    BY <1>10 DEF InsertMany, store
  <2>6. \A c \in Calls \ {call[t]} : RowsOf(c) \cap RowsOf(call[t]) = {}
    BY RowsApart
  <2>7. ASSUME NEW c \in Calls
        PROVE  /\ doc'[c] <= 1
               /\ c \notin published' => doc'[c] = 0 /\ rows' \cap RowsOf(c) = {}
               /\ c \in published' => doc'[c] = 1 \/ RowsOf(c) \subseteq rows'
    <3>1. CASE c = call[t]
      <4>1. doc[c] = 0
        BY <2>1, <3>1 DEF EffectsExact
      <4>2. doc'[c] \in {0, 1} /\ (doc'[c] = 1 \/ RowsOf(c) \subseteq rows')
        BY <4>1, <2>4, <2>5, <3>1
      <4>3. QED
        BY <4>2, <2>3, <3>1
    <3>2. CASE c # call[t]
      <4>1. doc'[c] = doc[c] /\ RowsOf(c) \cap rows' = RowsOf(c) \cap rows
        BY <2>4, <2>5, <2>6, <3>2
      <4>2. c \in published' <=> c \in published
        BY <2>3, <3>2
      <4>3. QED
        BY <4>1, <4>2 DEF EffectsExact
    <3>3. QED
      BY <3>1, <3>2
  <2>8. ASSUME NEW u \in Threads, call'[u] \in published'
        PROVE  /\ kind'[u] \in {"block", "run_optimistic", "manual"} => doc'[call'[u]] = 1
               /\ kind'[u] \in {"block", "insert_many"} => RowsOf(call'[u]) \subseteq rows'
    <3>1. CASE u = t
      <4>1. kind[t] \in {"insert_many"}
        BY <1>10 DEF InsertMany, Stage, BlockPcs
      <4>2. QED
        BY <3>1, <4>1, <2>1, <2>3, <2>4, <2>5 DEF StoreTypes, Docs, EffectsExact
    <3>2. CASE u # t
      <4>1. call[u] \in published /\ call[u] # call[t] /\ call[u] \in Calls
        BY <2>8, <3>2, <2>1, <2>3 DEF Numbered, CallTypes, Calls
      <4>2. QED
        BY <4>1, <2>3, <2>4, <2>5 DEF EffectsExact
    <3>3. QED
      BY <3>1, <3>2
  <2>9. QED
    BY <2>7, <2>8 DEF EffectsExact
<1>11. ASSUME NEW t \in Threads, InsertManyFails(t) PROVE EffectsExact'
  BY <1>11 DEF InsertManyFails, Fail, Finish, Goto, store, txn, ghost, bounds
<1>12. ASSUME NEW t \in Threads, InsertManyJoins(t) PROVE EffectsExact'
  BY <1>12 DEF InsertManyJoins, Finish, Goto, store, txn, ghost, bounds
<1>13. ASSUME NEW t \in Threads, Sync(t) PROVE EffectsExact'
  BY <1>13 DEF Sync, Finish, Goto, store, txn, ghost, bounds
<1>14. ASSUME NEW t \in Threads, SyncFails(t) PROVE EffectsExact'
  BY <1>14 DEF SyncFails, Fail, Finish, Goto, store, txn, ghost, bounds
<1>15. ASSUME NEW t \in Threads, BeginOptimistic(t) PROVE EffectsExact'
  BY <1>15 DEF BeginOptimistic, Goto, store, txn, ghost, bounds
<1>16. ASSUME NEW t \in Threads, BeginOptimisticFails(t) PROVE EffectsExact'
  BY <1>16 DEF BeginOptimisticFails, Fail, Finish, Goto, store, txn, ghost, bounds
<1>17. ASSUME NEW t \in Threads, Fn(t) PROVE EffectsExact'
  BY <1>17 DEF Fn, Goto, store, txn, ghost, bounds
<1>18. ASSUME NEW t \in Threads, FnRaises(t) PROVE EffectsExact'
  BY <1>18 DEF FnRaises, Free, EndTxn, Goto, store, txn, ghost, bounds
<1>19. ASSUME NEW t \in Threads, OccCommit(t) PROVE EffectsExact'
  <2>1. call[t] \in Calls /\ call[t] \notin published
    BY <1>19, CallTyped DEF OccCommit
  <2>2. doc' = Bump(doc, call[t])
    BY <1>19 DEF OccCommit
  <2>3. published' = published \cup {call[t]} /\ UNCHANGED <<call, kind>>
    BY <1>19 DEF OccCommit
  <2>4. doc'[call[t]] = doc[call[t]] + 1 /\ \A c \in Calls \ {call[t]} : doc'[c] = doc[c]
    <3>1. doc' = Bump(doc, call[t]) /\ doc \in Docs
      BY <1>19, <2>2 DEF OccCommit, store, StoreTypes
    <3>2. /\ Bump(doc, call[t])[call[t]] = doc[call[t]] + 1
          /\ \A e \in Calls \ {call[t]} : Bump(doc, call[t])[e] = doc[e]
      BY <3>1, <2>1, BumpOne
    <3>3. QED
      BY <3>1, <3>2
  <2>5. rows' = rows
    BY <1>19, <2>2 DEF OccCommit, store
  <2>6. \A c \in Calls \ {call[t]} : RowsOf(c) \cap RowsOf(call[t]) = {}
    BY RowsApart
  <2>7. ASSUME NEW c \in Calls
        PROVE  /\ doc'[c] <= 1
               /\ c \notin published' => doc'[c] = 0 /\ rows' \cap RowsOf(c) = {}
               /\ c \in published' => doc'[c] = 1 \/ RowsOf(c) \subseteq rows'
    <3>1. CASE c = call[t]
      <4>1. doc[c] = 0
        BY <2>1, <3>1 DEF EffectsExact
      <4>2. doc'[c] \in {0, 1} /\ (doc'[c] = 1 \/ RowsOf(c) \subseteq rows')
        BY <4>1, <2>4, <2>5, <3>1
      <4>3. QED
        BY <4>2, <2>3, <3>1
    <3>2. CASE c # call[t]
      <4>1. doc'[c] = doc[c] /\ RowsOf(c) \cap rows' = RowsOf(c) \cap rows
        BY <2>4, <2>5, <2>6, <3>2
      <4>2. c \in published' <=> c \in published
        BY <2>3, <3>2
      <4>3. QED
        BY <4>1, <4>2 DEF EffectsExact
    <3>3. QED
      BY <3>1, <3>2
  <2>8. ASSUME NEW u \in Threads, call'[u] \in published'
        PROVE  /\ kind'[u] \in {"block", "run_optimistic", "manual"} => doc'[call'[u]] = 1
               /\ kind'[u] \in {"block", "insert_many"} => RowsOf(call'[u]) \subseteq rows'
    <3>1. CASE u = t
      <4>1. kind[t] \in {"run_optimistic", "manual"}
        BY <1>19 DEF OccCommit, Stage, BlockPcs
      <4>2. QED
        BY <3>1, <4>1, <2>1, <2>3, <2>4, <2>5 DEF StoreTypes, Docs, EffectsExact
    <3>2. CASE u # t
      <4>1. call[u] \in published /\ call[u] # call[t] /\ call[u] \in Calls
        BY <2>8, <3>2, <2>1, <2>3 DEF Numbered, CallTypes, Calls
      <4>2. QED
        BY <4>1, <2>3, <2>4, <2>5 DEF EffectsExact
    <3>3. QED
      BY <3>1, <3>2
  <2>9. QED
    BY <2>7, <2>8 DEF EffectsExact
<1>20. ASSUME NEW t \in Threads, OccSync(t) PROVE EffectsExact'
  BY <1>20 DEF OccSync, Free, EndTxn, Goto, store, txn, ghost, bounds
<1>21. ASSUME NEW t \in Threads, OccSyncFails(t) PROVE EffectsExact'
  BY <1>21 DEF OccSyncFails, Fail, Free, EndTxn, Goto, store, txn, ghost, bounds
<1>22. ASSUME NEW t \in Threads, OccConflict(t) PROVE EffectsExact'
  BY <1>22 DEF OccConflict, Free, EndTxn, Goto, store, txn, ghost, bounds
<1>23. ASSUME NEW t \in Threads, OccCommitFails(t) PROVE EffectsExact'
  BY <1>23 DEF OccCommitFails, Fail, Free, EndTxn, Goto, store, txn, ghost, bounds
<1>24. ASSUME NEW t \in Threads, Retry(t) PROVE EffectsExact'
  BY <1>24 DEF Retry, Close, Conflicted, Goto, store, txn, ghost, bounds
<1>25. ASSUME NEW t \in Threads, Release(t) PROVE EffectsExact'
  BY <1>25 DEF Release, Close, Conflicted, Finish, Goto, store, txn, ghost, bounds
<1>26. CASE UNCHANGED vars
  BY <1>26 DEF vars, store, txn, ghost, bounds
<1>27. QED
  BY <1>1, <1>2, <1>3, <1>4, <1>5, <1>6, <1>7, <1>8, <1>9, <1>10,
     <1>11, <1>12, <1>13, <1>14, <1>15, <1>16, <1>17, <1>18, <1>19, <1>20,
     <1>21, <1>22, <1>23, <1>24, <1>25, <1>26
  DEF Next, BlockStep, BatchStep, OccStep, Opens,
      CallBlock, CallInsertMany, CallRunOptimistic, CallManual

-----------------------------------------------------------------------------
(* The theorems.                                                            *)

LEMMA InitInv == Init => IInv
<1> SUFFICES ASSUME Init PROVE IInv
  OBVIOUS
<1> USE ConstantsAssumption DEF Init, Docs, Calls
<1>1. TypeOK
  BY DEF TypeOK, StoreTypes, ThreadTypes, CallTypes, AllRows, Pcs, Outcomes, BlockPcs
<1>2. Stage /\ Locked /\ Handles /\ Numbered /\ Progress /\ Working
  BY DEF Stage, Locked, LockFollowsBlock, Handles, Numbered, Progress, Working, BlockPcs
<1>3. OutcomeTruth /\ EffectsExact
  BY DEF OutcomeTruth, EffectsExact
<1>4. QED
  BY <1>1, <1>2, <1>3 DEF IInv

(* The inductive invariant holds in every reachable state.                  *)
THEOREM Invariance == Spec => []IInv
<1>1. IInv /\ [Next]_vars => IInv'
  BY StoreTypesStep, ThreadTypesStep, CallTypesStep, StageStep, LockedStep, HandlesStep, NumberedStep, ProgressStep, WorkingStep,
     OutcomeStep, EffectsStep DEF IInv, TypeOK
<1>2. QED
  BY InitInv, <1>1, PTL DEF Spec

(* Type correctness, the retry budget of run_optimistic among the types.    *)
THEOREM TypeCorrect == Spec => []TypeOK
<1>1. IInv => TypeOK
  BY DEF IInv
<1>2. QED
  BY Invariance, <1>1, PTL

(* A block of Db.transaction holds db.mu exactly while its body runs, an    *)
(* interrupted one for ever.                                                *)
THEOREM BlocksLock == Spec => []LockFollowsBlock
<1>1. IInv => LockFollowsBlock
  BY DEF IInv, Locked
<1>2. QED
  BY Invariance, <1>1, PTL

(* Every published call is in the store once and whole, and no other is.    *)
THEOREM EffectsAreExact == Spec => []EffectsExact
<1>1. IInv => EffectsExact
  BY DEF IInv
<1>2. QED
  BY Invariance, <1>1, PTL

(* What a caller is told of its call is true.                               *)
THEOREM OutcomesAreTrue == Spec => []OutcomeTruth
<1>1. IInv => OutcomeTruth
  BY DEF IInv
<1>2. QED
  BY Invariance, <1>1, PTL

(* A native optimistic transaction is freed once, on every path.            *)
THEOREM HandlesAreFreed == Spec => []HandleFreedOnce
<1>1. IInv => HandleFreedOnce
  BY DEF IInv, Handles, HandleFreedOnce
<1>2. QED
  BY Invariance, <1>1, PTL
=============================================================================
