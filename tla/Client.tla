------------------------------- MODULE Client -------------------------------
(***************************************************************************)
(* The calls of pyx's Python binding that change data (bindings/python,    *)
(* __init__.py), as the threads of one process make them: explicit blocks  *)
(* (Db.transaction), auto-committed batches (Collection.insert_many, of    *)
(* which insert is the batch of one), Db.run_optimistic and a hand-written *)
(* "with db.begin_optimistic()".                                           *)
(*                                                                         *)
(* Every call bumps one shared document, get then put, or inserts its own  *)
(* rows, so that the store tells whose work it holds, and how often.  The  *)
(* engine below is taken at its word (module Transactions looks inside):   *)
(* db.mu and txn_owner, which change hands together, are owner; a commit   *)
(* publishes and releases owner, and only then waits for the WAL's sync,   *)
(* which may fail.  A failing commitAppend is left to Transactions.        *)
(***************************************************************************)
EXTENDS Integers, FiniteSets

CONSTANTS
    Threads,
    NoThread,        \* "db.mu is free"
    Batch,           \* documents of an insert_many
    MaxAttempts,     \* max_attempts of run_optimistic
    MaxCalls,        \* bound: calls made in a behaviour
    MaxFailures,     \* bound: errors of the engine
    MaxInterrupts    \* bound: interrupts of a block

ASSUME ConstantsAssumption ==
    /\ NoThread \notin Threads
    /\ Batch \in Nat \ {0} /\ MaxAttempts \in Nat \ {0}
    /\ MaxCalls \in Nat /\ MaxFailures \in Nat /\ MaxInterrupts \in Nat

VARIABLES
    doc, rows,       \* the store: bumps of the document per call, rows inserted
    work,            \* the same two as the transaction of owner sees them
    owner,           \* the thread that holds db.mu
    left,            \* threads that an interrupt took out of their block
    pc, kind, call,  \* what each thread does, for which call
    seen,            \* the document as the call has read it
    attempts,        \* transactions begun by run_optimistic
    handle,          \* OptimisticTxn._handle is set
    native,          \* native transactions of the thread that are not freed
    result,          \* how the transaction has ended, for its caller
    outcome,         \* what the caller of each call was told
    published,       \* calls whose commit was published
    unsynced,        \* calls whose sync failed
    stranded,        \* calls that ran in a transaction an interrupt left open
    calls, failures, interrupts   \* counters for the bounds

store == <<doc, rows>>
txn == <<seen, attempts, handle, native, result>>
ghost == <<published, unsynced, stranded>>
bounds == <<calls, failures, interrupts>>
vars == <<store, work, owner, left, pc, kind, call, txn, outcome, ghost, bounds>>

Calls == 1..MaxCalls
RowsOf(c) == {c} \X (1..Batch)
Bump(d, c) == [d EXCEPT ![c] = @ + 1]
Goto(t, label) == pc' = [pc EXCEPT ![t] = label]

\* Thread t holds db.mu inside an explicit transaction of its own.
BlockPcs == {"body", "read", "bumped"}

Init ==
    /\ doc = [c \in Calls |-> 0] /\ rows = {}
    /\ work = [doc |-> doc, rows |-> {}]
    /\ owner = NoThread
    /\ left = {}
    /\ pc = [t \in Threads |-> "idle"]
    /\ kind = [t \in Threads |-> "none"]
    /\ call = [t \in Threads |-> 0]
    /\ seen = [t \in Threads |-> doc]
    /\ attempts = [t \in Threads |-> 0]
    /\ handle = [t \in Threads |-> FALSE]
    /\ native = [t \in Threads |-> 0]
    /\ result = [t \in Threads |-> "none"]
    /\ outcome = [c \in Calls |-> "none"]
    /\ published = {} /\ unsynced = {} /\ stranded = {}
    /\ calls = 0 /\ failures = 0 /\ interrupts = 0

Call(t, k, label) ==
    /\ pc[t] = "idle"
    /\ calls < MaxCalls
    /\ calls' = calls + 1
    /\ call' = [call EXCEPT ![t] = calls + 1]
    /\ kind' = [kind EXCEPT ![t] = k]
    /\ outcome' = [outcome EXCEPT ![calls + 1] = "running"]
    /\ attempts' = [attempts EXCEPT ![t] = 0]
    /\ Goto(t, label)
    /\ UNCHANGED <<store, work, owner, left, seen, handle, native, result, ghost,
                   failures, interrupts>>

\* The call of t returns or raises.
Finish(t, told) ==
    /\ outcome' = [outcome EXCEPT ![call[t]] = told]
    /\ Goto(t, "idle")

Fail == failures < MaxFailures /\ failures' = failures + 1

\* commitAppend and applyAndFinalize of the owner's transaction: what it wrote
\* is the store, db.mu is free.
PublishWork(t) ==
    /\ doc' = work.doc /\ rows' = work.rows
    /\ published' = published \cup {call[t]}
    /\ owner' = NoThread

-----------------------------------------------------------------------------
(* with db.transaction().                                                   *)

CallBlock(t) == Call(t, "block", "begin")

\* pyx_begin waits for db.mu, whoever holds it, the calling thread included.
Begin(t) ==
    /\ pc[t] = "begin"
    /\ owner = NoThread
    /\ owner' = t
    /\ work' = [doc |-> doc, rows |-> rows]
    /\ Goto(t, "body")
    /\ UNCHANGED <<store, left, kind, call, txn, outcome, ghost, bounds>>

\* Fault seeded for TLC: db.mu is kept when pager.begin fails.
BeginFailsHolding(t) ==
    /\ pc[t] = "begin"
    /\ owner = NoThread
    /\ Fail
    /\ owner' = t
    /\ Finish(t, "raised")
    /\ UNCHANGED <<store, work, left, kind, call, txn, ghost, calls, interrupts>>

\* pager.begin fails and db.mu is given back.
BeginFails(t) ==
    /\ pc[t] = "begin"
    /\ owner = NoThread
    /\ Fail
    /\ Finish(t, "raised")
    /\ UNCHANGED <<store, work, owner, left, kind, call, txn, ghost, calls, interrupts>>

\* Collection.get, which finds that the thread owns the transaction.
BlockGet(t) ==
    /\ pc[t] = "body"
    /\ seen' = [seen EXCEPT ![t] = work.doc]
    /\ Goto(t, "read")
    /\ UNCHANGED <<store, work, owner, left, kind, call, attempts, handle, native,
                   result, outcome, ghost, bounds>>

\* Collection.put and insert_many in the block.
BlockWrite(t) ==
    /\ pc[t] = "read"
    /\ work' = [doc |-> Bump(seen[t], call[t]), rows |-> work.rows \cup RowsOf(call[t])]
    /\ Goto(t, "bumped")
    /\ UNCHANGED <<store, owner, left, kind, call, txn, outcome, ghost, bounds>>

\* insert_many fails in the block, with the rows before the failing one
\* written; the block raises (BlockRaise).
BlockWriteFails(t) ==
    /\ pc[t] = "read"
    /\ Fail
    /\ \E n \in 0..Batch-1 :
          work' = [work EXCEPT !.rows = @ \cup ({call[t]} \X (1..n))]
    /\ Goto(t, "raising")
    /\ UNCHANGED <<store, owner, left, kind, call, txn, outcome, ghost, calls, interrupts>>

\* The body is done: pyx_commit.
BlockCommit(t) ==
    /\ pc[t] = "bumped"
    /\ PublishWork(t)
    /\ Goto(t, "sync")
    /\ UNCHANGED <<work, left, kind, call, txn, outcome, unsynced, stranded, bounds>>

\* Fault seeded for TLC: an exception leaves the block through pyx_commit.
BlockRaiseCommits(t) ==
    /\ pc[t] \in BlockPcs \cup {"raising"}
    /\ PublishWork(t)
    /\ Finish(t, "raised")
    /\ UNCHANGED <<work, left, kind, call, txn, unsynced, stranded, bounds>>

\* An Exception leaves the body: pyx_abort, and the exception goes on.
BlockRaise(t) ==
    /\ pc[t] \in BlockPcs \cup {"raising"}
    /\ owner' = NoThread
    /\ Finish(t, "raised")
    /\ UNCHANGED <<store, work, left, kind, call, txn, ghost, bounds>>

\* A KeyboardInterrupt or another BaseException leaves the body: neither
\* "except Exception" nor "else" runs, and the transaction stays open.
BlockInterrupt(t) ==
    /\ pc[t] \in BlockPcs
    /\ interrupts < MaxInterrupts
    /\ interrupts' = interrupts + 1
    /\ left' = left \cup {t}
    /\ Finish(t, "interrupted")
    /\ UNCHANGED <<store, work, owner, kind, call, txn, ghost, calls, failures>>

-----------------------------------------------------------------------------
(* Collection.insert and insert_many outside a block.                       *)

CallInsertMany(t) == Call(t, "insert_many", "insert")

\* One transaction for the whole batch, under db.mu from begin to commit.
InsertMany(t) ==
    /\ pc[t] = "insert"
    /\ owner = NoThread
    /\ rows' = rows \cup RowsOf(call[t])
    /\ published' = published \cup {call[t]}
    /\ Goto(t, "sync")
    /\ UNCHANGED <<doc, work, owner, left, kind, call, txn, outcome, unsynced,
                   stranded, bounds>>

\* Fault seeded for TLC: a batch that fails half-way keeps its first rows.
InsertManyKeepsHalf(t) ==
    /\ pc[t] = "insert"
    /\ owner = NoThread
    /\ Fail
    /\ rows' = rows \cup {<<call[t], 1>>}
    /\ Finish(t, "raised")
    /\ UNCHANGED <<doc, work, owner, left, kind, call, txn, ghost, calls, interrupts>>

\* A document of the batch fails: the transaction is aborted.
InsertManyFails(t) ==
    /\ pc[t] = "insert"
    /\ owner = NoThread
    /\ Fail
    /\ Finish(t, "raised")
    /\ UNCHANGED <<store, work, owner, left, kind, call, txn, ghost, calls, interrupts>>

\* The thread still owns the transaction its interrupted block has left: the
\* batch joins it and the call returns.
InsertManyJoins(t) ==
    /\ pc[t] = "insert"
    /\ owner = t
    /\ work' = [work EXCEPT !.rows = @ \cup RowsOf(call[t])]
    /\ stranded' = stranded \cup {call[t]}
    /\ Finish(t, "returned")
    /\ UNCHANGED <<store, owner, left, kind, call, txn, published, unsynced, bounds>>

\* pager.syncTo, after db.mu was released, for a block or a batch.
Sync(t) ==
    /\ pc[t] = "sync"
    /\ Finish(t, "returned")
    /\ UNCHANGED <<store, work, owner, left, kind, call, txn, ghost, bounds>>

\* The sync fails: the call raises although its work is in the store.
SyncFails(t) ==
    /\ pc[t] = "sync"
    /\ Fail
    /\ unsynced' = unsynced \cup {call[t]}
    /\ Finish(t, "raised")
    /\ UNCHANGED <<store, work, owner, left, kind, call, txn, published, stranded,
                   calls, interrupts>>

-----------------------------------------------------------------------------
(* Optimistic transactions.                                                 *)

CallRunOptimistic(t) == Call(t, "run_optimistic", "open")
CallManual(t) == Call(t, "manual", "open")

\* begin_optimistic: the snapshot is taken under db.mu, or, by a thread that
\* owns a transaction, from inside it.
BeginOptimistic(t) ==
    /\ pc[t] = "open"
    /\ owner \in {NoThread, t}
    /\ seen' = [seen EXCEPT ![t] = IF owner = t THEN work.doc ELSE doc]
    /\ attempts' = [attempts EXCEPT ![t] = @ + 1]
    /\ handle' = [handle EXCEPT ![t] = TRUE]
    /\ native' = [native EXCEPT ![t] = @ + 1]
    /\ Goto(t, "fn")
    /\ UNCHANGED <<store, work, owner, left, kind, call, result, outcome, ghost, bounds>>

\* Out of memory, or the snapshot fails: no native transaction is left.
BeginOptimisticFails(t) ==
    /\ pc[t] = "open"
    /\ owner \in {NoThread, t}
    /\ Fail
    /\ Finish(t, "raised")
    /\ UNCHANGED <<store, work, owner, left, kind, call, txn, ghost, calls, interrupts>>

\* fn(txn) reads the document in the snapshot and buffers its bump.
Fn(t) ==
    /\ pc[t] = "fn"
    /\ Goto(t, "commit")
    /\ UNCHANGED <<store, work, owner, left, kind, call, txn, outcome, ghost, bounds>>

\* pyx_optimistic_commit or pyx_optimistic_abort has destroyed the native
\* transaction.
Free(t) ==
    /\ native' = [native EXCEPT ![t] = @ - 1]
    /\ handle' = [handle EXCEPT ![t] = FALSE]

EndTxn(t, how) ==
    /\ result' = [result EXCEPT ![t] = how]
    /\ Goto(t, "release")

\* fn raises anything: run_optimistic aborts; a "with" block leaves that to
\* __exit__.
FnRaises(t) ==
    /\ pc[t] = "fn"
    /\ IF kind[t] = "run_optimistic" THEN Free(t) ELSE UNCHANGED <<handle, native>>
    /\ EndTxn(t, "raised")
    /\ UNCHANGED <<store, work, owner, left, kind, call, seen, attempts, outcome,
                   ghost, bounds>>

\* OptimisticTxn.commit under db.mu: the document is as the snapshot has it,
\* and the bump is applied and published.
OccCommit(t) ==
    /\ pc[t] = "commit"
    /\ owner = NoThread
    /\ doc = seen[t]
    /\ doc' = Bump(seen[t], call[t])
    /\ published' = published \cup {call[t]}
    /\ Goto(t, "occSync")
    /\ UNCHANGED <<rows, work, owner, left, kind, call, txn, outcome, unsynced,
                   stranded, bounds>>

OccSync(t) ==
    /\ pc[t] = "occSync"
    /\ Free(t)
    /\ EndTxn(t, "returned")
    /\ UNCHANGED <<store, work, owner, left, kind, call, seen, attempts, outcome,
                   ghost, bounds>>

\* Fault seeded for TLC: a failed sync is taken for a conflict and retried.
OccSyncRetried(t) ==
    /\ pc[t] = "occSync"
    /\ Fail
    /\ unsynced' = unsynced \cup {call[t]}
    /\ Free(t)
    /\ EndTxn(t, "conflict")
    /\ UNCHANGED <<store, work, owner, left, kind, call, seen, attempts, outcome,
                   published, stranded, calls, interrupts>>

\* Another error than WriteConflict is not retried.
OccSyncFails(t) ==
    /\ pc[t] = "occSync"
    /\ Fail
    /\ unsynced' = unsynced \cup {call[t]}
    /\ Free(t)
    /\ EndTxn(t, "raised")
    /\ UNCHANGED <<store, work, owner, left, kind, call, seen, attempts, outcome,
                   published, stranded, calls, interrupts>>

\* Fault seeded for TLC: a commit that raises keeps the Python handle.
OccConflictKeepsHandle(t) ==
    /\ pc[t] = "commit"
    /\ owner = NoThread
    /\ doc # seen[t]
    /\ native' = [native EXCEPT ![t] = @ - 1]
    /\ EndTxn(t, "conflict")
    /\ UNCHANGED <<store, work, owner, left, kind, call, seen, attempts, handle,
                   outcome, ghost, bounds>>

\* WriteConflict.
OccConflict(t) ==
    /\ pc[t] = "commit"
    /\ owner = NoThread
    /\ doc # seen[t]
    /\ Free(t)
    /\ EndTxn(t, "conflict")
    /\ UNCHANGED <<store, work, owner, left, kind, call, seen, attempts, outcome,
                   ghost, bounds>>

\* begin, a validating read or the application of the writes fails: db.abort.
OccCommitFails(t) ==
    /\ pc[t] = "commit"
    /\ owner = NoThread
    /\ Fail
    /\ Free(t)
    /\ EndTxn(t, "raised")
    /\ UNCHANGED <<store, work, owner, left, kind, call, seen, attempts, outcome,
                   ghost, calls, interrupts>>

\* The OptimisticTxn goes out of use, through __exit__ or __del__, which abort
\* a transaction that still has a handle.
Close(t) ==
    /\ pc[t] = "release"
    /\ native' = [native EXCEPT ![t] = IF handle[t] THEN @ - 1 ELSE @]
    /\ handle' = [handle EXCEPT ![t] = FALSE]
    /\ result' = [result EXCEPT ![t] = "none"]
    /\ UNCHANGED <<store, work, owner, left, kind, call, seen, attempts, ghost, bounds>>

Conflicted(t) == result[t] = "conflict" /\ kind[t] = "run_optimistic"

\* Fault seeded for TLC: the retry budget is compared with <=.
RetryOneMore(t) ==
    /\ Close(t)
    /\ Conflicted(t) /\ attempts[t] <= MaxAttempts
    /\ Goto(t, "open")
    /\ UNCHANGED outcome

\* run_optimistic sleeps after a conflict and starts over.
Retry(t) ==
    /\ Close(t)
    /\ Conflicted(t) /\ attempts[t] < MaxAttempts
    /\ Goto(t, "open")
    /\ UNCHANGED outcome

\* It gives up, or the call ends as its transaction did.
Release(t) ==
    /\ Close(t)
    /\ Conflicted(t) => attempts[t] >= MaxAttempts
    /\ Finish(t, IF Conflicted(t) THEN "exhausted" ELSE result[t])

-----------------------------------------------------------------------------
BlockStep(t) ==
    \/ Begin(t) \/ BeginFails(t) \/ BlockGet(t) \/ BlockWrite(t)
    \/ BlockWriteFails(t) \/ BlockCommit(t) \/ BlockRaise(t)

BatchStep(t) ==
    \/ InsertMany(t) \/ InsertManyFails(t) \/ InsertManyJoins(t)
    \/ Sync(t) \/ SyncFails(t)

OccStep(t) ==
    \/ BeginOptimistic(t) \/ BeginOptimisticFails(t) \/ Fn(t) \/ FnRaises(t)
    \/ OccCommit(t) \/ OccSync(t) \/ OccSyncFails(t) \/ OccConflict(t)
    \/ OccCommitFails(t) \/ Retry(t) \/ Release(t)

Next ==
    \E t \in Threads :
        \/ CallBlock(t) \/ CallInsertMany(t) \/ CallRunOptimistic(t) \/ CallManual(t)
        \/ BlockStep(t) \/ BatchStep(t) \/ OccStep(t)
        \/ BlockInterrupt(t)

Spec == Init /\ [][Next]_vars

\* The threads are scheduled, and a bounded number of calls lets each of them
\* have db.mu when it is free.
FairSpec ==
    /\ Spec
    /\ \A t \in Threads : WF_vars(BlockStep(t) \/ BatchStep(t) \/ OccStep(t))

-----------------------------------------------------------------------------
(* Properties.                                                              *)

Pcs == BlockPcs \cup {"idle", "begin", "raising", "insert", "sync", "open", "fn",
                      "commit", "occSync", "release"}
Outcomes == {"none", "running", "returned", "raised", "conflict", "exhausted",
             "interrupted"}
Docs == [Calls -> Nat]
AllRows == Calls \X (1..Batch)

StoreTypes ==
    /\ doc \in Docs /\ rows \subseteq AllRows
    /\ work \in [doc : Docs, rows : SUBSET AllRows]
    /\ seen \in [Threads -> Docs]

ThreadTypes ==
    /\ owner \in Threads \cup {NoThread}
    /\ left \subseteq Threads
    /\ pc \in [Threads -> Pcs]
    /\ kind \in [Threads -> {"none", "block", "insert_many", "run_optimistic", "manual"}]
    /\ attempts \in [Threads -> 0..MaxAttempts]
    /\ handle \in [Threads -> BOOLEAN]
    /\ native \in [Threads -> Int]
    /\ result \in [Threads -> Outcomes]

CallTypes ==
    /\ call \in [Threads -> 0..MaxCalls]
    /\ outcome \in [Calls -> Outcomes]
    /\ published \subseteq Calls /\ unsynced \subseteq Calls /\ stranded \subseteq Calls
    /\ calls \in 0..MaxCalls
    /\ failures \in 0..MaxFailures /\ interrupts \in 0..MaxInterrupts

(* The types of the variables. *)
TypeOK == StoreTypes /\ ThreadTypes /\ CallTypes

(* Db.transaction holds db.mu exactly while its body runs; the one way to    *)
(* keep it longer is an interrupt that leaves the body.                       *)
LockFollowsBlock ==
    \A t \in Threads :
        owner = t <=> pc[t] \in BlockPcs \cup {"raising"} \/ t \in left

(* Every call whose commit was published is in the store once, whole, and no  *)
(* other is: no bump of the document overwrites another thread's, no retry    *)
(* applies one twice, no failed batch or block leaves a part.                 *)
EffectsExact ==
    /\ \A c \in Calls :
          /\ doc[c] <= 1
          /\ c \notin published => doc[c] = 0 /\ rows \cap RowsOf(c) = {}
          /\ c \in published => doc[c] = 1 \/ RowsOf(c) \subseteq rows
    /\ \A t \in Threads : call[t] \in published =>
          /\ kind[t] \in {"block", "run_optimistic", "manual"} => doc[call[t]] = 1
          /\ kind[t] \in {"block", "insert_many"} => RowsOf(call[t]) \subseteq rows

(* What a caller is told is true: a call that returned is in the store unless  *)
(* it ran in a transaction an interrupt had left open; WriteConflict and       *)
(* RetryBudgetExhausted mean it is not; any other error means it is not, or    *)
(* that its sync failed.                                                       *)
OutcomeTruth ==
    \A c \in Calls :
        /\ outcome[c] = "returned" => c \in published \/ c \in stranded
        /\ outcome[c] \in {"conflict", "exhausted", "interrupted"} => c \notin published
        /\ outcome[c] = "raised" => c \notin published \/ c \in unsynced

(* A native optimistic transaction lives exactly as long as the Python object  *)
(* holds its handle: it is freed once, on every path, and never leaked.        *)
HandleFreedOnce ==
    \A t \in Threads :
        /\ native[t] = IF handle[t] THEN 1 ELSE 0
        /\ pc[t] = "idle" => ~handle[t]

(* Every call comes to an end, unless an interrupt has left db.mu held.        *)
CallsEnd ==
    \A t \in Threads : pc[t] # "idle" ~> pc[t] = "idle" \/ left # {}
=============================================================================
