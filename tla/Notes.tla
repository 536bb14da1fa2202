------------------------------- MODULE Notes -------------------------------
(***************************************************************************)
(* The notes application of realworldexamples/django in one server process *)
(* (pyx_store.py, views.py) over pyx's Python binding.                     *)
(*                                                                         *)
(* Each browser tab has at most one request under way, served by a thread  *)
(* that keeps nothing between requests, so the thread is named after the   *)
(* tab.  Calls of pyx that take db.mu (get, insert, delete, the commit of  *)
(* an optimistic transaction) are single steps; a snapshot is the value    *)
(* of the collection when it was opened.  Opening the database and         *)
(* creating an index may fail; the thread that fails keeps its handle      *)
(* until its exception has become a response.                              *)
(***************************************************************************)
EXTENDS NotesData, Sequences

CONSTANTS
    Tabs, Requests, Stored,   \* as in Notebook
    FirstId,       \* the document id the file gives out next at the start
    NoTab,         \* "nobody"
    MaxAttempts,   \* max_attempts of run_optimistic
    MaxRequests,   \* bound: requests sent in a behaviour
    MaxFailures,   \* bound: failed opens and index creations
    MaxClock       \* bound: ticks of the clock

ASSUME ConstantsAssumption ==
    /\ NoTab \notin Tabs
    /\ DOMAIN Stored \subseteq Nat
    /\ Stored = [i \in DOMAIN Stored |-> Stored[i]]
    /\ FirstId \in Nat /\ \A i \in DOMAIN Stored : i < FirstId
    /\ \A r \in Requests :
          r.op \in {"list", "create", "detail", "form", "edit", "delete"}
    /\ MaxAttempts \in Nat \ {0}
    /\ MaxRequests \in Nat /\ MaxFailures \in Nat /\ MaxClock \in Nat

VARIABLES
    notes, nextId,    \* the collection and its next document id
    request, answer,  \* as in Notebook
    pc,               \* where the thread of each tab is
    clock,            \* datetime.now; two readings may be equal
    lock,             \* holder of pyx_store._lock
    db,               \* pyx_store._db: the tab whose thread opened it, or NoTab
    open,             \* open handles, each named after its opener
    normal,           \* handles set to NORMAL sync mode
    made,             \* indexes created so far on the opener's handle
    indexes,          \* indexes that exist in the file
    snap,             \* the snapshot a list or an optimistic txn reads
    cursor, found,    \* list_view's position in its snapshot and notes_out
    draft,            \* the document the optimistic txn would put
    attempts,         \* transactions run_optimistic has begun
    asked, failures   \* counters for the bounds

store == <<notes, nextId>>
handle == <<lock, db, open, normal, made, indexes, failures>>
scan == <<cursor, found>>
edit == <<draft, attempts>>
vars == <<store, request, answer, pc, clock, handle, snap, scan, edit, asked>>

\* Indexes in the order get_db creates them.
IndexFields == <<<<"user_id">>, <<"tag">>, <<"user_id", "tag">>>>

Stamps == 0..MaxClock
Goto(t, label) == pc' = [pc EXCEPT ![t] = label]

\* The thread has the response; Django sends it.
Respond(t, response) ==
    /\ answer' = [answer EXCEPT ![t] = response]
    /\ Goto(t, "reply")

Init ==
    /\ notes = Stored
    /\ nextId = FirstId
    /\ request = [t \in Tabs |-> NoRequest]
    /\ answer = [t \in Tabs |-> NoAnswer]
    /\ pc = [t \in Tabs |-> "idle"]
    /\ clock = 0
    /\ lock = NoTab
    /\ db = NoTab
    /\ open = {}
    /\ normal = {}
    /\ made = [t \in Tabs |-> 0]
    /\ indexes = {}
    /\ snap = [t \in Tabs |-> Nothing]
    /\ cursor = [t \in Tabs |-> 0]
    /\ found = [t \in Tabs |-> Nothing]
    /\ draft = [t \in Tabs |-> Nothing]
    /\ attempts = [t \in Tabs |-> 0]
    /\ asked = 0
    /\ failures = 0

Tick ==
    /\ clock < MaxClock
    /\ clock' = clock + 1
    /\ UNCHANGED <<store, request, answer, pc, handle, snap, scan, edit, asked>>

\* A tab sends a request; its view calls get_db.
Ask(t) ==
    /\ pc[t] = "idle"
    /\ asked < MaxRequests
    /\ asked' = asked + 1
    /\ \E r \in Requests : request' = [request EXCEPT ![t] = r]
    /\ Goto(t, "get_db")
    /\ UNCHANGED <<store, answer, clock, handle, snap, scan, edit>>

-----------------------------------------------------------------------------
(* get_db.                                                                  *)

\* The test of _db before the lock is taken.
CheckDb(t) ==
    /\ pc[t] = "get_db"
    /\ Goto(t, IF db # NoTab THEN "view" ELSE "lock")
    /\ UNCHANGED <<store, request, answer, clock, handle, snap, scan, edit, asked>>

\* Fault seeded for TLC: no second test of _db under the lock.
LockWithoutRecheck(t) ==
    /\ pc[t] = "lock"
    /\ lock = NoTab
    /\ lock' = t
    /\ Goto(t, "open")
    /\ UNCHANGED <<store, request, answer, clock, db, open, normal, made, indexes,
                   failures, snap, scan, edit, asked>>

\* with _lock: the second test of _db follows under the lock.
Lock(t) ==
    /\ pc[t] = "lock"
    /\ lock = NoTab
    /\ IF db # NoTab
         THEN Goto(t, "view") /\ UNCHANGED lock
         ELSE Goto(t, "open") /\ lock' = t
    /\ UNCHANGED <<store, request, answer, clock, db, open, normal, made, indexes,
                   failures, snap, scan, edit, asked>>

Open(t) ==
    /\ pc[t] = "open"
    /\ open' = open \cup {t}
    /\ normal' = normal \ {t}
    /\ made' = [made EXCEPT ![t] = 0]
    /\ Goto(t, "configure")
    /\ UNCHANGED <<store, request, answer, clock, lock, db, indexes, failures,
                   snap, scan, edit, asked>>

SetSyncMode(t) ==
    /\ pc[t] = "configure"
    /\ normal' = normal \cup {t}
    /\ Goto(t, "index")
    /\ UNCHANGED <<store, request, answer, clock, lock, db, open, made, indexes,
                   failures, snap, scan, edit, asked>>

\* create_index, a no-op for an index that exists.
CreateIndex(t) ==
    /\ pc[t] = "index"
    /\ made[t] < Len(IndexFields)
    /\ made' = [made EXCEPT ![t] = @ + 1]
    /\ indexes' = indexes \cup {IndexFields[made[t] + 1]}
    /\ UNCHANGED <<store, request, answer, pc, clock, lock, db, open, normal,
                   failures, snap, scan, edit, asked>>

\* Fault seeded for TLC: the failed opener does not give the lock back.
OpenFailsKeepingLock(t) ==
    /\ pc[t] \in {"open", "index"}
    /\ pc[t] = "index" => made[t] < Len(IndexFields)
    /\ failures < MaxFailures
    /\ failures' = failures + 1
    /\ Respond(t, Refusal(500))
    /\ UNCHANGED <<store, request, clock, lock, db, open, normal, made, indexes,
                   snap, scan, edit, asked>>

\* Db.open or create_index raises: the lock is released, _db stays None, and
\* the view answers 500.
OpenFails(t) ==
    /\ pc[t] \in {"open", "index"}
    /\ pc[t] = "index" => made[t] < Len(IndexFields)
    /\ failures < MaxFailures
    /\ failures' = failures + 1
    /\ lock' = NoTab
    /\ Respond(t, Refusal(500))
    /\ UNCHANGED <<store, request, clock, db, open, normal, made, indexes,
                   snap, scan, edit, asked>>

\* _db = db, once everything is in place.
Publish(t) ==
    /\ pc[t] = "index"
    /\ made[t] = Len(IndexFields)
    /\ db' = t
    /\ lock' = NoTab
    /\ Goto(t, "view")
    /\ UNCHANGED <<store, request, answer, clock, open, normal, made, indexes,
                   failures, snap, scan, edit, asked>>

-----------------------------------------------------------------------------
(* The views.                                                               *)

View(t, op) == pc[t] = "view" /\ request[t].op = op

\* list_view: db.snapshot().
ListOpen(t) ==
    /\ View(t, "list")
    /\ snap' = [snap EXCEPT ![t] = notes]
    /\ cursor' = [cursor EXCEPT ![t] = -1]
    /\ found' = [found EXCEPT ![t] = Nothing]
    /\ Goto(t, "scan")
    /\ UNCHANGED <<store, request, answer, clock, handle, edit, asked>>

\* Documents the iteration of thread t has not reached in ns.
Ahead(t, ns) == {i \in DOMAIN ns : i > cursor[t]}

\* One round of the loop over ns.
VisitNext(t, ns) ==
    \E i \in Ahead(t, ns) :
        /\ \A j \in Ahead(t, ns) : i <= j
        /\ cursor' = [cursor EXCEPT ![t] = i]
        /\ found' = [found EXCEPT ![t] =
                        IF Matches(ns[i], request[t]) THEN With(@, i, ns[i]) ELSE @]

\* Fault seeded for TLC: the loop reads the live collection.
ListNextLive(t) ==
    /\ pc[t] = "scan"
    /\ VisitNext(t, notes)
    /\ UNCHANGED <<store, request, answer, pc, clock, handle, snap, edit, asked>>

ListNext(t) ==
    /\ pc[t] = "scan"
    /\ VisitNext(t, snap[t])
    /\ UNCHANGED <<store, request, answer, pc, clock, handle, snap, edit, asked>>

\* The loop is over and the snapshot closed.
ListEnd(t) ==
    /\ pc[t] = "scan"
    /\ Ahead(t, snap[t]) = {}
    /\ Respond(t, Page(found[t]))
    /\ snap' = [snap EXCEPT ![t] = Nothing]
    /\ cursor' = [cursor EXCEPT ![t] = 0]
    /\ found' = [found EXCEPT ![t] = Nothing]
    /\ UNCHANGED <<store, request, clock, handle, edit, asked>>

\* detail_view, and edit_view for a GET.
Show(t) ==
    /\ View(t, "detail") \/ View(t, "form")
    /\ Respond(t, Shown(notes, request[t].id))
    /\ UNCHANGED <<store, request, clock, handle, snap, scan, edit, asked>>

Create(t) ==
    /\ View(t, "create")
    /\ IF request[t].title = Blank
         THEN Respond(t, Refusal(400)) /\ UNCHANGED store
         ELSE /\ notes' = With(notes, nextId, Created(request[t], clock))
              /\ nextId' = nextId + 1
              /\ Respond(t, Redirect(nextId))
    /\ UNCHANGED <<request, clock, handle, snap, scan, edit, asked>>

Delete(t) ==
    /\ View(t, "delete")
    /\ notes' = Without(notes, request[t].id)
    /\ Respond(t, Redirect(0))
    /\ UNCHANGED <<nextId, request, clock, handle, snap, scan, edit, asked>>

\* edit_view for a POST: run_optimistic begins its next transaction.
EditBegin(t) ==
    /\ View(t, "edit")
    /\ snap' = [snap EXCEPT ![t] = notes]
    /\ attempts' = [attempts EXCEPT ![t] = @ + 1]
    /\ Goto(t, "update")
    /\ UNCHANGED <<store, request, answer, clock, handle, scan, draft, asked>>

\* The transaction's handle is freed and run_optimistic returns or raises.
EndEdit(t, response) ==
    /\ Respond(t, response)
    /\ snap' = [snap EXCEPT ![t] = Nothing]
    /\ draft' = [draft EXCEPT ![t] = Nothing]
    /\ attempts' = [attempts EXCEPT ![t] = 0]

\* update(txn): get the note, put it changed.  A note that is not there raises
\* LookupError, which aborts the transaction.
EditUpdate(t) ==
    /\ pc[t] = "update"
    /\ LET id == request[t].id IN
         IF id \in DOMAIN snap[t]
           THEN /\ draft' = [draft EXCEPT ![t] = Edited(snap[t][id], request[t], clock)]
                /\ Goto(t, "commit")
                /\ UNCHANGED <<answer, snap, attempts>>
           ELSE EndEdit(t, Refusal(404))
    /\ UNCHANGED <<store, request, clock, handle, scan, asked>>

\* The read set still holds: the note is there, as the snapshot has it.
ReadSetHolds(t) ==
    LET id == request[t].id IN
        id \in DOMAIN notes /\ notes[id] = snap[t][id]

\* Fault seeded for TLC: a commit that does not validate its reads.
EditCommitBlind(t) ==
    /\ pc[t] = "commit"
    /\ notes' = With(notes, request[t].id, draft[t])
    /\ EndEdit(t, Redirect(request[t].id))
    /\ UNCHANGED <<nextId, request, clock, handle, scan, asked>>

EditCommit(t) ==
    /\ pc[t] = "commit"
    /\ ReadSetHolds(t)
    /\ notes' = With(notes, request[t].id, draft[t])
    /\ EndEdit(t, Redirect(request[t].id))
    /\ UNCHANGED <<nextId, request, clock, handle, scan, asked>>

\* Fault seeded for TLC: one attempt too many.
EditConflictOffByOne(t) ==
    /\ pc[t] = "commit"
    /\ ~ReadSetHolds(t)
    /\ IF attempts[t] <= MaxAttempts
         THEN /\ Goto(t, "view")
              /\ snap' = [snap EXCEPT ![t] = Nothing]
              /\ draft' = [draft EXCEPT ![t] = Nothing]
              /\ UNCHANGED <<answer, attempts>>
         ELSE EndEdit(t, Refusal(409))
    /\ UNCHANGED <<store, request, clock, handle, scan, asked>>

\* WriteConflict: run_optimistic starts over, or gives up with
\* RetryBudgetExhausted.
EditConflict(t) ==
    /\ pc[t] = "commit"
    /\ ~ReadSetHolds(t)
    /\ IF attempts[t] < MaxAttempts
         THEN /\ Goto(t, "view")
              /\ snap' = [snap EXCEPT ![t] = Nothing]
              /\ draft' = [draft EXCEPT ![t] = Nothing]
              /\ UNCHANGED <<answer, attempts>>
         ELSE EndEdit(t, Refusal(409))
    /\ UNCHANGED <<store, request, clock, handle, scan, asked>>

\* The response reaches the tab.  A thread whose get_db failed is rid of its
\* exception, and with it of the handle it had opened.
Reply(t) ==
    /\ pc[t] = "reply"
    /\ request' = [request EXCEPT ![t] = NoRequest]
    /\ answer' = [answer EXCEPT ![t] = NoAnswer]
    /\ open' = IF answer[t].status = 500 THEN open \ {t} ELSE open
    /\ Goto(t, "idle")
    /\ UNCHANGED <<store, clock, lock, db, normal, made, indexes, failures, snap,
                   scan, edit, asked>>

-----------------------------------------------------------------------------
GetDb(t) ==
    \/ CheckDb(t) \/ Lock(t) \/ Open(t) \/ SetSyncMode(t) \/ CreateIndex(t)
    \/ OpenFails(t) \/ Publish(t)

ViewStep(t) ==
    \/ ListOpen(t) \/ ListNext(t) \/ ListEnd(t) \/ Show(t) \/ Create(t)
    \/ Delete(t) \/ EditBegin(t) \/ EditUpdate(t) \/ EditCommit(t)
    \/ EditConflict(t)

Next == Tick \/ \E t \in Tabs : Ask(t) \/ GetDb(t) \/ ViewStep(t) \/ Reply(t)

Spec == Init /\ [][Next]_vars

\* The threads of the server are scheduled, and the lock, free again and
\* again, is got by every thread that waits for it: only the threads that came
\* before _db was set wait at all.
FairSpec ==
    /\ Spec
    /\ \A t \in Tabs : WF_vars(GetDb(t) \/ ViewStep(t)) /\ WF_vars(Reply(t))

-----------------------------------------------------------------------------
(* Properties.                                                              *)

Pcs == {"idle", "get_db", "lock", "open", "configure", "index", "view", "scan",
        "update", "commit", "reply"}

\* A function from document ids to documents.
IsCollection(ns) == DOMAIN ns \subseteq Nat /\ ns = [i \in DOMAIN ns |-> ns[i]]

(* The types of the variables. *)
TypeOK ==
    /\ IsCollection(notes)
    /\ nextId \in Nat
    /\ request \in [Tabs -> Requests \cup {NoRequest}]
    /\ DOMAIN answer = Tabs
    /\ pc \in [Tabs -> Pcs]
    /\ clock \in Stamps
    /\ lock \in Tabs \cup {NoTab}
    /\ db \in Tabs \cup {NoTab}
    /\ open \subseteq Tabs /\ normal \subseteq Tabs
    /\ made \in [Tabs -> 0..Len(IndexFields)]
    /\ indexes \subseteq {IndexFields[k] : k \in 1..Len(IndexFields)}
    /\ DOMAIN snap = Tabs /\ \A t \in Tabs : IsCollection(snap[t])
    /\ cursor \in [Tabs -> Nat \cup {-1}]
    /\ DOMAIN found = Tabs /\ DOMAIN draft = Tabs
    /\ attempts \in [Tabs -> 0..MaxAttempts]
    /\ asked \in 0..MaxRequests
    /\ failures \in 0..MaxFailures

(* The double-checked locking of get_db: a thread that finds _db set, with   *)
(* or without the lock, finds a handle that is open, in NORMAL mode and       *)
(* whose three indexes exist, and no thread has another one open but those    *)
(* whose get_db has failed or that are opening their first.                   *)
PublishedIsReady ==
    db # NoTab =>
        /\ db \in open \cap normal
        /\ \A k \in 1..Len(IndexFields) : IndexFields[k] \in indexes
        /\ \A t \in open \ {db} : pc[t] = "reply" /\ answer[t].status = 500

(* A deleted note stays deleted: neither an edit that had read it nor a note  *)
(* created later brings its id back.                                          *)
DeletedStaysDeleted ==
    [][\A i \in 0..nextId-1 : i \notin DOMAIN notes => i \notin DOMAIN notes']_vars

(* What a tab is told when its request takes effect before the thread has the *)
(* response: a list is the snapshot's when that is opened; an edit whose      *)
(* snapshot lacks the note is lost when it begins.                            *)
Promised(t) ==
    CASE pc[t] = "scan" -> Page(Listed(snap[t], request[t]))
      [] pc[t] = "update" /\ request[t].id \notin DOMAIN snap[t] -> Refusal(404)
      [] OTHER -> answer[t]

NB == INSTANCE Notebook WITH answer <- [t \in Tabs |-> Promised(t)]

(* Every request takes effect, and its answer is true, at one moment between  *)
(* its arrival and its reply: a list that scans its snapshot while others     *)
(* write shows one state of the collection, an edit changes the note it read  *)
(* and keeps its owner however often it was retried.                          *)
Refinement == NB!Spec

(* Every request is answered, whatever was raced for or failed at the first   *)
(* opening and however often its edit was overtaken.                          *)
EveryRequestAnswered ==
    \A t \in Tabs : request[t] # NoRequest ~> request[t] = NoRequest
=============================================================================
