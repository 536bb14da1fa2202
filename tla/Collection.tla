----------------------------- MODULE Collection -----------------------------
(***************************************************************************)
(* One collection of the default tree as the processes that have the       *)
(* database open use it: documents by id, get_many, and the secondary      *)
(* indexes that every write maintains (db.zig's Collection and index.zig's *)
(* Manager under the Python binding's Collection).                         *)
(*                                                                         *)
(* A process keeps a list of the indexes in memory, loaded when it opens   *)
(* the database; the registry in the tree is the shared truth.  Writes     *)
(* follow the list.  Explicit transactions and auto-commits of the         *)
(* collection exclude one another (WRITER and db.mu); what they publish    *)
(* is store, what the open block of owner sees is work.                    *)
(*                                                                         *)
(* The document format and the keys of the indexes are parameters here;    *)
(* they are DocCodec's and IndexKeys', and Lookups puts them together.     *)
(***************************************************************************)
EXTENDS Sums, SequencesExt, FiniteSetsExt

CONSTANTS
    Procs, NoProc,   \* processes; nobody is in an explicit block
    Docs,            \* the dicts that are inserted and put
    Defs,            \* the indexes that are created and dropped
    IdLists,         \* the arguments of get_many
    EncodeDoc(_),    \* the bytes of a dict
    DecodeDoc(_),    \* the dict of these bytes
    EntriesFor(_, _, _),  \* the entries of an index for a document: its id, its bytes
    MaxValue,        \* 1024: max_value_size
    MinCap,          \* 4096: smallest buffer of get_many
    PerDoc,          \* 256: its guess of a document's size
    MaxPasses,       \* 8: its passes
    SortedScan,      \* 128: ids from which getMany scans
    MaxDocs,         \* bound: documents ever inserted
    MaxCalls         \* bound: calls of the processes and the reader, reopens among them

Ids == 1..MaxDocs

ASSUME CollectionAssumption ==
    /\ NoProc \notin Procs
    /\ \A l \in IdLists : l \in Seq(Nat) /\ l # << >>
    /\ {MaxDocs, MaxCalls, MaxValue, MinCap, PerDoc, SortedScan} \subseteq Nat
    /\ MaxPasses \in Nat \ {0, 1}

\* A dict is read back as it was written.
ASSUME DocsAssumption ==
    \A d \in Docs : /\ EncodeDoc(d) \in Seq(Nat) /\ EncodeDoc(d) # << >>
                    /\ DecodeDoc(EncodeDoc(d)) = d

\* A key begins with its index and ends in the document's id.
ASSUME EntriesAssumption ==
    \A def \in Defs, id \in Ids, d \in Docs :
        /\ \A e \in EntriesFor(def, id, EncodeDoc(d)) : e[1] = def
        /\ \A other \in Ids \ {id}, f \in Docs :
              EntriesFor(def, id, EncodeDoc(d)) \cap EntriesFor(def, other, EncodeDoc(f)) = {}

VARIABLES
    store,           \* what is published
    work,            \* what owner's block sees; store when there is none
    owner,           \* the process in an explicit block
    indexes,         \* the list of each process
    lastId,          \* next_doc_id less one
    reader,          \* a thread's get_many
    calls            \* counter for the bound

vars == <<store, work, owner, indexes, lastId, reader, calls>>

\* docs: the bytes of each document; entries, registry: the index trees;
\* was: the dict that each document was written from; stale: the indexes of
\* which some write was made by a process whose list and the registry disagree
\* about them, or left half done.
EmptyStore == [docs |-> << >>, entries |-> {}, registry |-> {}, was |-> << >>, stale |-> {}]
Idle == [at |-> "idle"]

Init ==
    /\ store = EmptyStore /\ work = EmptyStore
    /\ owner = NoProc
    /\ indexes = [p \in Procs |-> {}]
    /\ lastId = 0
    /\ reader = Idle
    /\ calls = 0

-----------------------------------------------------------------------------
(* Index maintenance.                                                       *)

Without(f, id) == [i \in DOMAIN f \ {id} |-> f[i]]
With(f, id, v) == [i \in DOMAIN f \cup {id} |-> IF i = id THEN v ELSE f[i]]

EntriesOf(list, id, bytes) == UNION {EntriesFor(def, id, bytes) : def \in list}

\* The indexes that a write following list gets wrong.
Disagreed(s, list) == (list \ s.registry) \cup (s.registry \ list)

AfterInsert(s, list, id, bytes) ==
    [s EXCEPT !.entries = @ \cup EntriesOf(list, id, bytes),
              !.stale = @ \cup Disagreed(s, list)]

BeforeDelete(s, list, id) ==
    [s EXCEPT !.entries = @ \ EntriesOf(list, id, s.docs[id]),
              !.stale = @ \cup Disagreed(s, list)]

\* Fault seeded for TLC: a document that exists keeps its bytes.
InsertedOnce(s, list, id, d) ==
    AfterInsert([s EXCEPT !.docs = IF id \in DOMAIN @ THEN @ ELSE With(@, id, EncodeDoc(d)),
                          !.was = With(@, id, d)],
                list, id, EncodeDoc(d))

\* insertLocked.
Inserted(s, list, id, d) ==
    AfterInsert([s EXCEPT !.docs = With(@, id, EncodeDoc(d)), !.was = With(@, id, d)],
                list, id, EncodeDoc(d))

\* Fault seeded for TLC: the old document's entries are left behind.
PutKeepingEntries(s, list, id, d) == Inserted(s, list, id, d)

\* putLocked.
Updated(s, list, id, d) ==
    Inserted(IF id \in DOMAIN s.docs THEN BeforeDelete(s, list, id) ELSE s, list, id, d)

\* deleteLocked, of a document there is.
Deleted(s, list, id) ==
    [BeforeDelete(s, list, id) EXCEPT !.docs = Without(@, id), !.was = Without(@, id)]

\* createIndex, of an index the list lacks: the documents as they were scanned
\* before the registry entry was written.
Indexed(s, def) ==
    [s EXCEPT !.registry = @ \cup {def},
              !.entries = @ \cup UNION {EntriesFor(def, id, s.docs[id]) : id \in DOMAIN s.docs}]

\* dropIndex, of an index of the list: every entry under its prefix goes.
Dropped(s, def) ==
    [s EXCEPT !.registry = @ \ {def},
              !.entries = {e \in @ : e[1] # def},
              !.stale = @ \ {def}]

-----------------------------------------------------------------------------
(* Transactions.                                                            *)

Count == calls < MaxCalls /\ calls' = calls + 1

\* A statement of p: in its block, or in a transaction of its own.
Write(p, s) ==
    /\ owner \in {NoProc, p}
    /\ work' = s
    /\ store' = IF owner = p THEN store ELSE s

Begin(p) ==
    /\ owner = NoProc
    /\ Count
    /\ owner' = p
    /\ UNCHANGED <<store, work, indexes, lastId, reader>>

Commit(p) ==
    /\ owner = p
    /\ store' = work
    /\ owner' = NoProc
    /\ UNCHANGED <<work, indexes, lastId, reader, calls>>

\* pager.abort: the list of indexes stays as the block has made it, and so
\* does the id counter.
Abort(p) ==
    /\ owner = p
    /\ work' = store
    /\ owner' = NoProc
    /\ UNCHANGED <<store, indexes, lastId, reader, calls>>

\* The process ends, in a block or not, and opens the database again.
\* loadFromPager reads the registry.
Reopen(p) ==
    /\ Count
    /\ indexes' = [indexes EXCEPT ![p] = store.registry]
    /\ owner' = IF owner = p THEN NoProc ELSE owner
    /\ work' = IF owner = p THEN store ELSE work
    /\ UNCHANGED <<store, lastId, reader>>

-----------------------------------------------------------------------------
(* Documents.                                                               *)

\* Fault seeded for TLC: the size of the value is not looked at.
FitsUnchecked(d) == TRUE

Fits(d) == Len(EncodeDoc(d)) <= MaxValue

Insert(p, d) ==
    /\ Fits(d)
    /\ lastId < MaxDocs /\ lastId' = lastId + 1
    /\ Count
    /\ Write(p, Inserted(work, indexes[p], lastId + 1, d))
    /\ UNCHANGED <<owner, indexes, reader>>

Put(p, id, d) ==
    /\ Fits(d)
    /\ Count
    /\ Write(p, Updated(work, indexes[p], id, d))
    /\ UNCHANGED <<owner, indexes, lastId, reader>>

\* A put in a block of a document too large for the tree: the old entries are
\* gone when bt.put raises, and the block goes on.
PutTooLarge(p, id, d) ==
    /\ owner = p
    /\ ~Fits(d)
    /\ id \in DOMAIN work.docs
    /\ Count
    /\ work' = [BeforeDelete(work, indexes[p], id) EXCEPT !.stale = @ \cup indexes[p]]
    /\ UNCHANGED <<store, owner, indexes, lastId, reader>>

Delete(p, id) ==
    /\ id \in DOMAIN work.docs
    /\ Count
    /\ Write(p, Deleted(work, indexes[p], id))
    /\ UNCHANGED <<owner, indexes, lastId, reader>>

-----------------------------------------------------------------------------
(* Index definitions.                                                       *)

\* Fault seeded for TLC: the list is appended to before the documents are
\* scanned, and a second scan is thought needless.
CreateIndexUnscanned(p, def) ==
    /\ def \notin indexes[p]
    /\ Count
    /\ Write(p, [work EXCEPT !.registry = @ \cup {def}])
    /\ indexes' = [indexes EXCEPT ![p] = @ \cup {def}]
    /\ UNCHANGED <<owner, lastId, reader>>

CreateIndex(p, def) ==
    /\ def \notin indexes[p]
    /\ Count
    /\ Write(p, Indexed(work, def))
    /\ indexes' = [indexes EXCEPT ![p] = @ \cup {def}]
    /\ UNCHANGED <<owner, lastId, reader>>

DropIndex(p, def) ==
    /\ def \in indexes[p]
    /\ Count
    /\ Write(p, Dropped(work, def))
    /\ indexes' = [indexes EXCEPT ![p] = @ \ {def}]
    /\ UNCHANGED <<owner, lastId, reader>>

\* Outside a block the commit of either fails: the transaction is aborted, the
\* list keeps the change.
DdlCommitFails(p, def) ==
    /\ owner = NoProc
    /\ Count
    /\ indexes' = [indexes EXCEPT ![p] = IF def \in @ THEN @ \ {def} ELSE @ \cup {def}]
    /\ UNCHANGED <<store, work, owner, lastId, reader>>

-----------------------------------------------------------------------------
(* get_many, by a thread of one more process, which is in no block.  found:  *)
(* what this pass has read, in the order of ids; moments: the document there   *)
(* was of the id at each of its lookups.                                     *)

Largest(a, b) == IF a < b THEN b ELSE a

GetMany(ids) ==
    /\ reader = Idle
    /\ Count
    /\ reader' = [at |-> "reading", ids |-> ids, cap |-> Largest(Len(ids) * PerDoc, MinCap),
                  pass |-> 1, used |-> 0, grew |-> FALSE,
                  found |-> << >>, moments |-> << >>]
    /\ UNCHANGED <<store, work, owner, indexes, lastId>>

\* The positions that a scan finds: of a repeated id one, whichever its
\* unstable sort has put first.
Hits(ids) ==
    LET there == {i \in DOMAIN ids : ids[i] \in DOMAIN store.docs} IN
    {hits \in SUBSET there : \A i \in there : Cardinality({j \in hits : ids[j] = ids[i]}) = 1}

\* out_lens, of the values found: 0 for a miss.
OutLens(found) == [i \in DOMAIN found |-> Len(found[i])]

\* What the C call writes to out_buf.
Packed(found) == FlattenSeq(found)

\* Fault seeded for TLC: a repeated id moves the offset once only.
UnpackDistinct(ids, lens, buf) ==
    LET Offset(i) == Sums([j \in DOMAIN lens |-> IF \E k \in 1..j-1 : ids[k] = ids[j]
                                                 THEN 0 ELSE lens[j]])[i-1]
        found == {i \in DOMAIN ids : lens[i] # 0}
    IN [id \in {ids[i] : i \in found} |->
          LET i == CHOOSE i \in found : ids[i] = id /\ \A j \in found : ids[j] = id => j <= i
          IN DecodeDoc(SubSeq(buf, Offset(i) + 1, Offset(i) + lens[i]))]

\* The dict that is returned; of a repeated id the last occurrence stays.
Unpack(ids, lens, buf) ==
    LET Offset(i) == Sums(lens)[i-1]
        found == {i \in DOMAIN ids : lens[i] # 0}
    IN [id \in {ids[i] : i \in found} |->
          LET i == CHOOSE i \in found : ids[i] = id /\ \A j \in found : ids[j] = id => j <= i
          IN DecodeDoc(SubSeq(buf, Offset(i) + 1, Offset(i) + lens[i]))]

\* Fault seeded for TLC: the size that was asked for is not looked at.
NextCapDoubled(cap, used) == 2 * cap

NextCap(cap, used) == Largest(used, 2 * cap)

\* The end of a pass that has found these values.
PassDone(found) ==
    LET lens == OutLens(found)
        used == Sums(lens)[Len(lens)]
    IN reader' =
         IF used <= reader.cap
           THEN [at |-> "returned", ids |-> reader.ids,
                 result |-> Unpack(reader.ids, lens, Packed(found))]
         ELSE [reader EXCEPT !.at = IF reader.pass = MaxPasses THEN "failed" ELSE "reading",
                             !.cap = NextCap(@, used),
                             !.pass = IF reader.pass = MaxPasses THEN @ ELSE @ + 1,
                             !.used = used,
                             !.grew = @ \/ (reader.pass > 1 /\ used > reader.used),
                             !.found = << >>, !.moments = << >>]

\* The documents that there are now of these ids.
Existing(ids) == [id \in ids \cap DOMAIN store.was |-> store.was[id]]

\* The bytes of the document there is of id, none if there is none.
Lookup(id) == IF id \in DOMAIN store.docs THEN store.docs[id] ELSE << >>

\* What a pass has read with the lookup of its next id.
NextId == reader.ids[Len(reader.found) + 1]
NextFound == Append(reader.found, Lookup(NextId))

\* A few ids: each is looked up from the root that is published by then, with
\* nothing between two of them that keeps another process out.
Descend ==
    /\ reader.at = "reading" /\ Len(reader.ids) < SortedScan
    /\ IF Len(NextFound) = Len(reader.ids) THEN PassDone(NextFound)
       ELSE reader' = [reader EXCEPT !.found = NextFound,
                                     !.moments = Append(@, Existing({NextId}))]
    /\ UNCHANGED <<store, work, owner, indexes, lastId, calls>>

\* Many ids: one scan from one root.
Scan ==
    /\ reader.at = "reading" /\ Len(reader.ids) >= SortedScan
    /\ \E hits \in Hits(reader.ids) :
          PassDone([i \in DOMAIN reader.ids |->
                      IF i \in hits THEN store.docs[reader.ids[i]] ELSE << >>])
    /\ UNCHANGED <<store, work, owner, indexes, lastId, calls>>

-----------------------------------------------------------------------------
Next ==
    \/ \E p \in Procs :
          \/ Begin(p) \/ Commit(p) \/ Abort(p) \/ Reopen(p)
          \/ \E d \in Docs : Insert(p, d)
          \/ \E id \in 1..lastId, d \in Docs : Put(p, id, d) \/ PutTooLarge(p, id, d)
          \/ \E id \in 1..lastId : Delete(p, id)
          \/ \E def \in Defs : CreateIndex(p, def) \/ DropIndex(p, def) \/ DdlCommitFails(p, def)
    \/ \E ids \in IdLists : GetMany(ids)
    \/ Descend \/ Scan

Spec == Init /\ [][Next]_vars

-----------------------------------------------------------------------------
(* Properties.                                                              *)

StoreOK(s) ==
    /\ DOMAIN s.docs \subseteq Ids /\ DOMAIN s.was = DOMAIN s.docs
    /\ \A id \in DOMAIN s.docs :
          s.docs[id] \in {EncodeDoc(d) : d \in Docs} /\ Len(s.docs[id]) <= MaxValue
    /\ \A e \in s.entries : e[1] \in Defs
    /\ s.registry \subseteq Defs /\ s.stale \subseteq Defs

(* The types of the variables. *)
TypeOK ==
    /\ StoreOK(store) /\ StoreOK(work)
    /\ owner \in Procs \cup {NoProc} /\ (owner = NoProc => work = store)
    /\ indexes \in [Procs -> SUBSET Defs]
    /\ lastId \in 0..MaxDocs
    /\ reader.at \in {"idle", "reading", "returned", "failed"}
    /\ reader.at = "reading" => reader.pass \in 1..MaxPasses /\ reader.cap >= MinCap

(* An index has exactly the entries its documents call for, and an index that *)
(* is not registered has none, in what is published and in an open block      *)
(* alike, until a process writes whose list disagrees with the registry or a  *)
(* put fails half-way in a block; dropping the index mends it.                *)
IndexExact ==
    \A s \in {store, work} : \A def \in Defs \ s.stale :
        {e \in s.entries : e[1] = def} =
            IF def \in s.registry
              THEN UNION {EntriesFor(def, id, s.docs[id]) : id \in DOMAIN s.docs} ELSE {}

\* What there was of the id at position i when a pass that ends now has looked.
MomentOf(i) ==
    IF i \in DOMAIN reader.moments THEN reader.moments[i] ELSE Existing({reader.ids[i]})

(* get_many returns for each of its ids what was there when its last pass     *)
(* looked for that id, a document or none, and nothing else, whatever was     *)
(* written between passes and lookups and however often an id is repeated.    *)
(* From SortedScan ids on that is one moment for all of them.                 *)
GetManyAnswers ==
    [][reader.at = "reading" /\ reader'.at = "returned" =>
         /\ DOMAIN reader'.result \subseteq Range(reader.ids)
         /\ \A id \in Range(reader.ids) : \E i \in DOMAIN reader.ids :
               /\ reader.ids[i] = id
               /\ id \in DOMAIN reader'.result <=> id \in DOMAIN MomentOf(i)
               /\ id \in DOMAIN reader'.result => reader'.result[id] = MomentOf(i)[id]]_vars

(* get_many gives up only when the documents grew after it was told how much  *)
(* room they need.                                                            *)
GetManyConverges == reader.at = "failed" => reader.grew
=============================================================================
