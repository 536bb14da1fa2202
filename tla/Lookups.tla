------------------------------ MODULE Lookups ------------------------------
(***************************************************************************)
(* A collection whose indexes have pyx's keys, and what looking up an      *)
(* index answers there.                                                    *)
(***************************************************************************)
EXTENDS Collection, IndexKeys

\* The values of the documents' fields that can be indexed.
Scalars == {v \in {Entry(d, f) : d \in Docs, f \in UNION {Range(def) : def \in Defs}} : Supported(v)}

\* The entries are those of index.zig; an i64 is in its range, a string is bytes.
ASSUME LookupsAssumption ==
    /\ \A def \in Defs : def \in Seq(Range(def)) /\ def # << >>
    /\ \A def \in Defs, id \in Ids, d \in Docs :
          EntriesFor(def, id, EncodeDoc(d)) = IndexEntries(def, id, DecodeDoc(EncodeDoc(d)))
    /\ \A v \in Scalars :
          \/ v = I64(v.val) /\ v.val \in Int /\ -IntRange <= 2 * v.val /\ 2 * v.val < IntRange
          \/ v = Str(v.val) /\ v.val \in Seq(Bytes)
    /\ MaxDocs < Power[IdBytes] - 1

-----------------------------------------------------------------------------
(* Properties.                                                              *)

Indexable(vals) == /\ \A i \in DOMAIN vals : Supported(vals[i])
                   /\ Len(EncodeValues(vals)) + IdBytes <= MaxKey
Holders(s, def) == {id \in DOMAIN s.was : Indexable(FieldValues(s.was[id], def))}

(* find_one returns the lowest id among the documents that have the values.   *)
FindOneAnswers ==
    \A s \in {store, work} : \A def \in s.registry \ s.stale :
        \A vals \in {vs \in [DOMAIN def -> Scalars] : Indexable(vs)} :
            LET ids == {id \in Holders(s, def) : FieldValues(s.was[id], def) = vals} IN
            find_one(s.entries, def, vals) = IF ids = {} THEN Absent ELSE Min(ids)

\* The order of values a range follows: integers by value, then strings by
\* length and, at one length, by their bytes.
Less(v, w) ==
    IF v.type # w.type THEN v.type = "i64"
    ELSE IF v.type = "i64" THEN v.val < w.val
    ELSE \/ Len(v.val) < Len(w.val)
         \/ Len(v.val) = Len(w.val) /\ Below(v.val, w.val)

\* The order of the documents by their values for a field, and then by their ids.
Precedes(s, field, i, j) ==
    LET v == Entry(s.was[i], field)
        w == Entry(s.was[j], field)
    IN Less(v, w) \/ (v = w /\ i < j)

\* The documents whose value is between the bounds that are given.
InRange(s, def, gte, gt, lte, lt) ==
    {id \in Holders(s, def) :
        LET v == Entry(s.was[id], def[1]) IN
        /\ gte # Null => ~Less(v, gte)
        /\ gt # Null => Less(gt, v)
        /\ lte # Null => ~Less(lte, v)
        /\ lt # Null => Less(v, lt)}

(* find_range returns the ids of the documents whose value is between its     *)
(* bounds, each once, in the order of the values and then of the ids.         *)
RangeAnswers ==
    \A s \in {store, work} : \A def \in {d \in s.registry \ s.stale : Len(d) = 1} :
        \A gte, gt, lte, lt \in {v \in Scalars : Indexable(<<v>>)} \cup {Null} :
            Null \in {gte, gt} /\ Null \in {lte, lt} =>
                LET ids == find_range(s.entries, def[1], gte, gt, lte, lt) IN
                /\ Range(ids) = InRange(s, def, gte, gt, lte, lt)
                /\ \A i, j \in DOMAIN ids : i < j => Precedes(s, def[1], ids[i], ids[j])
=============================================================================
