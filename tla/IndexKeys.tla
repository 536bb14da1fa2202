----------------------------- MODULE IndexKeys -----------------------------
(***************************************************************************)
(* The keys of pyx's secondary indexes (src/index.zig) and what a lookup   *)
(* reads from them.  An index is the sequence of its fields, one for a     *)
(* plain index, several for a compound one; the prefix of an index in the  *)
(* tree (namespace, collection, field names, each behind its length) is    *)
(* the index itself, and an entry is <<index, rest of the key>>.           *)
(***************************************************************************)
EXTENDS DocValues, FiniteSetsExt

CONSTANTS
    IdBytes,         \* 8: bytes of a document id in a key
    MaxKey           \* max_key_size, 256, less the prefix

ASSUME KeysAssumption == IdBytes \in Nat \ {0} /\ MaxKey \in 0..ByteBase

BigEndian(n, width) == Reverse(LittleEndian(n, width))
\* The padding that follows every id of a value: 0xFF * 8.
PastIds == [i \in 1..IdBytes |-> ByteBase - 1]

\* Lexicographic order of byte strings.
Below(a, b) ==
    \/ a # b /\ IsPrefix(a, b)
    \/ \E i \in DOMAIN a \cap DOMAIN b :
          a[i] < b[i] /\ \A j \in 1..i-1 : a[j] = b[j]

Supported(v) == v.type \in {"i64", "str"}

\* An integer with its sign bit flipped, big-endian; a string behind its length.
EncodeValue(v) ==
    IF v.type = "i64" THEN <<Tag.i64>> \o BigEndian(v.val + IntRange \div 2, IntBytes)
    ELSE <<Tag.str>> \o WriteVarint(Len(v.val)) \o v.val

EncodeValues(vals) == FlattenSeq([i \in DOMAIN vals |-> EncodeValue(vals[i])])

\* The values of dict d for the fields of def.
FieldValues(d, def) == [i \in DOMAIN def |-> Entry(d, def[i])]

\* addIndexEntry and removeIndexEntry: the entry of dict d under id, none when
\* a field is missing, its type unsupported or the key too large.
IndexEntries(def, id, d) ==
    LET vals == FieldValues(d, def)
        key == EncodeValues(vals) \o BigEndian(id, IdBytes)
    IN IF (\A i \in DOMAIN vals : Supported(vals[i])) /\ Len(key) <= MaxKey
         THEN {<<def, key>>} ELSE {}

-----------------------------------------------------------------------------
(* Lookups, over the entries of a view.                                     *)

KeysOf(entries, def) == {e[2] : e \in {x \in entries : x[1] = def}}
IdOf(key) == FromLittleEndian(Reverse(SubSeq(key, Len(key) - IdBytes + 1, Len(key))))
InOrder(keys) ==
    CHOOSE s \in [1..Cardinality(keys) -> keys] : \A i, j \in DOMAIN s : i < j => Below(s[i], s[j])

Absent == 0

\* findOneInView and findOneCompoundInView: the first key that has the values'
\* encoding as its prefix.
FindOne(entries, def, vals) ==
    LET prefix == EncodeValues(vals)
        matching == {k \in KeysOf(entries, def) : IsPrefix(prefix, k)}
    IN IF matching = {} THEN Absent
       ELSE LET first == CHOOSE k \in matching : \A other \in matching \ {k} : Below(k, other) IN
            IF Len(first) # Len(prefix) + IdBytes THEN Absent ELSE IdOf(first)

\* Bound: none, inclusive or exclusive.
Unbounded == [kind |-> "none"]
Inclusive(v) == [kind |-> "inclusive", val |-> v]
Exclusive(v) == [kind |-> "exclusive", val |-> v]

\* Fault seeded for TLC: an exclusive lower bound is not padded.
SeekKeyUnpadded(lo) == IF lo.kind = "none" THEN << >> ELSE EncodeValue(lo.val)

SeekKey(lo) ==
    CASE lo.kind = "none" -> << >>
      [] lo.kind = "inclusive" -> EncodeValue(lo.val)
      [] lo.kind = "exclusive" -> EncodeValue(lo.val) \o PastIds

PastStop(hi, key) ==
    CASE hi.kind = "none" -> FALSE
      [] hi.kind = "inclusive" -> Below(EncodeValue(hi.val) \o PastIds, key)
      [] hi.kind = "exclusive" -> ~Below(key, EncodeValue(hi.val))

\* findRangeInView: the walk from the seek key until an entry is past the stop
\* key or belongs to another index.
FindRange(entries, def, lo, hi) ==
    LET inRange == {k \in KeysOf(entries, def) :
                      ~Below(k, SeekKey(lo)) /\ ~PastStop(hi, k)}
        keys == InOrder(inRange)
    IN [i \in DOMAIN keys |-> IdOf(keys[i])]

-----------------------------------------------------------------------------
(* The lookups as the binding offers them.                                   *)

\* _to_pyx_value: ctypes keeps the low 64 bits of an int.
ToPyxValue(v) == IF v.type = "i64" THEN I64(Signed(v.val)) ELSE v

\* One side of find_range: gte or lte, else gt or lt, else no bound
\* (_bounds_from_kwargs, which refuses both, and _to_bound).
ToBound(inclusive, exclusive) ==
    IF inclusive # Null THEN Inclusive(ToPyxValue(inclusive))
    ELSE IF exclusive # Null THEN Exclusive(ToPyxValue(exclusive))
    ELSE Unbounded

\* Collection.find_one, by one value or by keyword arguments in the order of
\* the index; Absent is its None.
find_one(entries, def, vals) ==
    FindOne(entries, def, [i \in DOMAIN vals |-> ToPyxValue(vals[i])])

find_range(entries, field, gte, gt, lte, lt) ==
    FindRange(entries, <<field>>, ToBound(gte, gt), ToBound(lte, lt))
=============================================================================
