------------------------------ MODULE DocValues ------------------------------
(***************************************************************************)
(* The values of documents and how numbers are written in bytes, in the    *)
(* document format (bindings/python/pyx/_doc.py) and in the keys of the    *)
(* indexes (src/index.zig).  A value is a record of its type and its       *)
(* content; a string is its UTF-8 bytes, a float its eight bytes, an       *)
(* object the sequence of its <<key, value>> entries in insertion order.   *)
(* The widths of the formats are parameters, so that every boundary is met *)
(* by small values; positions count from 1.                                *)
(***************************************************************************)
EXTENDS Sums, SequencesExt

CONSTANTS
    ByteBase,        \* 256: values of a byte; the upper half continues a varint
    IntBytes         \* 8: bytes of an i64

ASSUME ValuesAssumption ==
    /\ ByteBase \in Nat /\ ByteBase % 2 = 0 /\ ByteBase > 8
    /\ IntBytes \in Nat \ {0}

Bytes == 0..ByteBase-1
VarBase == ByteBase \div 2

\* Power[n] is ByteBase ^ n.
Power[n \in Nat] == IF n = 0 THEN 1 ELSE ByteBase * Power[n-1]

IntRange == Power[IntBytes]          \* 2^64

Tag == [null |-> 0, false |-> 1, true |-> 2, i64 |-> 3, f64 |-> 4,
        str |-> 5, bytes |-> 6, arr |-> 7, obj |-> 8]

Null == [type |-> "null"]
Bool(b) == [type |-> "bool", val |-> b]
I64(n) == [type |-> "i64", val |-> n]
F64(bytes) == [type |-> "f64", val |-> bytes]
Str(bytes) == [type |-> "str", val |-> bytes]
Blob(bytes) == [type |-> "bytes", val |-> bytes]
Arr(values) == [type |-> "arr", val |-> values]
Obj(entries) == [type |-> "obj", val |-> entries]

\* The entry of dict d for key k, or NoValue.
NoValue == [type |-> "missing"]
Entry(d, k) ==
    LET at == {i \in DOMAIN d.val : d.val[i][1] = k} IN
    IF at = {} THEN NoValue ELSE d.val[CHOOSE i \in at : TRUE][2]

LittleEndian(n, width) == [i \in 1..width |-> (n \div Power[i-1]) % ByteBase]
FromLittleEndian(bytes) == Sums([i \in 1..Len(bytes) |-> bytes[i] * Power[i-1]])[Len(bytes)]
\* Two's complement: the i64 that the low IntBytes bytes of n stand for.
Signed(n) == LET u == n % IntRange IN IF 2 * u >= IntRange THEN u - IntRange ELSE u

\* LEB128: seven bits a byte, the low ones first.
WriteVarint(n) ==
    LET groups[m \in 0..n] ==
            IF m < VarBase THEN <<m>>
            ELSE <<VarBase + (m % VarBase)>> \o groups[m \div VarBase]
    IN groups[n]
=============================================================================
