------------------------------ MODULE DocCodec ------------------------------
(***************************************************************************)
(* The document format as the Python binding writes and reads it           *)
(* (bindings/python/pyx/_doc.py, the pure-Python path).                    *)
(***************************************************************************)
EXTENDS DocValues

CONSTANTS
    LenBytes,        \* 4: bytes of the length of an array or object
    VarintGroups     \* 10: groups after which a varint is too large

ASSUME CodecAssumption == LenBytes \in Nat \ {0} /\ VarintGroups \in Nat \ {0}

-----------------------------------------------------------------------------
(* Encoding.                                                                *)

ValueTag(v) == IF v.type = "bool" THEN (IF v.val THEN Tag.true ELSE Tag.false)
               ELSE Tag[v.type]

RECURSIVE Payload(_)
Payload(v) ==
    LET Sized(body) == LittleEndian(Len(body), LenBytes) \o body
        Element(e) == <<ValueTag(e)>> \o Payload(e)
        Item(e) == <<ValueTag(e[2])>> \o WriteVarint(Len(e[1])) \o e[1] \o Payload(e[2])
    IN CASE v.type \in {"null", "bool"} -> << >>
         [] v.type = "i64" -> LittleEndian(v.val % IntRange, IntBytes)
         [] v.type = "f64" -> v.val
         [] v.type \in {"str", "bytes"} -> WriteVarint(Len(v.val)) \o v.val
         [] v.type = "arr" -> Sized(FlattenSeq([i \in DOMAIN v.val |-> Element(v.val[i])]))
         [] v.type = "obj" -> Sized(FlattenSeq([i \in DOMAIN v.val |-> Item(v.val[i])]))

Encode(doc) == <<Tag.obj>> \o Payload(doc)

\* encode raises "integer out of i64 range" for any other document.
RECURSIVE Encodable(_)
Encodable(v) ==
    CASE v.type = "i64" -> 2 * v.val >= -IntRange /\ 2 * v.val < IntRange
      [] v.type = "arr" -> \A i \in DOMAIN v.val : Encodable(v.val[i])
      [] v.type = "obj" -> \A i \in DOMAIN v.val : Encodable(v.val[i][2])
      [] OTHER -> TRUE

-----------------------------------------------------------------------------
(* Decoding: what was read and the position after it, or a ValueError.      *)

Read(v, pos) == [ok |-> TRUE, val |-> v, pos |-> pos]
Raised == [ok |-> FALSE]

RECURSIVE ReadGroups(_, _, _)
ReadGroups(buf, pos, group) ==
    IF pos > Len(buf) THEN Raised
    ELSE IF buf[pos] < VarBase THEN Read(buf[pos], pos + 1)
    ELSE IF group = VarintGroups THEN Raised
    ELSE LET rest == ReadGroups(buf, pos + 1, group + 1) IN
         IF rest.ok THEN [rest EXCEPT !.val = @ * VarBase + (buf[pos] - VarBase)]
         ELSE Raised

ReadVarint(buf, pos) == ReadGroups(buf, pos, 1)

\* n bytes from pos.
ReadBytes(buf, pos, n) ==
    IF pos + n - 1 > Len(buf) THEN Raised
    ELSE Read(SubSeq(buf, pos, pos + n - 1), pos + n)

\* A varint and as many bytes.
ReadSized(buf, pos) ==
    LET n == ReadVarint(buf, pos) IN
    IF n.ok THEN ReadBytes(buf, n.pos, n.val) ELSE Raised

Then(r, Make(_)) == IF r.ok THEN [r EXCEPT !.val = Make(@)] ELSE Raised

RECURSIVE ReadPayload(_, _, _), ReadElements(_, _, _), ReadEntries(_, _, _)

ReadPayload(buf, pos, tag) ==
    LET length == ReadBytes(buf, pos, LenBytes)
        end == length.pos + FromLittleEndian(length.val)    \* of the body
    IN CASE tag = Tag.null -> Read(Null, pos)
         [] tag \in {Tag.false, Tag.true} -> Read(Bool(tag = Tag.true), pos)
         [] tag = Tag.i64 ->
               Then(ReadBytes(buf, pos, IntBytes), LAMBDA b : I64(Signed(FromLittleEndian(b))))
         [] tag = Tag.f64 -> Then(ReadBytes(buf, pos, IntBytes), F64)
         [] tag = Tag.str -> Then(ReadSized(buf, pos), Str)
         [] tag = Tag.bytes -> Then(ReadSized(buf, pos), Blob)
         [] tag \in {Tag.arr, Tag.obj} ->
               IF ~length.ok THEN Raised
               ELSE IF end - 1 > Len(buf) THEN Raised
               ELSE LET body == IF tag = Tag.arr THEN Then(ReadElements(buf, length.pos, end), Arr)
                                                ELSE Then(ReadEntries(buf, length.pos, end), Obj)
                    IN IF body.ok THEN [body EXCEPT !.pos = end] ELSE Raised
         [] OTHER -> Raised

\* The values from pos up to end; the last one may reach beyond it.
ReadElements(buf, pos, end) ==
    IF pos >= end THEN Read(<< >>, pos)
    ELSE IF pos > Len(buf) THEN Raised
    ELSE LET v == ReadPayload(buf, pos + 1, buf[pos])
             rest == ReadElements(buf, v.pos, end)
         IN IF ~v.ok THEN Raised
            ELSE Then(rest, LAMBDA vs : <<v.val>> \o vs)

ReadEntries(buf, pos, end) ==
    IF pos >= end THEN Read(<< >>, pos)
    ELSE IF pos > Len(buf) THEN Raised
    ELSE LET k == ReadSized(buf, pos + 1)
             v == ReadPayload(buf, k.pos, buf[pos])
             rest == ReadEntries(buf, v.pos, end)
         IN IF ~k.ok THEN Raised
            ELSE IF k.pos > end \/ ~v.ok THEN Raised
            ELSE Then(rest, LAMBDA es : <<<<k.val, v.val>>>> \o es)

\* decode: the document, or Raised.
Decode(buf) ==
    IF Len(buf) = 0 THEN Raised
    ELSE IF buf[1] # Tag.obj THEN Raised
    ELSE ReadPayload(buf, 2, Tag.obj)

\* _doc.decode; NoValue stands for its ValueError.
Decoded(bytes) == LET doc == Decode(bytes) IN IF doc.ok THEN doc.val ELSE NoValue
=============================================================================
