----------------------------- MODULE Documents -----------------------------
(***************************************************************************)
(* A collection whose documents are in pyx's format, and what reading one  *)
(* answers.                                                                *)
(***************************************************************************)
EXTENDS Lookups, DocCodec

ASSUME DocumentsAssumption == \A d \in Docs : d.type = "obj" /\ Encodable(d)

-----------------------------------------------------------------------------
(* Properties.                                                              *)

(* A document is read back as the dict it was written from, and one whose end *)
(* is missing is refused, wherever it was cut.                                *)
DocsReadBack ==
    \A s \in {store, work} : \A id \in DOMAIN s.docs :
        LET doc == Decode(s.docs[id]) IN
        /\ doc.ok /\ doc.val = s.was[id] /\ doc.pos = Len(s.docs[id]) + 1
        /\ \A n \in 0..Len(s.docs[id])-1 : ~Decode(SubSeq(s.docs[id], 1, n)).ok
=============================================================================
