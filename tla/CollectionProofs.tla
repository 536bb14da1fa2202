-------------------------- MODULE CollectionProofs --------------------------
(***************************************************************************)
(* What Collection and Lookups guarantee, proved with TLAPS.               *)
(*                                                                         *)
(* The indexes: every write moves documents and entries together, and what *)
(* a list of indexes gets wrong is in stale (Good).  get_many: what a      *)
(* pass packs into one buffer is cut at the same places again              *)
(* (PackingCuts).  These hold whatever the document format and the keys of *)
(* the indexes are, as long as they keep to Collection's assumptions.      *)
(*                                                                         *)
(* Lookups, in the keys of index.zig at any widths: different values have  *)
(* encodings that part at some byte, the way the values are ordered        *)
(* (Parts, ValueOrder), so that the keys of an index are in the order of   *)
(* the values and then of the ids, and what a lookup reads between two     *)
(* keys are the documents with the values it was asked for.                *)
(***************************************************************************)
EXTENDS Lookups, NumberTheorems, FiniteSetTheorems, FunctionTheorems, SequenceTheorems, TLAPS

-----------------------------------------------------------------------------
(* Stores.                                                                  *)

Fields == {"docs", "entries", "registry", "was", "stale"}

\* The entries of index def among entries, and the ones documents call for.
Own(entries, def) == {e \in entries : e[1] = def}
Called(def, docs, ids) == UNION {EntriesFor(def, id, docs[id]) : id \in ids}

\* The indexes that are not stale are exact for the documents ids.
ExactFor(s, ids) ==
    \A def \in Defs \ s.stale :
        Own(s.entries, def) = IF def \in s.registry THEN Called(def, s.docs, ids) ELSE {}

\* A store of documents with ids up to last.
Sound(s, last) ==
    /\ DOMAIN s = Fields
    /\ DOMAIN s.docs \subseteq 1..last /\ DOMAIN s.was = DOMAIN s.docs
    /\ \A id \in DOMAIN s.docs :
          s.was[id] \in Docs /\ s.docs[id] = EncodeDoc(s.was[id]) /\ Fits(s.was[id])
    /\ \A e \in s.entries : e[1] \in Defs
    /\ s.registry \subseteq Defs /\ s.stale \subseteq Defs

Good(s, last) == Sound(s, last) /\ ExactFor(s, DOMAIN s.docs)

(* The entries that a list of indexes gives a document. *)
LEMMA EntriesOfList ==
  ASSUME NEW list \in SUBSET Defs, NEW id \in Ids, NEW d \in Docs
  PROVE  /\ \A e \in EntriesOf(list, id, EncodeDoc(d)) : e[1] \in list
         /\ \A def \in Defs : Own(EntriesOf(list, id, EncodeDoc(d)), def)
              = IF def \in list THEN EntriesFor(def, id, EncodeDoc(d)) ELSE {}
<1>1. \A other \in list : \A e \in EntriesFor(other, id, EncodeDoc(d)) : e[1] = other
  BY EntriesAssumption
<1>2. \A e : e \in EntriesOf(list, id, EncodeDoc(d))
               <=> \E other \in list : e \in EntriesFor(other, id, EncodeDoc(d))
  BY DEF EntriesOf
<1>3. \A e \in EntriesOf(list, id, EncodeDoc(d)) : e[1] \in list
  BY <1>1, <1>2
<1>4. ASSUME NEW def \in list
      PROVE  Own(EntriesOf(list, id, EncodeDoc(d)), def) = EntriesFor(def, id, EncodeDoc(d))
  <2>1. ASSUME NEW e PROVE e \in Own(EntriesOf(list, id, EncodeDoc(d)), def)
                              <=> e \in EntriesFor(def, id, EncodeDoc(d))
    BY <1>1, <1>2, <1>4 DEF Own
  <2> QED
    BY <2>1
<1>5. ASSUME NEW def, def \notin list PROVE Own(EntriesOf(list, id, EncodeDoc(d)), def) = {}
  BY <1>3, <1>5 DEF Own
<1> QED
  BY <1>3, <1>4, <1>5

(* A list that an index is not stale for after a write agrees about it with   *)
(* the registry.                                                              *)
LEMMA Agreed ==
  ASSUME NEW s, NEW list \in SUBSET Defs, NEW def \in Defs, def \notin Disagreed(s, list)
  PROVE  def \in list <=> def \in s.registry
BY DEF Disagreed

(* Taking a document's entries away leaves the documents alone, ... *)
LEMMA RemovesFields ==
  ASSUME NEW s, DOMAIN s = Fields, NEW list, NEW id
  PROVE  LET t == BeforeDelete(s, list, id) IN
         /\ DOMAIN t = Fields /\ t.docs = s.docs /\ t.was = s.was /\ t.registry = s.registry
         /\ t.entries = s.entries \ EntriesOf(list, id, s.docs[id])
         /\ t.stale = s.stale \cup Disagreed(s, list)
BY DEF BeforeDelete, Fields

(* ... and leaves the entries of the others. *)
LEMMA RemovesEntries ==
  ASSUME NEW last, last \in 0..MaxDocs, NEW s, Good(s, last), NEW list \in SUBSET Defs,
         NEW id \in DOMAIN s.docs
  PROVE  /\ Sound(BeforeDelete(s, list, id), last)
         /\ ExactFor(BeforeDelete(s, list, id), DOMAIN s.docs \ {id})
<1> DEFINE t == BeforeDelete(s, list, id)
           gone == EntriesOf(list, id, s.docs[id])
<1>1. DOMAIN s = Fields
  BY DEF Good, Sound
<1>2. /\ DOMAIN t = Fields /\ t.docs = s.docs /\ t.was = s.was /\ t.registry = s.registry
      /\ t.entries = s.entries \ gone /\ t.stale = s.stale \cup Disagreed(s, list)
  BY <1>1, RemovesFields
<1>3. Disagreed(s, list) \subseteq Defs
  BY DEF Disagreed, Good, Sound
<1>4. Sound(t, last)
  <2> HIDE DEF t
  <2> QED
    BY <1>2, <1>3 DEF Good, Sound
<1>5. ASSUME NEW i \in DOMAIN s.docs
      PROVE  i \in Ids /\ \E d \in Docs : s.docs[i] = EncodeDoc(d)
  <2>1. MaxDocs \in Nat
    BY CollectionAssumption
  <2> QED
    BY <2>1 DEF Good, Sound, Ids
<1>6. ASSUME NEW def \in Defs \ t.stale
      PROVE  Own(t.entries, def)
               = IF def \in t.registry THEN Called(def, t.docs, DOMAIN s.docs \ {id}) ELSE {}
  <2>1. def \in Defs \ s.stale /\ def \notin Disagreed(s, list)
    BY <1>2, <1>6
  <2>2. def \in list <=> def \in s.registry
    BY <2>1, Agreed
  <2>3. Own(s.entries, def) = IF def \in s.registry THEN Called(def, s.docs, DOMAIN s.docs) ELSE {}
    BY <2>1 DEF Good, ExactFor
  <2>4. Own(gone, def) = IF def \in list THEN EntriesFor(def, id, s.docs[id]) ELSE {}
    <3>1. PICK d \in Docs : s.docs[id] = EncodeDoc(d)
      BY <1>5
    <3>2. id \in Ids
      BY <1>5
    <3>3. Own(EntriesOf(list, id, EncodeDoc(d)), def)
            = IF def \in list THEN EntriesFor(def, id, EncodeDoc(d)) ELSE {}
      BY ZenonT(40), <2>1, <3>2, EntriesOfList
    <3> QED
      BY <3>1, <3>3
  <2>5. Own(t.entries, def) = Own(s.entries, def) \ Own(gone, def)
    BY <1>2 DEF Own
  <2>6. CASE def \notin s.registry
    BY <1>2, <2>3, <2>5, <2>6
  <2>7. CASE def \in s.registry
    <3>1. ASSUME NEW i \in DOMAIN s.docs \ {id}
          PROVE  EntriesFor(def, i, s.docs[i]) \cap EntriesFor(def, id, s.docs[id]) = {}
      <4>1. PICK d \in Docs : s.docs[i] = EncodeDoc(d)
        BY <1>5
      <4>2. PICK f \in Docs : s.docs[id] = EncodeDoc(f)
        BY <1>5
      <4> QED
        BY <1>5, <4>1, <4>2, EntriesAssumption
    <3>2. Own(s.entries, def) = Called(def, s.docs, DOMAIN s.docs)
      BY <2>3, <2>7
    <3>3. Own(gone, def) = EntriesFor(def, id, s.docs[id])
      BY <2>2, <2>4, <2>7
    <3>4. Called(def, s.docs, DOMAIN s.docs) \ EntriesFor(def, id, s.docs[id])
            = Called(def, s.docs, DOMAIN s.docs \ {id})
      BY <3>1 DEF Called
    <3> QED
      BY <1>2, <2>5, <2>7, <3>2, <3>3, <3>4
  <2> QED
    BY <2>6, <2>7
<1>7. ExactFor(t, DOMAIN s.docs \ {id})
  BY <1>6 DEF ExactFor
<1> QED
  BY <1>2, <1>4, <1>7

(* Writing a document whose old entries are gone, if it had any. *)
LEMMA AddsEntries ==
  ASSUME NEW last, last \in 0..MaxDocs, NEW s, Sound(s, last), NEW id \in 1..last,
         ExactFor(s, DOMAIN s.docs \ {id}),
         NEW list \in SUBSET Defs, NEW d \in Docs, Fits(d)
  PROVE  Good(Inserted(s, list, id, d), last)
<1> DEFINE t == Inserted(s, list, id, d)
           new == EntriesOf(list, id, EncodeDoc(d))
<1>1. DOMAIN s = Fields
  BY DEF Sound
<1>2. /\ DOMAIN t = Fields /\ t.docs = With(s.docs, id, EncodeDoc(d)) /\ t.was = With(s.was, id, d)
      /\ t.registry = s.registry /\ t.entries = s.entries \cup new
      /\ t.stale = s.stale \cup Disagreed(s, list)
  BY <1>1 DEF Inserted, AfterInsert, Fields, Disagreed
<1>3. Disagreed(s, list) \subseteq Defs
  BY DEF Disagreed, Sound
<1>4. id \in Ids
  BY CollectionAssumption DEF Ids
<1>5. \A e \in new : e[1] \in Defs
  <2>1. \A e \in new : e[1] \in list
    BY <1>4, EntriesOfList
  <2> QED
    BY <2>1
<1>6. /\ DOMAIN t.docs = DOMAIN s.docs \cup {id} /\ DOMAIN t.was = DOMAIN s.was \cup {id}
      /\ t.docs[id] = EncodeDoc(d) /\ t.was[id] = d
      /\ \A i \in DOMAIN s.docs \ {id} : t.docs[i] = s.docs[i]
      /\ \A i \in DOMAIN s.was \ {id} : t.was[i] = s.was[i]
  BY <1>2 DEF With
<1>7. Sound(t, last)
  <2> HIDE DEF t, new
  <2>1. DOMAIN s.was = DOMAIN s.docs /\ DOMAIN s.docs \subseteq 1..last
    BY DEF Sound
  <2>2. ASSUME NEW i \in DOMAIN t.docs
        PROVE  t.was[i] \in Docs /\ t.docs[i] = EncodeDoc(t.was[i]) /\ Fits(t.was[i])
    <3>1. CASE i = id
      BY <1>6, <3>1
    <3>2. CASE i # id
      <4>1. i \in DOMAIN s.docs \ {id} /\ i \in DOMAIN s.was \ {id}
        BY <1>6, <2>1, <3>2
      <4> QED
        BY <1>6, <4>1 DEF Sound
    <3> QED
      BY <3>1, <3>2
  <2>3. DOMAIN t.docs \subseteq 1..last /\ DOMAIN t.was = DOMAIN t.docs
    BY <1>6, <2>1
  <2>4. \A e \in t.entries : e[1] \in Defs
    BY <1>2, <1>5 DEF Sound
  <2>5. t.registry \subseteq Defs /\ t.stale \subseteq Defs
    BY <1>2, <1>3 DEF Sound
  <2> QED
    BY <1>2, <2>2, <2>3, <2>4, <2>5 DEF Sound
<1>8. ASSUME NEW def \in Defs \ t.stale
      PROVE  Own(t.entries, def)
               = IF def \in t.registry THEN Called(def, t.docs, DOMAIN t.docs) ELSE {}
  <2>1. def \in Defs \ s.stale /\ def \notin Disagreed(s, list)
    BY <1>2, <1>8
  <2>2. def \in list <=> def \in s.registry
    BY <2>1, Agreed
  <2>3. Own(s.entries, def)
          = IF def \in s.registry THEN Called(def, s.docs, DOMAIN s.docs \ {id}) ELSE {}
    BY <2>1 DEF ExactFor
  <2>4. Own(new, def) = IF def \in list THEN EntriesFor(def, id, EncodeDoc(d)) ELSE {}
    BY ZenonT(40), <1>4, EntriesOfList
  <2>5. Own(t.entries, def) = Own(s.entries, def) \cup Own(new, def)
    BY <1>2 DEF Own
  <2>6. CASE def \notin s.registry
    BY <1>2, <2>2, <2>3, <2>4, <2>5, <2>6
  <2>7. CASE def \in s.registry
    <3> HIDE DEF t, new
    <3>1. Called(def, t.docs, DOMAIN t.docs)
            = Called(def, s.docs, DOMAIN s.docs \ {id}) \cup EntriesFor(def, id, EncodeDoc(d))
      <4>1. \A e : e \in Called(def, t.docs, DOMAIN t.docs)
                     <=> \E i \in DOMAIN s.docs \cup {id} : e \in EntriesFor(def, i, t.docs[i])
        BY <1>6 DEF Called
      <4>2. \A e : e \in Called(def, s.docs, DOMAIN s.docs \ {id})
                     <=> \E i \in DOMAIN s.docs \ {id} : e \in EntriesFor(def, i, t.docs[i])
        BY <1>6 DEF Called
      <4> QED
        BY <1>6, <4>1, <4>2
    <3> QED
      BY <1>2, <2>2, <2>3, <2>4, <2>5, <2>7, <3>1
  <2> QED
    BY <2>6, <2>7
<1>9. ExactFor(t, DOMAIN t.docs)
  BY <1>8 DEF ExactFor
<1> QED
  BY <1>7, <1>9 DEF Good

(* A put keeps a store good, whether the document is there or not; an insert  *)
(* is one of a document that is not.                                          *)
LEMMA UpdateIsGood ==
  ASSUME NEW last, last \in 0..MaxDocs, NEW s, Good(s, last), NEW id \in 1..last,
         NEW list \in SUBSET Defs, NEW d \in Docs, Fits(d)
  PROVE  Good(Updated(s, list, id, d), last)
<1>1. CASE id \in DOMAIN s.docs
  <2> DEFINE t == BeforeDelete(s, list, id)
  <2>1. Sound(t, last) /\ ExactFor(t, DOMAIN s.docs \ {id})
    BY <1>1, RemovesEntries
  <2>2. t.docs = s.docs
    BY RemovesFields DEF Good, Sound
  <2>3. Good(Inserted(t, list, id, d), last)
    <3> HIDE DEF t
    <3>1. ExactFor(t, DOMAIN t.docs \ {id})
      BY <2>1, <2>2
    <3> QED
      BY <2>1, <3>1, AddsEntries
  <2> QED
    BY <1>1, <2>3 DEF Updated
<1>2. CASE id \notin DOMAIN s.docs
  <2>1. DOMAIN s.docs \ {id} = DOMAIN s.docs
    BY <1>2
  <2>2. Sound(s, last) /\ ExactFor(s, DOMAIN s.docs \ {id})
    BY <2>1 DEF Good
  <2>3. Good(Inserted(s, list, id, d), last)
    BY <2>2, AddsEntries
  <2> QED
    BY <1>2, <2>3 DEF Updated
<1> QED
  BY <1>1, <1>2

(* A delete keeps a store good. *)
LEMMA DeleteIsGood ==
  ASSUME NEW last, last \in 0..MaxDocs, NEW s, Good(s, last), NEW id \in DOMAIN s.docs,
         NEW list \in SUBSET Defs
  PROVE  Good(Deleted(s, list, id), last)
<1> DEFINE t == BeforeDelete(s, list, id)
           u == Deleted(s, list, id)
<1>0. Sound(t, last) /\ ExactFor(t, DOMAIN s.docs \ {id})
  BY RemovesEntries
<1>1. t.docs = s.docs /\ t.was = s.was
  BY RemovesFields DEF Good, Sound
<1> HIDE DEF t
<1>2. DOMAIN t = Fields
  BY <1>0 DEF Sound
<1>3. /\ DOMAIN u = Fields /\ u.docs = Without(s.docs, id) /\ u.was = Without(s.was, id)
      /\ u.entries = t.entries /\ u.registry = t.registry /\ u.stale = t.stale
  BY <1>1, <1>2 DEF Deleted, Fields, t
<1> HIDE DEF u
<1>4. /\ DOMAIN u.docs = DOMAIN s.docs \ {id} /\ DOMAIN u.was = DOMAIN s.was \ {id}
      /\ \A i \in DOMAIN s.docs \ {id} : u.docs[i] = s.docs[i]
      /\ \A i \in DOMAIN s.was \ {id} : u.was[i] = s.was[i]
  BY <1>3 DEF Without
<1>5. Sound(u, last)
  BY <1>0, <1>1, <1>3, <1>4 DEF Sound
<1>6. ASSUME NEW def \in Defs
      PROVE  Called(def, u.docs, DOMAIN u.docs) = Called(def, t.docs, DOMAIN s.docs \ {id})
  BY <1>1, <1>4 DEF Called
<1>7. ExactFor(u, DOMAIN u.docs)
  BY <1>0, <1>3, <1>6 DEF ExactFor
<1> QED
  BY <1>5, <1>7 DEF Good, u

(* A put that fails half-way leaves the indexes of the list stale. *)
LEMMA HalfPutIsGood ==
  ASSUME NEW last, last \in 0..MaxDocs, NEW s, Good(s, last), NEW id \in DOMAIN s.docs,
         NEW list \in SUBSET Defs
  PROVE  Good([BeforeDelete(s, list, id) EXCEPT !.stale = @ \cup list], last)
<1> DEFINE t == BeforeDelete(s, list, id)
           u == [t EXCEPT !.stale = @ \cup list]
<1>0. Sound(t, last) /\ ExactFor(t, DOMAIN s.docs \ {id})
  BY RemovesEntries
<1>1. /\ t.docs = s.docs /\ t.was = s.was /\ t.registry = s.registry
      /\ t.stale = s.stale \cup Disagreed(s, list)
  BY RemovesFields DEF Good, Sound
<1> HIDE DEF t
<1>2. DOMAIN t = Fields
  BY <1>0 DEF Sound
<1>3. /\ DOMAIN u = Fields /\ u.docs = t.docs /\ u.was = t.was
      /\ u.entries = t.entries /\ u.registry = t.registry /\ u.stale = t.stale \cup list
  BY <1>2 DEF Fields
<1> HIDE DEF u
<1>4. Sound(u, last)
  BY <1>0, <1>1, <1>3 DEF Sound
<1>5. ASSUME NEW def \in Defs \ u.stale
      PROVE  Own(u.entries, def)
               = IF def \in u.registry THEN Called(def, u.docs, DOMAIN u.docs) ELSE {}
  <2>1. def \notin list /\ def \notin Disagreed(s, list) /\ def \in Defs \ t.stale
    BY <1>1, <1>3, <1>5
  <2>2. def \notin t.registry
    BY <1>1, <2>1, Agreed
  <2> QED
    BY <1>0, <1>1, <1>3, <2>1, <2>2 DEF ExactFor
<1> QED
  BY <1>4, <1>5 DEF Good, ExactFor, u, t

(* Creating an index scans all documents. *)
LEMMA CreateIsGood ==
  ASSUME NEW last, last \in 0..MaxDocs, NEW s, Good(s, last), NEW def \in Defs
  PROVE  Good(Indexed(s, def), last)
<1> DEFINE t == Indexed(s, def)
           new == UNION {EntriesFor(def, id, s.docs[id]) : id \in DOMAIN s.docs}
<1>1. DOMAIN s = Fields
  BY DEF Good, Sound
<1>2. /\ DOMAIN t = Fields /\ t.docs = s.docs /\ t.was = s.was /\ t.stale = s.stale
      /\ t.registry = s.registry \cup {def} /\ t.entries = s.entries \cup new
  BY <1>1 DEF Indexed, Fields
<1>3. \A e \in new : e[1] = def
  <2>1. ASSUME NEW id \in DOMAIN s.docs, NEW e \in EntriesFor(def, id, s.docs[id])
        PROVE  e[1] = def
    <3>1. s.was[id] \in Docs /\ s.docs[id] = EncodeDoc(s.was[id])
      BY DEF Good, Sound
    <3>2. id \in Ids
      BY CollectionAssumption DEF Good, Sound, Ids
    <3> QED
      BY <3>1, <3>2, EntriesAssumption
  <2> QED
    BY <2>1
<1>4. new = Called(def, s.docs, DOMAIN s.docs)
  BY DEF Called
<1> HIDE DEF t, new
<1>5. Sound(t, last)
  BY <1>2, <1>3 DEF Good, Sound
<1>6. ASSUME NEW other \in Defs \ t.stale
      PROVE  Own(t.entries, other)
               = IF other \in t.registry THEN Called(other, t.docs, DOMAIN t.docs) ELSE {}
  <2>1. Own(s.entries, other)
          = IF other \in s.registry THEN Called(other, s.docs, DOMAIN s.docs) ELSE {}
    BY <1>2, <1>6 DEF Good, ExactFor
  <2>2. CASE other # def
    <3>1. Own(t.entries, other) = Own(s.entries, other)
      BY <1>2, <1>3, <2>2 DEF Own
    <3>2. other \in t.registry <=> other \in s.registry
      BY <1>2, <2>2
    <3> QED
      BY <1>2, <2>1, <3>1, <3>2
  <2>3. CASE other = def
    <3>1. Own(t.entries, other) = Own(s.entries, other) \cup new
      BY <1>2, <1>3, <2>3 DEF Own
    <3>2. Own(t.entries, other) = new
      BY <1>4, <2>1, <2>3, <3>1
    <3>3. other \in t.registry
      BY <1>2, <2>3
    <3> QED
      BY <1>2, <1>4, <2>3, <3>2, <3>3
  <2> QED
    BY <2>2, <2>3
<1> QED
  BY <1>5, <1>6 DEF Good, ExactFor, t

(* Dropping an index takes its entries along, right or wrong. *)
LEMMA DropIsGood ==
  ASSUME NEW last, last \in 0..MaxDocs, NEW s, Good(s, last), NEW def \in Defs
  PROVE  Good(Dropped(s, def), last)
<1> DEFINE t == Dropped(s, def)
<1>1. DOMAIN s = Fields
  BY DEF Good, Sound
<1>2. /\ DOMAIN t = Fields /\ t.docs = s.docs /\ t.was = s.was /\ t.stale = s.stale \ {def}
      /\ t.registry = s.registry \ {def} /\ t.entries = {e \in s.entries : e[1] # def}
  BY <1>1 DEF Dropped, Fields
<1> HIDE DEF t
<1>3. Sound(t, last)
  BY <1>2 DEF Good, Sound
<1>4. ASSUME NEW other \in Defs \ t.stale
      PROVE  Own(t.entries, other)
               = IF other \in t.registry THEN Called(other, t.docs, DOMAIN t.docs) ELSE {}
  <2>1. CASE other = def
    <3>1. Own(t.entries, other) = {}
      BY <1>2, <2>1 DEF Own
    <3> QED
      BY <1>2, <2>1, <3>1
  <2>2. CASE other # def
    <3>1. Own(t.entries, other) = Own(s.entries, other)
      BY <1>2, <2>2 DEF Own
    <3>2. other \in Defs \ s.stale /\ (other \in t.registry <=> other \in s.registry)
      BY <1>2, <2>2
    <3>3. Own(s.entries, other)
            = IF other \in s.registry THEN Called(other, s.docs, DOMAIN s.docs) ELSE {}
      BY <3>2 DEF Good, ExactFor
    <3> QED
      BY <1>2, <3>1, <3>2, <3>3
  <2> QED
    BY <2>1, <2>2
<1> QED
  BY <1>3, <1>4 DEF Good, ExactFor, t

-----------------------------------------------------------------------------
(* The buffer of get_many.                                                  *)

\* The recursion of FlattenSeq.
FlatStep(g, ss) == [i \in 1..Len(ss) |-> IF i = 1 THEN ss[i] ELSE g[i-1] \o ss[i]]

(* FlattenSeq is the last value of its recursion. *)
LEMMA FlatRecursion ==
  ASSUME NEW S, NEW ss \in Seq(Seq(S)), ss # << >>
  PROVE  \E f : /\ f = FlatStep(f, ss) /\ FlattenSeq(ss) = f[Len(ss)]
                /\ \A i \in 1..Len(ss) : f[i] \in Seq(S)
<1> DEFINE Solves(g, n) == /\ g \in [1..n -> Seq(S)] /\ g[1] = ss[1]
                           /\ \A i \in 2..n : g[i] = g[i-1] \o ss[i]
           Bad == {n \in Nat : n \in 1..Len(ss) /\ ~\E g : Solves(g, n)}
<1>1. Len(ss) \in Nat /\ Len(ss) >= 1 /\ \A i \in 1..Len(ss) : ss[i] \in Seq(S)
  OBVIOUS
<1>2. Solves([i \in 1..1 |-> ss[1]], 1)
  BY <1>1
<1>3. ASSUME NEW n \in Nat, n >= 1, n + 1 <= Len(ss), NEW g, Solves(g, n)
      PROVE  Solves([i \in 1..n+1 |-> IF i <= n THEN g[i] ELSE g[n] \o ss[n+1]], n + 1)
  <2> DEFINE h == [i \in 1..n+1 |-> IF i <= n THEN g[i] ELSE g[n] \o ss[n+1]]
  <2>1. ss[n+1] \in Seq(S) /\ g[n] \in Seq(S)
    BY <1>1, <1>3
  <2>2. g[n] \o ss[n+1] \in Seq(S)
    BY <2>1
  <2>3. h \in [1..n+1 -> Seq(S)]
    BY <1>3, <2>2
  <2>4. h[1] = ss[1]
    BY <1>3
  <2>5. ASSUME NEW i \in 2..n+1 PROVE h[i] = h[i-1] \o ss[i]
    <3>1. i \in 1..n+1 /\ i - 1 \in 1..n /\ i - 1 \in 1..n+1 /\ i - 1 <= n /\ (i <= n \/ i = n + 1)
      BY <1>3
    <3>2. h[i-1] = g[i-1]
      BY <3>1
    <3>3. CASE i <= n
      <4>1. i \in 2..n
        BY <1>3, <3>3
      <4>2. h[i] = g[i] /\ g[i] = g[i-1] \o ss[i]
        BY <1>3, <3>1, <3>3, <4>1
      <4> QED
        BY <3>2, <4>2
    <3>4. CASE i = n + 1
      <4>1. h[i] = g[n] \o ss[n+1] /\ i - 1 = n
        BY <1>3, <3>1, <3>4
      <4> QED
        BY <3>2, <3>4, <4>1
    <3> QED
      BY <3>1, <3>3, <3>4
  <2> QED
    BY <2>3, <2>4, <2>5
<1>4. Bad = {}
  <2> SUFFICES ASSUME Bad # {} PROVE FALSE
    OBVIOUS
  <2>1. Bad \in SUBSET Nat
    OBVIOUS
  <2>2. PICK m \in Bad : \A n \in Bad : m <= n
    <3> HIDE DEF Bad
    <3> QED
      BY <2>1, LeastNatural
  <2>3. m # 1
    <3> HIDE DEF Solves
    <3> QED
      BY <1>2
  <2>4. /\ m - 1 \in Nat /\ m - 1 >= 1 /\ m - 1 <= Len(ss) /\ m <= Len(ss)
        /\ m - 1 \in 1..Len(ss) /\ (m - 1) + 1 = m /\ ~(m <= m - 1)
    <3> HIDE DEF Solves
    <3>1. m \in Nat /\ m \in 1..Len(ss)
      OBVIOUS
    <3> QED
      BY <1>1, <2>3, <3>1
  <2>5. PICK g : Solves(g, m - 1)
    <3> HIDE DEF Solves
    <3>1. m - 1 \notin Bad
      <4> HIDE DEF Bad
      <4> QED
        BY <2>2, <2>4
    <3> QED
      BY <2>4, <3>1
  <2>6. \E h : Solves(h, m)
    <3> HIDE DEF Solves
    <3> QED
      BY <1>3, <2>4, <2>5
  <2> QED
    <3> HIDE DEF Solves
    <3> QED
      BY <2>6
<1>5. PICK g : Solves(g, Len(ss))
  <2> HIDE DEF Solves
  <2> QED
    BY <1>1, <1>4
<1>6. g = FlatStep(g, ss)
  <2>1. ASSUME NEW i \in 1..Len(ss) PROVE g[i] = IF i = 1 THEN ss[i] ELSE g[i-1] \o ss[i]
    <3>1. CASE i = 1
      BY <1>5, <3>1
    <3>2. CASE i # 1
      <4>1. i \in 2..Len(ss)
        BY <1>1, <3>2
      <4> QED
        BY <1>5, <3>2, <4>1
    <3> QED
      BY <3>1, <3>2
  <2> QED
    BY <1>5, <2>1 DEF FlatStep
<1> DEFINE f == CHOOSE e : e = FlatStep(e, ss)
<1>7. f = FlatStep(f, ss)
  BY <1>6
<1>8. FlattenSeq(ss) = f[Len(ss)]
  BY <1>1 DEF FlattenSeq, FlatStep
<1> HIDE DEF f
<1>9. \A i \in 1..Len(ss) : f[i] = IF i = 1 THEN ss[i] ELSE f[i-1] \o ss[i]
  BY <1>7 DEF FlatStep
<1> DEFINE Wrong == {n \in Nat : n \in 1..Len(ss) /\ f[n] \notin Seq(S)}
<1>10. Wrong = {}
  <2> SUFFICES ASSUME Wrong # {} PROVE FALSE
    OBVIOUS
  <2>1. Wrong \in SUBSET Nat
    OBVIOUS
  <2>2. PICK m \in Wrong : \A n \in Wrong : m <= n
    <3> HIDE DEF Wrong
    <3> QED
      BY <2>1, LeastNatural
  <2>3. m \in 1..Len(ss) /\ f[m] \notin Seq(S)
    OBVIOUS
  <2>4. CASE m = 1
    BY <1>1, <1>9, <2>3, <2>4
  <2>5. CASE m # 1
    <3>1. m - 1 \in 1..Len(ss) /\ m - 1 \in Nat /\ ~(m <= m - 1)
      BY <1>1, <2>3, <2>5
    <3>2. f[m-1] \in Seq(S)
      BY <2>2, <3>1
    <3>3. f[m] = f[m-1] \o ss[m] /\ ss[m] \in Seq(S)
      BY <1>1, <1>9, <2>3, <2>5
    <3>4. f[m-1] \o ss[m] \in Seq(S)
      BY <3>2, <3>3, ConcatProperties
    <3> QED
      BY <2>3, <3>3, <3>4
  <2> QED
    BY <2>4, <2>5
<1>11. ASSUME NEW i \in 1..Len(ss) PROVE f[i] \in Seq(S)
  <2>1. i \notin Wrong
    <3> HIDE DEF Wrong
    <3> QED
      BY <1>10
  <2>2. i \in Nat
    BY <1>1
  <2> QED
    BY <2>1, <2>2
<1> QED
  BY <1>7, <1>8, <1>11

(* A sequence that is packed with others is cut out where it was put. *)
LEMMA PackingCuts ==
  ASSUME NEW S, NEW ss \in Seq(Seq(S)), NEW lens \in Seq(Nat), Len(lens) = Len(ss),
         \A i \in 1..Len(ss) : lens[i] = Len(ss[i]),
         NEW j \in 1..Len(ss)
  PROVE  SubSeq(FlattenSeq(ss), Sums(lens)[j-1] + 1, Sums(lens)[j-1] + lens[j]) = ss[j]
<1> DEFINE e == Sums(lens)
<1>1. Len(ss) \in Nat /\ ss # << >> /\ \A i \in 1..Len(ss) : ss[i] \in Seq(S)
  OBVIOUS
<1>2. PICK f : /\ f = FlatStep(f, ss) /\ FlattenSeq(ss) = f[Len(ss)]
               /\ \A i \in 1..Len(ss) : f[i] \in Seq(S)
  BY <1>1, FlatRecursion
<1>3. \A i \in 1..Len(ss) : f[i] = IF i = 1 THEN ss[i] ELSE f[i-1] \o ss[i]
  BY <1>2 DEF FlatStep
<1>4. /\ e[0] = 0 /\ \A i \in 1..Len(ss) : e[i] = e[i-1] + lens[i]
      /\ \A i \in 0..Len(ss) : e[i] \in Nat
      /\ \A i \in 1..Len(ss) : lens[i] \in Nat
  BY SMTT(30), SumsType
<1> HIDE DEF e
<1> DEFINE Cuts(i) == /\ Len(f[i]) = e[i]
                      /\ \A k \in 1..i : /\ e[k] <= e[i]
                                         /\ \A x \in 1..lens[k] : f[i][e[k-1] + x] = ss[k][x]
           Bad == {n \in Nat : n \in 1..Len(ss) /\ ~Cuts(n)}
<1>5. Cuts(1)
  <2>1. 1 \in 1..Len(ss)
    BY <1>1
  <2>2. f[1] = ss[1] /\ e[1] = lens[1] /\ lens[1] = Len(ss[1]) /\ lens[1] \in Nat
    BY <1>3, <1>4, <2>1
  <2>3. ASSUME NEW x \in 1..lens[1] PROVE f[1][e[1-1] + x] = ss[1][x]
    <3>1. e[1-1] + x = x
      BY <1>4, <2>2
    <3> QED
      BY <2>2, <3>1
  <2> QED
    BY <2>2, <2>3
<1>6. ASSUME NEW n \in Nat, n >= 1, n + 1 <= Len(ss), Cuts(n)
      PROVE  Cuts(n + 1)
  <2>1. n \in 1..Len(ss) /\ n + 1 \in 1..Len(ss) /\ n + 1 # 1 /\ (n + 1) - 1 = n
    BY SMTT(30), <1>1, <1>6
  <2>2. f[n+1] = f[n] \o ss[n+1] /\ f[n] \in Seq(S) /\ ss[n+1] \in Seq(S)
    BY <1>1, <1>2, <1>3, <2>1
  <2>3. e[n+1] = e[n] + lens[n+1] /\ lens[n+1] = Len(ss[n+1]) /\ lens[n+1] \in Nat
        /\ e[n] \in Nat /\ e[n+1] \in Nat
    <3>1. e[n+1] = e[(n+1)-1] + lens[n+1]
      BY <1>4, <2>1
    <3>2. n \in 0..Len(ss) /\ n + 1 \in 0..Len(ss)
      BY <2>1
    <3>3. lens[n+1] = Len(ss[n+1]) /\ lens[n+1] \in Nat
      BY SMTT(30), <2>1
    <3> QED
      BY <1>4, <2>1, <3>1, <3>2, <3>3
  <2>4. /\ Len(f[n+1]) = Len(f[n]) + Len(ss[n+1])
        /\ \A x \in 1..(Len(f[n]) + Len(ss[n+1])) :
              f[n+1][x] = IF x <= Len(f[n]) THEN f[n][x] ELSE ss[n+1][x - Len(f[n])]
    <3> DEFINE s1 == f[n]
               s2 == ss[n+1]
    <3>1. s1 \in Seq(S) /\ s2 \in Seq(S)
      BY <2>2
    <3> HIDE DEF s1, s2
    <3>2. /\ Len(s1 \o s2) = Len(s1) + Len(s2)
          /\ \A x \in 1..(Len(s1) + Len(s2)) :
                (s1 \o s2)[x] = IF x <= Len(s1) THEN s1[x] ELSE s2[x - Len(s1)]
      BY <3>1, ConcatProperties
    <3> QED
      BY <2>2, <3>2 DEF s1, s2
  <2>5. Len(f[n+1]) = e[n+1]
    BY <1>6, <2>3, <2>4
  <2>6. ASSUME NEW k \in 1..n+1, NEW x \in 1..lens[k]
        PROVE  f[n+1][e[k-1] + x] = ss[k][x]
    <3>1. k \in 1..Len(ss) /\ k - 1 \in 0..Len(ss) /\ k \in Nat /\ n \in Nat
      <4>1. n \in Nat /\ n + 1 <= Len(ss) /\ Len(ss) \in Nat
        BY <1>1, <1>6
      <4>2. k \in Nat /\ k >= 1 /\ k <= n + 1
        BY <4>1
      <4> HIDE DEF Cuts, Bad
      <4> QED
        BY SMTT(30), <4>1, <4>2
    <3>2. e[k] = e[k-1] + lens[k] /\ e[k-1] \in Nat /\ lens[k] \in Nat
      <4>1. e[k] = e[k-1] + lens[k] /\ lens[k] \in Nat
        BY <1>4, <3>1
      <4>2. e[k-1] \in Nat
        BY <1>4, <3>1
      <4> QED
        BY <4>1, <4>2
    <3>3. x \in Nat /\ x >= 1 /\ x <= lens[k]
      BY <3>2
    <3> DEFINE a == e[k-1] + x
    <3>4. a \in Nat /\ a >= 1 /\ a <= e[k]
      BY SMTT(30), <3>2, <3>3
    <3>5. \A y \in 1..(e[n] + lens[n+1]) :
             f[n+1][y] = IF y <= e[n] THEN f[n][y] ELSE ss[n+1][y - e[n]]
      BY <1>6, <2>3, <2>4
    <3>6. CASE k <= n
      <4>1. k \in 1..n
        BY <3>1, <3>6
      <4>2. e[k] <= e[n] /\ f[n][a] = ss[k][x]
        BY <1>6, <4>1
      <4>3. e[k] \in Nat
        BY SMTT(30), <3>2
      <4> HIDE DEF a
      <4>4. a \in 1..(e[n] + lens[n+1]) /\ a <= e[n]
        <5> DEFINE b == e[n]
                   c == lens[n+1]
                   d == e[k]
        <5>1. b \in Nat /\ c \in Nat
          BY <2>3
        <5>2. d \in Nat /\ a <= d /\ d <= b /\ a \in Nat /\ a >= 1
          BY <3>4, <4>2, <4>3
        <5> HIDE DEF b, c, d
        <5>3. a <= b
          BY <5>1, <5>2
        <5>4. a \in 1..(b + c)
          BY <5>1, <5>2, <5>3
        <5> QED
          BY <5>3, <5>4 DEF b, c
      <4>5. f[n+1][a] = ss[k][x]
        BY <3>5, <4>2, <4>4
      <4> QED
        BY <4>5 DEF a
    <3>7. CASE k = n + 1
      <4>1. k - 1 = n
        BY <3>1, <3>7
      <4>2. a = e[n] + x
        BY <4>1
      <4>3. x <= lens[n+1]
        BY <3>3, <3>7
      <4> HIDE DEF a
      <4>4. a \in 1..(e[n] + lens[n+1]) /\ ~(a <= e[n]) /\ a - e[n] = x
        <5> DEFINE b == e[n]
                   c == lens[n+1]
        <5>1. b \in Nat /\ c \in Nat /\ a = b + x /\ x <= c
          BY <2>3, <4>2, <4>3
        <5> HIDE DEF b, c
        <5>2. a \in 1..(b + c) /\ ~(a <= b) /\ a - b = x
          BY <3>3, <5>1
        <5> QED
          BY <5>2 DEF b, c
      <4>5. f[n+1][a] = ss[n+1][x]
        BY <3>5, <4>4
      <4> QED
        BY <3>7, <4>5 DEF a
    <3> QED
      BY SMTT(30), <3>1, <3>6, <3>7
  <2>7. ASSUME NEW k \in 1..n+1 PROVE e[k] <= e[n+1]
    <3>1. CASE k <= n
      <4>1. k \in 1..n /\ k \in 0..Len(ss)
        BY <1>1, <1>6, <3>1
      <4>2. e[k] <= e[n]
        BY <1>6, <4>1
      <4>3. e[k] \in Nat
        BY <1>4, <4>1
      <4>4. e[n] <= e[n+1]
        BY SMTT(30), <2>3
      <4> DEFINE p == e[k]
                 q == e[n]
                 r == e[n+1]
      <4>5. p \in Nat /\ q \in Nat /\ r \in Nat /\ p <= q /\ q <= r
        BY <2>3, <4>2, <4>3, <4>4
      <4> HIDE DEF p, q, r
      <4>6. p <= r
        BY <4>5
      <4> QED
        BY <4>6 DEF p, q, r
    <3>2. CASE k = n + 1
      BY <2>3, <3>2
    <3> QED
      BY <3>1, <3>2
  <2> QED
    BY <2>5, <2>6, <2>7
<1>7. Bad = {}
  <2> SUFFICES ASSUME Bad # {} PROVE FALSE
    OBVIOUS
  <2>1. Bad \in SUBSET Nat
    OBVIOUS
  <2>2. PICK m \in Bad : \A n \in Bad : m <= n
    <3> HIDE DEF Bad
    <3> QED
      BY <2>1, LeastNatural
  <2> HIDE DEF Cuts
  <2>3. m # 1 /\ m \in Nat /\ m \in 1..Len(ss) /\ ~Cuts(m)
    BY <1>5
  <2>4. /\ m - 1 \in Nat /\ m - 1 >= 1 /\ m - 1 \in 1..Len(ss)
        /\ (m - 1) + 1 = m /\ (m - 1) + 1 <= Len(ss) /\ ~(m <= m - 1)
    BY <1>1, <2>3
  <2>5. m - 1 \notin Bad
    <3> HIDE DEF Bad
    <3> QED
      BY <2>2, <2>4
  <2>6. Cuts(m - 1)
    BY <2>4, <2>5
  <2>7. Cuts((m - 1) + 1)
    BY <1>6, <2>4, <2>6
  <2> QED
    BY <2>3, <2>4, <2>7
<1>8. Cuts(Len(ss))
  <2> HIDE DEF Cuts
  <2>1. Len(ss) \in Nat /\ Len(ss) \in 1..Len(ss)
    BY <1>1
  <2> QED
    BY <1>7, <2>1
<1> DEFINE buf == FlattenSeq(ss)
<1>9. /\ buf = f[Len(ss)] /\ buf \in Seq(S) /\ Len(buf) = e[Len(ss)] /\ e[j] <= e[Len(ss)]
      /\ \A x \in 1..lens[j] : buf[e[j-1] + x] = ss[j][x]
  BY <1>1, <1>2, <1>8
<1> HIDE DEF buf
<1>10. e[j] = e[j-1] + lens[j] /\ e[j-1] \in Nat /\ lens[j] \in Nat /\ lens[j] = Len(ss[j])
       /\ e[Len(ss)] \in Nat
  <2>1. j - 1 \in 0..Len(ss) /\ Len(ss) \in 0..Len(ss)
    BY <1>1
  <2> QED
    BY <1>4, <2>1
<1> DEFINE cut == SubSeq(buf, e[j-1] + 1, e[j-1] + lens[j])
<1>11. \A i \in (e[j-1] + 1)..(e[j-1] + lens[j]) : buf[i] \in S
  BY SMTT(30), <1>9, <1>10
<1>12. /\ cut \in Seq(S) /\ Len(cut) = lens[j]
       /\ \A x \in 1..lens[j] : cut[x] = buf[e[j-1] + x]
  <2> DEFINE m == e[j-1] + 1
             n == e[j-1] + lens[j]
  <2>1. m \in Int /\ n \in Int
    BY <1>10
  <2>2. n - m + 1 = lens[j] /\ (m <= n <=> lens[j] # 0)
    BY SMTT(30), <1>10
  <2>3. ASSUME NEW x \in 1..lens[j] PROVE m + x - 1 = e[j-1] + x
    BY <1>10
  <2>4. \A i \in m..n : buf[i] \in S
    BY <1>11
  <2>5. cut = SubSeq(buf, m, n)
    OBVIOUS
  <2> HIDE DEF m, n, cut
  <2>6. /\ cut \in Seq(S) /\ Len(cut) = IF m <= n THEN n - m + 1 ELSE 0
        /\ \A x \in 1..n - m + 1 : cut[x] = buf[m + x - 1]
    <3>1. /\ SubSeq(buf, m, n) \in Seq(S)
          /\ Len(SubSeq(buf, m, n)) = IF m <= n THEN n - m + 1 ELSE 0
          /\ \A x \in 1..n - m + 1 : SubSeq(buf, m, n)[x] = buf[m + x - 1]
      BY <2>1, <2>4, SubSeqProperties
    <3> QED
      BY <2>5, <3>1
  <2>7. Len(cut) = lens[j]
    BY <1>10, <2>2, <2>6
  <2>8. ASSUME NEW x \in 1..lens[j] PROVE cut[x] = buf[e[j-1] + x]
    BY <2>2, <2>3, <2>6
  <2> QED
    BY <2>6, <2>7, <2>8
<1> HIDE DEF cut
<1>13. ss[j] \in Seq(S) /\ Len(cut) = Len(ss[j]) /\ \A x \in 1..Len(cut) : cut[x] = ss[j][x]
  BY <1>1, <1>9, <1>10, <1>12
<1>14. cut = ss[j]
  BY <1>12, <1>13, SeqEqual
<1> QED
  BY <1>14 DEF cut, buf, e

(* Of the ids that are there each is found once at least, and only those are. *)
LEMMA HitsCover ==
  ASSUME NEW ids \in Seq(Nat), NEW hits \in Hits(ids)
  PROVE  /\ hits \subseteq {i \in DOMAIN ids : ids[i] \in DOMAIN store.docs}
         /\ \A i \in DOMAIN ids : ids[i] \in DOMAIN store.docs => \E j \in hits : ids[j] = ids[i]
<1> DEFINE there == {i \in DOMAIN ids : ids[i] \in DOMAIN store.docs}
<1>1. /\ hits \in SUBSET there
      /\ \A i \in there : Cardinality({j \in hits : ids[j] = ids[i]}) = 1
  BY DEF Hits
<1>2. ASSUME NEW i \in there PROVE \E j \in hits : ids[j] = ids[i]
  <2>1. {j \in hits : ids[j] = ids[i]} # {}
    BY <1>1, FS_EmptySet
  <2> QED
    BY <2>1
<1> QED
  BY <1>1, <1>2

(* A function on 1..n is a sequence of n.                                     *)
LEMMA FunctionIsSeq ==
  ASSUME NEW S, NEW n \in Nat, NEW f \in [1..n -> S]
  PROVE  f \in Seq(S) /\ Len(f) = n
  OBVIOUS

(* What out_lens says of a pass: natural numbers, 0 for what was not found. *)
LEMMA LensType ==
  ASSUME NEW found \in Seq(Seq(Nat))
  PROVE  /\ OutLens(found) \in Seq(Nat) /\ Len(OutLens(found)) = Len(found)
         /\ \A i \in 1..Len(found) : /\ OutLens(found)[i] = Len(found[i])
                                     /\ OutLens(found)[i] # 0 <=> found[i] # << >>
<1> DEFINE lens == OutLens(found)
<1>1. /\ DOMAIN found = 1..Len(found) /\ Len(found) \in Nat
      /\ \A i \in 1..Len(found) : found[i] \in Seq(Nat)
  OBVIOUS
<1>2. lens = [i \in 1..Len(found) |-> Len(found[i])]
  BY <1>1 DEF OutLens
<1>3. \A i \in 1..Len(found) : lens[i] = Len(found[i]) /\ Len(found[i]) \in Nat
  BY <1>1, <1>2
<1>4. lens \in [1..Len(found) -> Nat]
  BY <1>2, <1>3
<1>5. \A i \in 1..Len(found) : Len(found[i]) # 0 <=> found[i] # << >>
  BY <1>1
<1> HIDE DEF lens
<1>6. lens \in Seq(Nat) /\ Len(lens) = Len(found)
  <2>1. Len(found) \in Nat
    BY <1>1
  <2> QED
    BY <1>4, <2>1, FunctionIsSeq
<1>7. \A i \in 1..Len(found) : lens[i] = Len(found[i]) /\ (lens[i] # 0 <=> found[i] # << >>)
  BY <1>3, <1>5
<1> QED
  BY <1>6, <1>7 DEF lens

\* The dict of what a pass has found.
Answer(ids, found) == Unpack(ids, OutLens(found), Packed(found))

(* What a pass has packed is read back: an id that was found, as it was found *)
(* at one of its positions.                                                   *)
LEMMA UnpackReads ==
  ASSUME NEW ids \in Seq(Nat), NEW found \in Seq(Seq(Nat)), Len(found) = Len(ids), ids # << >>
  PROVE  /\ DOMAIN Answer(ids, found) = {ids[i] : i \in {j \in DOMAIN ids : found[j] # << >>}}
         /\ \A id \in DOMAIN Answer(ids, found) : \E i \in DOMAIN ids :
               ids[i] = id /\ found[i] # << >> /\ Answer(ids, found)[id] = DecodeDoc(found[i])
<1> DEFINE result == Answer(ids, found)
           lens == OutLens(found)
           buf == Packed(found)
           some == {i \in DOMAIN ids : lens[i] # 0}
           Cut(i) == SubSeq(buf, Sums(lens)[i-1] + 1, Sums(lens)[i-1] + lens[i])
           At(id) == CHOOSE i \in some : ids[i] = id /\ \A j \in some : ids[j] = id => j <= i
<1>1. DOMAIN ids = 1..Len(found) /\ Len(found) \in Nat
  OBVIOUS
<1>2. /\ lens \in Seq(Nat) /\ Len(lens) = Len(found)
      /\ \A i \in 1..Len(found) : lens[i] = Len(found[i]) /\ (lens[i] # 0 <=> found[i] # << >>)
  BY LensType
<1>3. buf = FlattenSeq(found)
  BY DEF Packed
<1>4. result = [id \in {ids[i] : i \in some} |-> DecodeDoc(Cut(At(id)))]
  BY DEF Unpack, Answer
<1> HIDE DEF lens, buf, result
<1>5. some = {j \in DOMAIN ids : found[j] # << >>}
  BY <1>1, <1>2
<1>6. ASSUME NEW i \in some PROVE Cut(i) = found[i]
  <2>1. i \in 1..Len(found)
    BY <1>1
  <2>2. SubSeq(FlattenSeq(found), Sums(lens)[i-1] + 1, Sums(lens)[i-1] + lens[i]) = found[i]
    BY ZenonT(40), <1>2, <2>1, PackingCuts
  <2> QED
    BY <1>3, <2>2
<1>7. ASSUME NEW id \in {ids[i] : i \in some} PROVE At(id) \in some /\ ids[At(id)] = id
  <2> DEFINE all == {i \in some : ids[i] = id}
  <2>1. all # {} /\ all \in SUBSET Nat /\ \A n \in all : n <= Len(found)
    BY <1>1
  <2>2. Max(all) \in all /\ \A n \in all : n <= Max(all)
    <3> HIDE DEF all
    <3> QED
      BY <1>1, <2>1, MaxOfBounded
  <2>3. \E i \in some : ids[i] = id /\ \A j \in some : ids[j] = id => j <= i
    BY <2>2
  <2> QED
    BY <2>3
<1> HIDE DEF At, Cut, some
<1>8. DOMAIN result = {ids[i] : i \in some}
  BY <1>4
<1>9. ASSUME NEW id \in DOMAIN result
      PROVE  \E i \in DOMAIN ids : ids[i] = id /\ found[i] # << >> /\ result[id] = DecodeDoc(found[i])
  <2>1. At(id) \in some /\ ids[At(id)] = id
    BY <1>7, <1>8
  <2>2. result[id] = DecodeDoc(Cut(At(id)))
    BY <1>4, <1>8
  <2>3. At(id) \in DOMAIN ids /\ found[At(id)] # << >>
    BY <1>5, <2>1
  <2> QED
    BY <1>6, <2>1, <2>2, <2>3
<1> QED
  BY <1>5, <1>8, <1>9 DEF result

\* What moments says there was of each id when it was found is what was found,
\* and no id is missed that was there at all its positions.
Witnessed(ids, found, moments) ==
    /\ \A i \in DOMAIN ids : found[i] # << >> =>
          /\ ids[i] \in DOMAIN moments[i] /\ moments[i][ids[i]] \in Docs
          /\ found[i] = EncodeDoc(moments[i][ids[i]])
    /\ \A i \in DOMAIN ids : ids[i] \in DOMAIN moments[i] =>
          \E j \in DOMAIN ids : ids[j] = ids[i] /\ found[j] # << >>

\* The dict answers for each id as there was at one of its positions.
AnswersAs(dict, ids, moments) ==
    /\ DOMAIN dict \subseteq Range(ids)
    /\ \A id \in Range(ids) : \E i \in DOMAIN ids :
          /\ ids[i] = id
          /\ id \in DOMAIN dict <=> id \in DOMAIN moments[i]
          /\ id \in DOMAIN dict => dict[id] = moments[i][id]

(* So does the dict of what was found.                                        *)
LEMMA UnpackAnswers ==
  ASSUME NEW ids \in Seq(Nat), NEW found \in Seq(Seq(Nat)), Len(found) = Len(ids), ids # << >>,
         NEW moments, Witnessed(ids, found, moments)
  PROVE  AnswersAs(Answer(ids, found), ids, moments)
<1> DEFINE result == Answer(ids, found)
<1>1. /\ DOMAIN result = {ids[i] : i \in {j \in DOMAIN ids : found[j] # << >>}}
      /\ \A id \in DOMAIN result : \E i \in DOMAIN ids :
            ids[i] = id /\ found[i] # << >> /\ result[id] = DecodeDoc(found[i])
  BY UnpackReads
<1> HIDE DEF result
<1>2. DOMAIN result \subseteq Range(ids)
  BY <1>1 DEF Range
<1>3. ASSUME NEW id \in Range(ids)
      PROVE  \E i \in DOMAIN ids :
               /\ ids[i] = id
               /\ id \in DOMAIN result <=> id \in DOMAIN moments[i]
               /\ id \in DOMAIN result => result[id] = moments[i][id]
  <2>1. CASE id \in DOMAIN result
    <3>1. PICK i \in DOMAIN ids : ids[i] = id /\ found[i] # << >> /\ result[id] = DecodeDoc(found[i])
      BY <1>1, <2>1
    <3>2. /\ id \in DOMAIN moments[i] /\ moments[i][id] \in Docs
          /\ found[i] = EncodeDoc(moments[i][id])
      BY <3>1 DEF Witnessed
    <3>3. DecodeDoc(found[i]) = moments[i][id]
      BY <3>2, DocsAssumption
    <3> QED
      BY <2>1, <3>1, <3>2, <3>3
  <2>2. CASE id \notin DOMAIN result
    <3>1. PICK i \in DOMAIN ids : ids[i] = id
      BY DEF Range
    <3>2. \A j \in DOMAIN ids : ids[j] = id => found[j] = << >>
      BY <1>1, <2>2
    <3>3. id \notin DOMAIN moments[i]
      BY <3>1, <3>2 DEF Witnessed
    <3> QED
      BY <2>2, <3>1, <3>3
  <2> QED
    BY <2>1, <2>2
<1> QED
  BY <1>2, <1>3 DEF result, AnswersAs

-----------------------------------------------------------------------------
(* The indexes.                                                             *)

\* Both states are good; the block's is the published one if there is none.
IndexInv ==
    /\ Good(store, lastId) /\ Good(work, lastId)
    /\ owner \in Procs \cup {NoProc} /\ (owner = NoProc => work = store)
    /\ indexes \in [Procs -> SUBSET Defs]
    /\ lastId \in 0..MaxDocs

(* A statement whose result is good keeps both states good. *)
LEMMA WriteIsGood ==
  ASSUME IndexInv, NEW p \in Procs, NEW s, Write(p, s), lastId' \in 0..MaxDocs,
         lastId <= lastId', Good(s, lastId'), Good(store, lastId'),
         owner' = owner, indexes' \in [Procs -> SUBSET Defs]
  PROVE  IndexInv'
<1>1. work' = s /\ store' = IF owner = p THEN store ELSE s
  BY DEF Write
<1>2. Good(work', lastId') /\ Good(store', lastId')
  BY <1>1
<1>3. owner' = NoProc => work' = store'
  BY <1>1, CollectionAssumption
<1> QED
  BY <1>2, <1>3 DEF IndexInv

(* More ids do no harm. *)
LEMMA GoodLater ==
  ASSUME NEW last, last \in Nat, NEW s, Good(s, last)
  PROVE  Good(s, last + 1)
<1>1. 1..last \subseteq 1..(last + 1)
  OBVIOUS
<1> QED
  BY <1>1 DEF Good, Sound

(* The initial store. *)
LEMMA EmptyIsGood == Good(EmptyStore, 0)
<1> DEFINE s == EmptyStore
<1>1. /\ DOMAIN s = Fields /\ s.docs = << >> /\ s.was = << >>
      /\ s.entries = {} /\ s.registry = {} /\ s.stale = {}
  BY DEF EmptyStore, Fields
<1> HIDE DEF s
<1>2. Sound(s, 0)
  BY <1>1 DEF Sound
<1>3. ExactFor(s, DOMAIN s.docs)
  BY <1>1 DEF ExactFor, Own
<1> QED
  BY <1>2, <1>3 DEF Good, s

(* Each action keeps the invariant. *)
LEMMA IndexStep == IndexInv /\ [Next]_vars => IndexInv'
<1> SUFFICES ASSUME IndexInv, [Next]_vars PROVE IndexInv'
  OBVIOUS
<1> USE CollectionAssumption
<1>1. ASSUME NEW p \in Procs, Begin(p) PROVE IndexInv'
  BY <1>1 DEF Begin, IndexInv
<1>2. ASSUME NEW p \in Procs, Commit(p) PROVE IndexInv'
  BY <1>2 DEF Commit, IndexInv
<1>3. ASSUME NEW p \in Procs, Abort(p) PROVE IndexInv'
  BY <1>3 DEF Abort, IndexInv
<1>4. ASSUME NEW p \in Procs, Reopen(p) PROVE IndexInv'
  <2>1. store.registry \in SUBSET Defs
    BY DEF IndexInv, Good, Sound
  <2>2. indexes' \in [Procs -> SUBSET Defs]
    BY <1>4, <2>1 DEF Reopen, IndexInv
  <2> QED
    BY <1>4, <2>2 DEF Reopen, IndexInv
<1>5. ASSUME NEW p \in Procs, NEW d \in Docs, Insert(p, d) PROVE IndexInv'
  <2>1. /\ Fits(d) /\ lastId < MaxDocs /\ lastId' = lastId + 1
        /\ Write(p, Inserted(work, indexes[p], lastId + 1, d))
        /\ owner' = owner /\ indexes' = indexes
    BY <1>5 DEF Insert
  <2>2. lastId \in Nat /\ MaxDocs \in Nat /\ indexes[p] \in SUBSET Defs
    BY DEF IndexInv
  <2>3. lastId + 1 \in 0..MaxDocs /\ lastId + 1 \in 1..(lastId + 1) /\ lastId <= lastId + 1
    BY <2>1, <2>2
  <2>4. Good(work, lastId + 1) /\ Good(store, lastId + 1)
    BY <2>2, GoodLater DEF IndexInv
  <2>5. lastId + 1 \notin DOMAIN work.docs
    BY <2>2 DEF IndexInv, Good, Sound
  <2>6. DOMAIN work.docs \ {lastId + 1} = DOMAIN work.docs
    BY <2>5
  <2>7. Sound(work, lastId + 1) /\ ExactFor(work, DOMAIN work.docs \ {lastId + 1})
    BY <2>4, <2>6 DEF Good
  <2>8. Good(Inserted(work, indexes[p], lastId + 1, d), lastId + 1)
    BY <2>1, <2>2, <2>3, <2>7, AddsEntries
  <2>9. indexes' \in [Procs -> SUBSET Defs]
    BY <2>1 DEF IndexInv
  <2> QED
    BY <2>1, <2>3, <2>4, <2>8, <2>9, WriteIsGood
<1>6. ASSUME NEW p \in Procs, NEW id \in 1..lastId, NEW d \in Docs, Put(p, id, d)
      PROVE  IndexInv'
  <2>1. /\ Fits(d) /\ Write(p, Updated(work, indexes[p], id, d))
        /\ lastId' = lastId /\ owner' = owner /\ indexes' = indexes
    BY <1>6 DEF Put
  <2>2. indexes[p] \in SUBSET Defs /\ lastId \in 0..MaxDocs /\ lastId <= lastId
        /\ Good(work, lastId) /\ Good(store, lastId) /\ indexes \in [Procs -> SUBSET Defs]
    BY DEF IndexInv
  <2>3. Good(Updated(work, indexes[p], id, d), lastId)
    BY <2>1, <2>2, UpdateIsGood
  <2> QED
    BY <2>1, <2>2, <2>3, WriteIsGood
<1>7. ASSUME NEW p \in Procs, NEW id \in 1..lastId, NEW d \in Docs, PutTooLarge(p, id, d)
      PROVE  IndexInv'
  <2>1. /\ owner = p /\ id \in DOMAIN work.docs
        /\ work' = [BeforeDelete(work, indexes[p], id) EXCEPT !.stale = @ \cup indexes[p]]
        /\ UNCHANGED <<store, owner, indexes, lastId>>
    BY <1>7 DEF PutTooLarge
  <2>2. indexes[p] \in SUBSET Defs /\ lastId \in 0..MaxDocs /\ Good(work, lastId)
    BY DEF IndexInv
  <2>3. Good([BeforeDelete(work, indexes[p], id) EXCEPT !.stale = @ \cup indexes[p]], lastId)
    BY <2>1, <2>2, HalfPutIsGood
  <2>4. owner' # NoProc
    BY <2>1
  <2> QED
    BY <2>1, <2>3, <2>4 DEF IndexInv
<1>8. ASSUME NEW p \in Procs, NEW id \in 1..lastId, Delete(p, id) PROVE IndexInv'
  <2>1. /\ id \in DOMAIN work.docs /\ Write(p, Deleted(work, indexes[p], id))
        /\ lastId' = lastId /\ owner' = owner /\ indexes' = indexes
    BY <1>8 DEF Delete
  <2>2. indexes[p] \in SUBSET Defs /\ lastId \in 0..MaxDocs /\ lastId <= lastId
        /\ Good(work, lastId) /\ Good(store, lastId) /\ indexes \in [Procs -> SUBSET Defs]
    BY DEF IndexInv
  <2>3. Good(Deleted(work, indexes[p], id), lastId)
    BY <2>1, <2>2, DeleteIsGood
  <2> QED
    BY <2>1, <2>2, <2>3, WriteIsGood
<1>9. ASSUME NEW p \in Procs, NEW def \in Defs, CreateIndex(p, def) PROVE IndexInv'
  <2>1. /\ Write(p, Indexed(work, def)) /\ indexes' = [indexes EXCEPT ![p] = @ \cup {def}]
        /\ lastId' = lastId /\ owner' = owner
    BY <1>9 DEF CreateIndex
  <2>2. /\ lastId \in 0..MaxDocs /\ lastId <= lastId /\ indexes \in [Procs -> SUBSET Defs]
        /\ Good(work, lastId) /\ Good(store, lastId)
    BY DEF IndexInv
  <2>3. Good(Indexed(work, def), lastId)
    BY <2>2, CreateIsGood
  <2>4. indexes' \in [Procs -> SUBSET Defs]
    BY <2>1, <2>2
  <2> QED
    BY <2>1, <2>2, <2>3, <2>4, WriteIsGood
<1>10. ASSUME NEW p \in Procs, NEW def \in Defs, DropIndex(p, def) PROVE IndexInv'
  <2>1. /\ Write(p, Dropped(work, def)) /\ indexes' = [indexes EXCEPT ![p] = @ \ {def}]
        /\ lastId' = lastId /\ owner' = owner
    BY <1>10 DEF DropIndex
  <2>2. /\ lastId \in 0..MaxDocs /\ lastId <= lastId /\ indexes \in [Procs -> SUBSET Defs]
        /\ Good(work, lastId) /\ Good(store, lastId)
    BY DEF IndexInv
  <2>3. Good(Dropped(work, def), lastId)
    BY <2>2, DropIsGood
  <2>4. indexes' \in [Procs -> SUBSET Defs]
    BY <2>1, <2>2
  <2> QED
    BY <2>1, <2>2, <2>3, <2>4, WriteIsGood
<1>11. ASSUME NEW p \in Procs, NEW def \in Defs, DdlCommitFails(p, def) PROVE IndexInv'
  <2>1. indexes' \in [Procs -> SUBSET Defs]
    BY <1>11 DEF DdlCommitFails, IndexInv
  <2> QED
    BY <1>11, <2>1 DEF DdlCommitFails, IndexInv
<1>12. ASSUME NEW ids \in IdLists, GetMany(ids) PROVE IndexInv'
  BY <1>12 DEF GetMany, IndexInv
<1>13. CASE Descend \/ Scan
  <2>1. UNCHANGED <<store, work, owner, indexes, lastId>>
    BY <1>13 DEF Descend, Scan
  <2> QED
    BY <2>1 DEF IndexInv
<1>14. CASE UNCHANGED vars
  BY <1>14 DEF vars, IndexInv
<1> QED
  BY <1>1, <1>2, <1>3, <1>4, <1>5, <1>6, <1>7, <1>8, <1>9, <1>10, <1>11, <1>12, <1>13, <1>14
     DEF Next

(* Whatever the processes do to documents and indexes, in blocks or not, a    *)
(* published store and an open block's have indexes that agree with their     *)
(* documents, but for the ones in stale (db.zig:648-970, index.zig:95-260).   *)
THEOREM IndexInvariant == Spec => []IndexInv
<1>1. Init => IndexInv
  BY EmptyIsGood, CollectionAssumption DEF Init, IndexInv
<1> QED
  BY <1>1, IndexStep, PTL DEF Spec

(* Entries and documents correspond, in what is published and in an open      *)
(* block, for every index no disagreeing list has written (index.zig:1-2).    *)
THEOREM IndexesExact == Spec => []IndexExact
<1>1. IndexInv => IndexExact
  <2> SUFFICES ASSUME IndexInv, NEW s \in {store, work}, NEW def \in Defs \ s.stale
               PROVE  {e \in s.entries : e[1] = def} =
                        IF def \in s.registry
                          THEN UNION {EntriesFor(def, id, s.docs[id]) : id \in DOMAIN s.docs} ELSE {}
    BY DEF IndexExact
  <2>1. ExactFor(s, DOMAIN s.docs)
    BY DEF IndexInv, Good
  <2> QED
    BY <2>1 DEF ExactFor, Own, Called
<1> QED
  BY <1>1, IndexInvariant, PTL

-----------------------------------------------------------------------------
(* get_many.                                                                *)

\* Documents by id.
Snapshots == UNION {[ids -> Docs] : ids \in SUBSET Nat}

Asked == [at : {"reading", "failed"}, ids : IdLists, cap : Nat,
          pass : 1..MaxPasses, used : Nat, grew : BOOLEAN,
          found : Seq(Seq(Nat)), moments : Seq(Snapshots)]

\* A lookup of id has found these bytes when there were documents docs.
Read(bytes, docs, id) ==
    IF id \in DOMAIN docs THEN docs[id] \in Docs /\ bytes = EncodeDoc(docs[id])
    ELSE bytes = << >>

\* What a pass has read by now.
Reading ==
    /\ Len(reader.moments) = Len(reader.found)
    /\ Len(reader.found) < Len(reader.ids)
    /\ Len(reader.ids) >= SortedScan => reader.found = << >>
    /\ \A i \in 1..Len(reader.found) :
          Read(reader.found[i], reader.moments[i], reader.ids[i])

\* After a first pass the buffer has the room that pass asked for.
ReaderInv ==
    \/ reader.at \in {"idle", "returned"}
    \/ /\ reader \in Asked
       /\ reader.cap >= MinCap
       /\ reader.pass > 1 => reader.used <= reader.cap
       /\ reader.at = "failed" => reader.grew
       /\ Reading

(* What is asked for is a list of ids.                                      *)
LEMMA ListsAre ==
  ASSUME NEW ids \in IdLists
  PROVE  /\ ids \in Seq(Nat) /\ ids # << >> /\ DOMAIN ids = 1..Len(ids)
         /\ Len(ids) \in Nat /\ Len(ids) > 0
<1>1. ids \in Seq(Nat) /\ ids # << >>
  BY CollectionAssumption
<1> QED
  BY <1>1

(* The sum of a pass' lengths is a number.                                   *)
LEMMA PassIs ==
  ASSUME NEW found \in Seq(Seq(Nat))
  PROVE  Sums(OutLens(found))[Len(OutLens(found))] \in Nat
<1> DEFINE lens == OutLens(found)
<1>1. lens \in Seq(Nat)
  BY LensType
<1> HIDE DEF lens
<1>2. Len(lens) \in 0..Len(lens)
  BY <1>1
<1>3. Sums(lens)[Len(lens)] \in Nat
  BY <1>1, <1>2, SumsType
<1> QED
  BY <1>3 DEF lens

(* There is a document or none, and its bytes are found or nothing.          *)
LEMMA LookupReads ==
  ASSUME IndexInv, NEW id \in Nat
  PROVE  /\ Existing({id}) \in Snapshots
         /\ id \in DOMAIN Existing({id}) <=> id \in DOMAIN store.docs
         /\ id \in DOMAIN store.docs =>
               store.docs[id] \in Seq(Nat) /\ store.docs[id] # << >> /\ Lookup(id) = store.docs[id]
         /\ Lookup(id) \in Seq(Nat)
         /\ Read(Lookup(id), Existing({id}), id)
<1> DEFINE docs == Existing({id})
<1>1. /\ DOMAIN store.was = DOMAIN store.docs
      /\ \A i \in DOMAIN store.docs : store.was[i] \in Docs /\ store.docs[i] = EncodeDoc(store.was[i])
  BY DEF IndexInv, Good, Sound
<1>2. /\ docs = [i \in {id} \cap DOMAIN store.was |-> store.was[i]]
      /\ DOMAIN docs = {id} \cap DOMAIN store.docs
  BY <1>1 DEF Existing
<1>3. docs \in [DOMAIN docs -> Docs] /\ DOMAIN docs \in SUBSET Nat
  BY <1>1, <1>2
<1>4. docs \in Snapshots
  BY <1>3 DEF Snapshots
<1>5. \A d \in Docs : EncodeDoc(d) \in Seq(Nat) /\ EncodeDoc(d) # << >>
  BY DocsAssumption
<1>6. id \in DOMAIN docs <=> id \in DOMAIN store.docs
  BY <1>2
<1>7. id \in DOMAIN store.docs => docs[id] = store.was[id]
  BY <1>1, <1>2
<1> HIDE DEF docs
<1>8. Read(Lookup(id), docs, id)
  BY <1>1, <1>6, <1>7 DEF Read, Lookup
<1>9. Lookup(id) \in Seq(Nat)
  BY <1>1, <1>5 DEF Lookup
<1>10. id \in DOMAIN store.docs =>
         store.docs[id] \in Seq(Nat) /\ store.docs[id] # << >> /\ Lookup(id) = store.docs[id]
  BY <1>1, <1>5 DEF Lookup
<1> QED
  BY <1>4, <1>6, <1>8, <1>9, <1>10 DEF docs

(* A pass that does not fit. *)
LEMMA PassGrows ==
  ASSUME reader \in Asked, reader.at = "reading", ReaderInv, NEW used \in Nat, ~(used <= reader.cap),
         reader' = [reader EXCEPT !.at = IF reader.pass = MaxPasses THEN "failed" ELSE "reading",
                                  !.cap = NextCap(@, used),
                                  !.pass = IF reader.pass = MaxPasses THEN @ ELSE @ + 1,
                                  !.used = used,
                                  !.grew = @ \/ (reader.pass > 1 /\ used > reader.used),
                                  !.found = << >>, !.moments = << >>]
  PROVE  ReaderInv'
<1>1. MaxPasses \in Nat /\ MaxPasses > 1 /\ MinCap \in Nat
  BY CollectionAssumption
<1>2. /\ reader.cap \in Nat /\ reader.pass \in 1..MaxPasses /\ reader.used \in Nat
      /\ reader.grew \in BOOLEAN /\ reader.ids \in IdLists
      /\ reader.cap >= MinCap /\ (reader.pass > 1 => reader.used <= reader.cap)
  BY DEF Asked, ReaderInv
<1> DEFINE cap == NextCap(reader.cap, used)
           pass == IF reader.pass = MaxPasses THEN reader.pass ELSE reader.pass + 1
           at == IF reader.pass = MaxPasses THEN "failed" ELSE "reading"
           grew == reader.grew \/ (reader.pass > 1 /\ used > reader.used)
<1>3. cap \in Nat /\ used <= cap /\ reader.cap <= cap
  BY <1>2 DEF NextCap, Largest
<1>4. pass \in 1..MaxPasses
  BY <1>1, <1>2
<1>5. at = "failed" => grew
  <2> SUFFICES ASSUME reader.pass = MaxPasses PROVE grew
    OBVIOUS
  <2>1. reader.pass > 1 /\ reader.used <= reader.cap
    BY <1>1, <1>2
  <2>2. used > reader.used
    BY <1>2, <2>1
  <2> QED
    BY <2>1, <2>2
<1>6. /\ reader'.at = at /\ reader'.cap = cap /\ reader'.pass = pass /\ reader'.used = used
      /\ reader'.grew = grew /\ reader'.ids = reader.ids
      /\ reader' = [at |-> at, ids |-> reader.ids, cap |-> cap, pass |-> pass,
                    used |-> used, grew |-> grew, found |-> << >>, moments |-> << >>]
      /\ reader'.found = << >> /\ reader'.moments = << >>
  BY DEF Asked
<1>7. at \in {"reading", "failed"} /\ grew \in BOOLEAN
  BY <1>2
<1>8. cap >= MinCap
  BY <1>1, <1>2, <1>3
<1> HIDE DEF at, cap, pass, grew
<1>9. reader' \in Asked
  <2>1. << >> \in Seq(Seq(Nat)) /\ << >> \in Seq(Snapshots)
    OBVIOUS
  <2> QED
    BY ZenonT(40), <1>2, <1>3, <1>4, <1>6, <1>7, <2>1 DEF Asked
<1>10. Reading'
  <2>1. Len(reader'.ids) > 0
    BY <1>2, <1>6, ListsAre
  <2>2. Len(reader'.found) = 0 /\ Len(reader'.moments) = 0
    BY <1>6
  <2> QED
    BY <1>6, <2>1, <2>2 DEF Reading
<1> QED
  BY <1>3, <1>5, <1>6, <1>8, <1>9, <1>10 DEF ReaderInv

(* The end of a pass: the dict of what it has found, or not enough room.      *)
LEMMA PassEnds ==
  ASSUME reader \in Asked, reader.at = "reading", ReaderInv,
         NEW found \in Seq(Seq(Nat)), PassDone(found)
  PROVE  /\ ReaderInv'
         /\ reader'.at = "returned" =>
               reader'.result = Answer(reader.ids, found)
<1> DEFINE used == Sums(OutLens(found))[Len(OutLens(found))]
           result == Answer(reader.ids, found)
           again == [reader EXCEPT !.at = IF reader.pass = MaxPasses THEN "failed" ELSE "reading",
                                   !.cap = NextCap(@, used),
                                   !.pass = IF reader.pass = MaxPasses THEN @ ELSE @ + 1,
                                   !.used = used,
                                   !.grew = @ \/ (reader.pass > 1 /\ used > reader.used),
                                   !.found = << >>, !.moments = << >>]
<1>1. reader' = IF used <= reader.cap
                  THEN [at |-> "returned", ids |-> reader.ids, result |-> result]
                ELSE again
  BY DEF PassDone, Answer
<1>2. used \in Nat
  BY PassIs
<1>3. again.at \in {"failed", "reading"}
  BY DEF Asked
<1> HIDE DEF used, result
<1>4. CASE used <= reader.cap
  <2>1. reader'.at = "returned" /\ reader'.result = result
    BY <1>1, <1>4
  <2> QED
    BY <2>1 DEF ReaderInv, result
<1>5. CASE ~(used <= reader.cap)
  <2>1. ReaderInv'
    BY ZenonT(40), <1>1, <1>2, <1>5, PassGrows
  <2> HIDE DEF again
  <2>2. reader'.at # "returned"
    BY <1>1, <1>3, <1>5
  <2> QED
    BY <2>1, <2>2
<1> QED
  BY <1>4, <1>5

(* A lookup adds what it has found.                                          *)
LEMMA DescendReads ==
  ASSUME IndexInv, ReaderInv, reader.at = "reading"
  PROVE  /\ NextId \in Nat /\ reader \in Asked /\ Reading
         /\ NextFound \in Seq(Seq(Nat))
         /\ Len(NextFound) = Len(reader.found) + 1 /\ Len(NextFound) <= Len(reader.ids)
         /\ \A i \in 1..Len(reader.found) : NextFound[i] = reader.found[i]
         /\ NextFound[Len(reader.found) + 1] = Lookup(NextId)
<1>1. reader \in Asked /\ Reading
  BY DEF ReaderInv
<1>2. /\ reader.ids \in IdLists /\ reader.found \in Seq(Seq(Nat))
      /\ Len(reader.found) < Len(reader.ids)
  BY <1>1 DEF Asked, Reading
<1>3. reader.ids \in Seq(Nat) /\ Len(reader.found) + 1 \in 1..Len(reader.ids)
  <2>1. reader.ids \in Seq(Nat) /\ Len(reader.ids) \in Nat
    BY <1>2, ListsAre
  <2>2. Len(reader.found) \in Nat
    BY <1>2
  <2> QED
    BY <1>2, <2>1, <2>2
<1>4. NextId \in Nat
  BY <1>3 DEF NextId
<1>5. Lookup(NextId) \in Seq(Nat)
  BY <1>4, LookupReads
<1>6. /\ NextFound \in Seq(Seq(Nat)) /\ Len(NextFound) = Len(reader.found) + 1
      /\ \A i \in 1..Len(reader.found) : NextFound[i] = reader.found[i]
      /\ NextFound[Len(reader.found) + 1] = Lookup(NextId)
  BY <1>2, <1>5 DEF NextFound
<1> QED
  BY <1>1, <1>3, <1>4, <1>6

(* A scan finds bytes for the positions it has found, nothing for the others. *)
LEMMA ScanReads ==
  ASSUME IndexInv, NEW ids \in IdLists, NEW hits \in Hits(ids),
         NEW found, found = [i \in DOMAIN ids |-> IF i \in hits THEN store.docs[ids[i]] ELSE << >>]
  PROVE  /\ found \in Seq(Seq(Nat)) /\ Len(found) = Len(ids)
         /\ \A i \in DOMAIN ids :
               /\ found[i] # << >> <=> i \in hits
               /\ i \in hits => ids[i] \in DOMAIN store.docs /\ found[i] = store.docs[ids[i]]
<1>1. ids \in Seq(Nat) /\ DOMAIN ids = 1..Len(ids) /\ Len(ids) \in Nat
  BY ListsAre
<1>2. \A i \in hits : i \in DOMAIN ids /\ ids[i] \in DOMAIN store.docs
  BY <1>1, HitsCover
<1>3. \A i \in DOMAIN ids : found[i] = IF i \in hits THEN store.docs[ids[i]] ELSE << >>
  OBVIOUS
<1>4. \A i \in hits : store.docs[ids[i]] \in Seq(Nat) /\ store.docs[ids[i]] # << >>
  <2> SUFFICES ASSUME NEW i \in hits
               PROVE  store.docs[ids[i]] \in Seq(Nat) /\ store.docs[ids[i]] # << >>
    OBVIOUS
  <2>1. ids[i] \in Nat /\ ids[i] \in DOMAIN store.docs
    BY <1>1, <1>2
  <2> QED
    BY <2>1, LookupReads
<1>5. \A i \in DOMAIN ids : found[i] \in Seq(Nat) /\ (found[i] # << >> <=> i \in hits)
  BY <1>3, <1>4
<1>6. found \in [1..Len(ids) -> Seq(Nat)]
  BY <1>1, <1>5
<1>7. found \in Seq(Seq(Nat)) /\ Len(found) = Len(ids)
  BY <1>1, <1>6
<1> QED
  BY <1>2, <1>3, <1>5, <1>7

(* A lookup before the last one of a pass.                                   *)
LEMMA LookupKeeps ==
  ASSUME IndexInv, ReaderInv, reader.at = "reading", Len(reader.ids) < SortedScan,
         Len(NextFound) # Len(reader.ids),
         reader' = [reader EXCEPT !.found = NextFound, !.moments = Append(@, Existing({NextId}))]
  PROVE  ReaderInv' /\ reader'.at = "reading"
<1>1. /\ NextId \in Nat /\ reader \in Asked /\ Reading
      /\ NextFound \in Seq(Seq(Nat))
      /\ Len(NextFound) = Len(reader.found) + 1 /\ Len(NextFound) <= Len(reader.ids)
      /\ \A i \in 1..Len(reader.found) : NextFound[i] = reader.found[i]
      /\ NextFound[Len(reader.found) + 1] = Lookup(NextId)
  BY DescendReads
<1> DEFINE docs == Existing({NextId})
           moments == Append(reader.moments, docs)
<1>2. docs \in Snapshots /\ Read(NextFound[Len(reader.found) + 1], docs, NextId)
  BY <1>1, LookupReads
<1> HIDE DEF docs
<1>3. /\ reader.moments \in Seq(Snapshots) /\ reader.ids \in IdLists
      /\ reader.found \in Seq(Seq(Nat)) /\ Len(reader.found) \in Nat
      /\ Len(reader.moments) = Len(reader.found)
  BY <1>1 DEF Asked, Reading
<1>4. /\ moments \in Seq(Snapshots) /\ Len(moments) = Len(NextFound)
      /\ \A i \in 1..Len(reader.found) : moments[i] = reader.moments[i]
      /\ moments[Len(reader.found) + 1] = docs
  BY SMTT(30), <1>1, <1>2, <1>3
<1>5. reader' = [reader EXCEPT !.found = NextFound, !.moments = moments]
  BY DEF moments, docs
<1> HIDE DEF moments
<1>6. reader' \in Asked
  BY <1>1, <1>4, <1>5 DEF Asked
<1>7. /\ reader'.found = NextFound /\ reader'.moments = moments /\ reader'.ids = reader.ids
      /\ reader'.at = reader.at /\ reader'.cap = reader.cap /\ reader'.pass = reader.pass
      /\ reader'.used = reader.used /\ reader'.grew = reader.grew
  BY <1>1, <1>5 DEF Asked
<1>8. Reading'
  <2>1. Len(NextFound) < Len(reader.ids)
    <3>1. Len(reader.ids) \in Nat
      BY <1>3, ListsAre
    <3> QED
      BY <1>1, <1>3, <3>1
  <2>2. ~(Len(reader.ids) >= SortedScan)
    <3>1. Len(reader.ids) \in Nat /\ SortedScan \in Nat
      BY <1>3, ListsAre, CollectionAssumption
    <3> QED
      BY <3>1
  <2>3. ASSUME NEW i \in 1..Len(NextFound) PROVE Read(NextFound[i], moments[i], reader.ids[i])
    <3>1. CASE i \in 1..Len(reader.found)
      <4>1. NextFound[i] = reader.found[i] /\ moments[i] = reader.moments[i]
        BY <1>1, <1>4, <3>1
      <4>2. Read(reader.found[i], reader.moments[i], reader.ids[i])
        BY <1>1, <3>1 DEF Reading
      <4> QED
        BY <4>1, <4>2
    <3>2. CASE i = Len(reader.found) + 1
      <4>1. moments[i] = docs /\ reader.ids[i] = NextId
        BY <1>4, <3>2 DEF NextId
      <4> QED
        BY <1>2, <3>2, <4>1
    <3>3. i \in 1..Len(reader.found) \/ i = Len(reader.found) + 1
      <4>1. Len(NextFound) = Len(reader.found) + 1 /\ Len(reader.found) \in Nat
        BY <1>1, <1>3
      <4> QED
        BY <4>1
    <3> QED
      BY <3>1, <3>2, <3>3
  <2> QED
    BY <1>4, <1>7, <2>1, <2>2, <2>3 DEF Reading
<1> QED
  BY <1>6, <1>7, <1>8 DEF ReaderInv


(* Only get_many's steps touch the reader. *)
LEMMA ReaderStep == IndexInv /\ ReaderInv /\ [Next]_vars => ReaderInv'
<1> SUFFICES ASSUME IndexInv, ReaderInv, [Next]_vars PROVE ReaderInv'
  OBVIOUS
<1>1. ASSUME NEW ids \in IdLists, GetMany(ids) PROVE ReaderInv'
  <2> DEFINE cap == Largest(Len(ids) * PerDoc, MinCap)
  <2>1. /\ Len(ids) \in Nat /\ PerDoc \in Nat /\ MinCap \in Nat
        /\ MaxPasses \in Nat /\ MaxPasses > 1
    BY CollectionAssumption
  <2>2. Len(ids) * PerDoc \in Nat
    BY <2>1
  <2>3. cap \in Nat /\ cap >= MinCap
    BY <2>1, <2>2 DEF Largest
  <2>4. reader' = [at |-> "reading", ids |-> ids, cap |-> cap, pass |-> 1, used |-> 0, grew |-> FALSE,
                   found |-> << >>, moments |-> << >>]
    BY <1>1 DEF GetMany
  <2> HIDE DEF cap
  <2>5. 1 \in 1..MaxPasses
    BY <2>1
  <2>6. reader' \in Asked
    <3>1. << >> \in Seq(Seq(Nat)) /\ << >> \in Seq(Snapshots)
      OBVIOUS
    <3> QED
      BY <2>3, <2>4, <2>5, <3>1 DEF Asked
  <2>7. reader'.cap = cap /\ reader'.pass = 1 /\ reader'.at = "reading"
    BY <2>4
  <2>8. Reading'
    <3>1. /\ reader'.ids = ids /\ reader'.found = << >> /\ Len(reader'.found) = 0
          /\ Len(reader'.moments) = 0
      BY <2>4
    <3>2. Len(ids) > 0
      BY ListsAre
    <3> QED
      BY <3>1, <3>2 DEF Reading
  <2> QED
    BY <2>3, <2>6, <2>7, <2>8 DEF ReaderInv
<1>2. CASE Descend
  <2>1. /\ reader.at = "reading" /\ Len(reader.ids) < SortedScan
        /\ IF Len(NextFound) = Len(reader.ids) THEN PassDone(NextFound)
           ELSE reader' = [reader EXCEPT !.found = NextFound,
                                         !.moments = Append(@, Existing({NextId}))]
    BY <1>2 DEF Descend
  <2>2. reader \in Asked /\ NextFound \in Seq(Seq(Nat))
    BY <2>1, DescendReads
  <2>3. CASE Len(NextFound) = Len(reader.ids)
    BY <2>1, <2>2, <2>3, PassEnds
  <2>4. CASE Len(NextFound) # Len(reader.ids)
    BY <2>1, <2>4, LookupKeeps
  <2> QED
    BY <2>3, <2>4
<1>5. CASE Scan
  <2>1. reader.at = "reading"
    BY <1>5 DEF Scan
  <2>2. reader \in Asked /\ reader.ids \in IdLists
    BY <2>1 DEF ReaderInv, Asked
  <2>3. PICK hits \in Hits(reader.ids) :
          PassDone([i \in DOMAIN reader.ids |->
                      IF i \in hits THEN store.docs[reader.ids[i]] ELSE << >>])
    BY <1>5 DEF Scan
  <2> DEFINE found == [i \in DOMAIN reader.ids |->
                         IF i \in hits THEN store.docs[reader.ids[i]] ELSE << >>]
  <2>4. found \in Seq(Seq(Nat)) /\ PassDone(found)
    BY <2>2, <2>3, ScanReads
  <2> HIDE DEF found
  <2> QED
    BY <2>1, <2>2, <2>4, PassEnds
<1>3. CASE UNCHANGED reader
  BY <1>3 DEF ReaderInv, Reading
<1>4. \/ \E ids \in IdLists : GetMany(ids)
      \/ Descend \/ Scan
      \/ UNCHANGED reader
  BY DEF Next, vars, Begin, Commit, Abort, Reopen, Insert, Put, PutTooLarge, Delete,
         CreateIndex, DropIndex, DdlCommitFails
<1> QED
  BY <1>1, <1>2, <1>3, <1>4, <1>5

(* The reader's part of the invariant holds in every state. *)
THEOREM ReaderInvariant == Spec => []ReaderInv
<1>1. Init => ReaderInv
  BY DEF Init, ReaderInv, Idle
<1> QED
  BY <1>1, ReaderStep, IndexInvariant, PTL DEF Spec

(* Type correctness for any documents, formats, indexes, processes, bounds. *)
THEOREM TypeCorrect == Spec => []TypeOK
<1>1. IndexInv /\ ReaderInv => TypeOK
  <2> SUFFICES ASSUME IndexInv, ReaderInv PROVE TypeOK
    OBVIOUS
  <2>1. ASSUME NEW s, Good(s, lastId) PROVE StoreOK(s)
    <3>1. DOMAIN s.docs \subseteq Ids
      BY <2>1, CollectionAssumption DEF Good, Sound, IndexInv, Ids
    <3>2. ASSUME NEW id \in DOMAIN s.docs
          PROVE  s.docs[id] \in {EncodeDoc(d) : d \in Docs} /\ Len(s.docs[id]) <= MaxValue
      <4>1. s.was[id] \in Docs /\ s.docs[id] = EncodeDoc(s.was[id]) /\ Fits(s.was[id])
        BY <2>1 DEF Good, Sound
      <4> QED
        BY <4>1 DEF Fits
    <3> QED
      BY <2>1, <3>1, <3>2 DEF StoreOK, Good, Sound
  <2>2. StoreOK(store) /\ StoreOK(work)
    BY <2>1 DEF IndexInv
  <2>3. /\ reader.at \in {"idle", "reading", "returned", "failed"}
        /\ reader.at = "reading" => reader.pass \in 1..MaxPasses /\ reader.cap >= MinCap
    BY DEF ReaderInv, Asked
  <2> QED
    BY <2>2, <2>3 DEF IndexInv, TypeOK
<1> QED
  BY <1>1, IndexInvariant, ReaderInvariant, PTL

(* get_many gives up after its last pass only if the documents have grown     *)
(* since an earlier one told it the size (__init__.py:448-483).               *)
THEOREM GivesUpOnGrowth == Spec => []GetManyConverges
<1>1. ReaderInv => GetManyConverges
  BY DEF ReaderInv, GetManyConverges
<1> QED
  BY <1>1, ReaderInvariant, PTL

(* The dict that get_many returns answers for each id as the last pass found   *)
(* it or missed it, few ids by lookups of their own with other processes'      *)
(* commits between them (db.zig:808-850), many by one scan (db.zig:855-940).   *)
THEOREM AnswersEachLookup == Spec => GetManyAnswers
<1> DEFINE Answers ==
      /\ DOMAIN reader'.result \subseteq Range(reader.ids)
      /\ \A id \in Range(reader.ids) : \E i \in DOMAIN reader.ids :
            /\ reader.ids[i] = id
            /\ id \in DOMAIN reader'.result <=> id \in DOMAIN MomentOf(i)
            /\ id \in DOMAIN reader'.result => reader'.result[id] = MomentOf(i)[id]
<1>1. IndexInv /\ ReaderInv /\ [Next]_vars
        => (reader.at = "reading" /\ reader'.at = "returned" => Answers)
  <2> SUFFICES ASSUME IndexInv, ReaderInv, [Next]_vars,
                      reader.at = "reading", reader'.at = "returned"
               PROVE  Answers
    OBVIOUS
  <2>1. Descend \/ Scan
    <3>1. reader' # reader
      OBVIOUS
    <3>2. ASSUME NEW ids \in IdLists, GetMany(ids) PROVE FALSE
      BY <3>2 DEF GetMany
    <3> QED
      BY <3>1, <3>2 DEF Next, vars, Begin, Commit, Abort, Reopen, Insert, Put, PutTooLarge, Delete,
         CreateIndex, DropIndex, DdlCommitFails
  <2>2. reader \in Asked /\ reader.ids \in IdLists /\ Reading
    BY DEF ReaderInv, Asked
  <2>3. /\ reader.ids \in Seq(Nat) /\ reader.ids # << >> /\ DOMAIN reader.ids = 1..Len(reader.ids)
        /\ Len(reader.ids) \in Nat
    BY <2>2, ListsAre
  <2> DEFINE moments == [i \in DOMAIN reader.ids |-> MomentOf(i)]
  <2>4. ASSUME NEW found \in Seq(Seq(Nat)), Len(found) = Len(reader.ids), PassDone(found),
               Witnessed(reader.ids, found, moments)
        PROVE  Answers
    <3>1. reader'.result = Answer(reader.ids, found)
      BY <2>2, <2>4, PassEnds
    <3>2. \A i \in DOMAIN reader.ids : moments[i] = MomentOf(i)
      OBVIOUS
    <3> HIDE DEF moments
    <3>3. AnswersAs(reader'.result, reader.ids, moments)
      BY <2>3, <2>4, <3>1, UnpackAnswers
    <3> QED
      BY <3>2, <3>3 DEF AnswersAs
  <2>5. CASE Descend
    <3>1. /\ Len(reader.ids) < SortedScan
          /\ IF Len(NextFound) = Len(reader.ids) THEN PassDone(NextFound)
             ELSE reader' = [reader EXCEPT !.found = NextFound,
                                           !.moments = Append(@, Existing({NextId}))]
      BY <2>5 DEF Descend
    <3>2. Len(NextFound) = Len(reader.ids) /\ PassDone(NextFound)
      <4>1. CASE Len(NextFound) # Len(reader.ids)
        BY <3>1, <4>1, LookupKeeps
      <4> QED
        BY <3>1, <4>1
    <3>3. /\ NextId \in Nat /\ NextFound \in Seq(Seq(Nat)) /\ Len(NextFound) = Len(reader.found) + 1
          /\ \A i \in 1..Len(reader.found) : NextFound[i] = reader.found[i]
          /\ NextFound[Len(reader.found) + 1] = Lookup(NextId)
      BY DescendReads
    <3>4. Read(Lookup(NextId), Existing({NextId}), NextId)
      BY <3>3, LookupReads
    <3>5. DOMAIN reader.moments = 1..Len(reader.found) /\ Len(reader.found) \in Nat
      BY <2>2 DEF Asked, Reading
    <3>6. NextId = reader.ids[Len(reader.found) + 1]
      BY DEF NextId
    <3>7. ASSUME NEW i \in DOMAIN reader.ids PROVE Read(NextFound[i], MomentOf(i), reader.ids[i])
      <4>1. CASE i \in 1..Len(reader.found)
        <5>1. MomentOf(i) = reader.moments[i]
          BY <3>5, <4>1 DEF MomentOf
        <5> QED
          BY <2>2, <3>3, <4>1, <5>1 DEF Reading
      <4>2. CASE i = Len(reader.found) + 1
        <5>1. MomentOf(i) = Existing({NextId})
          BY <3>5, <3>6, <4>2 DEF MomentOf
        <5> QED
          BY <3>3, <3>4, <3>6, <4>2, <5>1
      <4> QED
        BY <2>3, <3>2, <3>3, <3>5, <4>1, <4>2
    <3>8. \A d \in Docs : EncodeDoc(d) # << >>
      BY DocsAssumption
    <3>9. \A i \in DOMAIN reader.ids : Read(NextFound[i], moments[i], reader.ids[i])
      BY <3>7
    <3> HIDE DEF moments
    <3>10. Witnessed(reader.ids, NextFound, moments)
      BY <3>8, <3>9 DEF Witnessed, Read
    <3> QED
      BY <2>4, <3>2, <3>3, <3>10
  <2>6. CASE Scan
    <3>1. PICK hits \in Hits(reader.ids) :
            PassDone([i \in DOMAIN reader.ids |->
                        IF i \in hits THEN store.docs[reader.ids[i]] ELSE << >>])
      BY <2>6 DEF Scan
    <3> DEFINE found == [i \in DOMAIN reader.ids |->
                           IF i \in hits THEN store.docs[reader.ids[i]] ELSE << >>]
    <3>2. /\ found \in Seq(Seq(Nat)) /\ Len(found) = Len(reader.ids)
          /\ \A i \in DOMAIN reader.ids :
                /\ found[i] # << >> <=> i \in hits
                /\ i \in hits => /\ reader.ids[i] \in DOMAIN store.docs
                                 /\ found[i] = store.docs[reader.ids[i]]
      BY <2>2, ScanReads
    <3>3. PassDone(found)
      BY <3>1
    <3> HIDE DEF found
    <3>4. Len(reader.ids) >= SortedScan
      BY <2>6 DEF Scan
    <3>5. \A i \in DOMAIN reader.ids : MomentOf(i) = Existing({reader.ids[i]})
      <4>1. reader.moments \in Seq(Snapshots) /\ Len(reader.moments) = 0
        BY <2>2, <3>4 DEF Asked, Reading
      <4>2. DOMAIN reader.moments = {}
        BY <4>1
      <4> QED
        BY <4>2 DEF MomentOf
    <3>6. ASSUME NEW i \in DOMAIN reader.ids
          PROVE  /\ reader.ids[i] \in DOMAIN moments[i] <=> reader.ids[i] \in DOMAIN store.docs
                 /\ found[i] # << >> =>
                      /\ reader.ids[i] \in DOMAIN moments[i] /\ moments[i][reader.ids[i]] \in Docs
                      /\ found[i] = EncodeDoc(moments[i][reader.ids[i]])
      <4>1. moments[i] = Existing({reader.ids[i]})
        BY <3>5
      <4>2. reader.ids[i] \in Nat
        BY <2>3
      <4> DEFINE n == reader.ids[i]
      <4>3. /\ n \in DOMAIN Existing({n}) <=> n \in DOMAIN store.docs
            /\ n \in DOMAIN store.docs => Lookup(n) = store.docs[n]
            /\ Read(Lookup(n), Existing({n}), n)
        BY <4>2, LookupReads
      <4> HIDE DEF moments
      <4>4. found[i] # << >> => n \in DOMAIN store.docs /\ found[i] = Lookup(n)
        BY <3>2, <4>3
      <4> HIDE DEF n
      <4>5. found[i] # << >> => Existing({n})[n] \in Docs /\ found[i] = EncodeDoc(Existing({n})[n])
        BY <4>3, <4>4 DEF Read
      <4> QED
        BY <4>1, <4>3, <4>4, <4>5 DEF n
    <3> HIDE DEF moments
    <3>7. ASSUME NEW i \in DOMAIN reader.ids, reader.ids[i] \in DOMAIN moments[i]
          PROVE  \E j \in DOMAIN reader.ids : reader.ids[j] = reader.ids[i] /\ found[j] # << >>
      <4>1. reader.ids[i] \in DOMAIN store.docs
        BY <3>6, <3>7
      <4>2. PICK j \in hits : reader.ids[j] = reader.ids[i]
        BY <2>3, <4>1, HitsCover
      <4>3. j \in DOMAIN reader.ids
        BY <2>3, HitsCover
      <4> QED
        BY <3>2, <4>2, <4>3
    <3>8. Witnessed(reader.ids, found, moments)
      BY <3>6, <3>7 DEF Witnessed
    <3> QED
      BY <2>4, <3>2, <3>3, <3>8
  <2> QED
    BY <2>1, <2>5, <2>6
<1> QED
  BY <1>1, IndexInvariant, ReaderInvariant, PTL DEF GetManyAnswers, Spec

-----------------------------------------------------------------------------
(* Numbers in bytes.                                                        *)

(* The powers of ByteBase. *)
LEMMA PowerIs ==
  /\ Power[0] = 1
  /\ \A n \in Nat : Power[n] \in Nat \ {0} /\ Power[n+1] = ByteBase * Power[n]
<1> DEFINE Solves(g, n) == g \in [0..n -> Nat \ {0}] /\ g[0] = 1 /\ \A i \in 1..n : g[i] = ByteBase * g[i-1]
           S == {n \in Nat : \E g : Solves(g, n)}
           Same == {n \in Nat : \A g, h, l, m : Solves(g, l) /\ Solves(h, m) /\ l \in Nat /\ m \in Nat
                                                  /\ n <= l /\ n <= m => g[n] = h[n]}
           Step(g) == [n \in Nat |-> IF n = 0 THEN 1 ELSE ByteBase * g[n-1]]
<1>0. ByteBase \in Nat \ {0}
  BY ValuesAssumption
<1>1. 0 \in S
  <2>1. Solves([i \in 0..0 |-> 1], 0)
    OBVIOUS
  <2> HIDE DEF Solves
  <2> QED
    BY <2>1
<1>2. ASSUME NEW n \in S PROVE n + 1 \in S
  <2>1. PICK g : Solves(g, n)
    OBVIOUS
  <2> DEFINE h == [i \in 0..n+1 |-> IF i <= n THEN g[i] ELSE ByteBase * g[n]]
  <2>2. g[n] \in Nat \ {0} /\ ByteBase * g[n] \in Nat \ {0}
    <3>1. g[n] \in Nat \ {0}
      BY <2>1
    <3>2. \A a, b \in Nat \ {0} : a * b \in Nat \ {0}
      OBVIOUS
    <3> QED
      BY <1>0, <3>1, <3>2
  <2>3. h \in [0..n+1 -> Nat \ {0}] /\ h[0] = 1
    BY <2>1, <2>2
  <2>4. ASSUME NEW i \in 1..n+1 PROVE h[i] = ByteBase * h[i-1]
    <3>1. i - 1 \in 0..n+1 /\ i - 1 <= n /\ i \in 0..n+1
      BY <2>4
    <3>2. h[i-1] = g[i-1]
      BY <3>1
    <3>3. CASE i <= n
      <4>1. h[i] = g[i] /\ i \in 1..n
        BY <3>1, <3>3
      <4>2. g[i] = ByteBase * g[i-1]
        BY <2>1, <4>1
      <4> QED
        BY <3>2, <4>1, <4>2
    <3>4. CASE ~(i <= n)
      <4>1. i - 1 = n
        BY <3>1, <3>4
      <4>2. h[i] = ByteBase * g[n]
        BY <3>1, <3>4
      <4> QED
        BY <3>2, <4>1, <4>2
    <3> QED
      BY <3>3, <3>4
  <2>5. Solves(h, n + 1)
    <3> HIDE DEF h
    <3> QED
      BY <2>3, <2>4
  <2> HIDE DEF Solves, h
  <2> QED
    BY <2>5
<1>3. S = Nat
  <2>1. S \in SUBSET Nat
    OBVIOUS
  <2> HIDE DEF S
  <2> QED
    BY <1>1, <1>2, <2>1, Induction
<1>4. 0 \in Same
  OBVIOUS
<1>5. ASSUME NEW n \in Same PROVE n + 1 \in Same
  <2> SUFFICES ASSUME NEW g, NEW h, NEW l \in Nat, NEW m \in Nat, Solves(g, l), Solves(h, m), n + 1 <= l, n + 1 <= m
               PROVE  g[n+1] = h[n+1]
    <3> HIDE DEF Solves
    <3> QED
      OBVIOUS
  <2>1. n <= l /\ n <= m /\ n + 1 \in 1..l /\ n + 1 \in 1..m /\ (n + 1) - 1 = n
    OBVIOUS
  <2>2. g[n] = h[n]
    <3> HIDE DEF Solves
    <3> QED
      BY <2>1
  <2>3. g[n+1] = ByteBase * g[n] /\ h[n+1] = ByteBase * h[n]
    BY <2>1
  <2> QED
    BY <2>2, <2>3
<1>6. Same = Nat
  <2>1. Same \in SUBSET Nat
    OBVIOUS
  <2> HIDE DEF Same
  <2> QED
    BY <1>4, <1>5, <2>1, Induction
<1> DEFINE p == [n \in Nat |-> (CHOOSE g : Solves(g, n))[n]]
           Sol(n) == CHOOSE g : Solves(g, n)
<1>7. \A n \in Nat : Solves(Sol(n), n) /\ p[n] = Sol(n)[n]
  <2> HIDE DEF Solves
  <2> QED
    BY <1>3
<1> HIDE DEF p, Sol
<1>8. p[0] = 1
  BY <1>7
<1>9. ASSUME NEW n \in Nat PROVE p[n] \in Nat \ {0} /\ p[n+1] = ByteBase * p[n]
  <2>1. Solves(Sol(n), n) /\ p[n] = Sol(n)[n]
    BY <1>7
  <2>2. n + 1 \in Nat /\ Solves(Sol(n+1), n+1) /\ p[n+1] = Sol(n+1)[n+1]
    BY <1>7
  <2>3. Sol(n)[n] = Sol(n+1)[n]
    <3>1. n \in Same /\ n <= n /\ n <= n + 1
      <4> HIDE DEF Same
      <4> QED
        BY <1>6
    <3> HIDE DEF Solves
    <3> QED
      BY <2>1, <2>2, <3>1
  <2>4. Sol(n+1)[n+1] = ByteBase * Sol(n+1)[n]
    <3>1. n + 1 \in 1..n+1 /\ (n + 1) - 1 = n
      OBVIOUS
    <3> QED
      BY <2>2, <3>1
  <2>5. Sol(n)[n] \in Nat \ {0}
    BY <2>1
  <2> QED
    BY <2>1, <2>2, <2>3, <2>4, <2>5
<1>10. p = Step(p)
  <2>1. ASSUME NEW n \in Nat PROVE p[n] = IF n = 0 THEN 1 ELSE ByteBase * p[n-1]
    <3>1. CASE n = 0
      BY <1>8, <3>1
    <3>2. CASE n # 0
      <4>1. n - 1 \in Nat /\ (n - 1) + 1 = n
        BY <3>2
      <4>2. p[(n-1)+1] = ByteBase * p[n-1]
        BY <1>9, <4>1
      <4> QED
        BY <3>2, <4>1, <4>2
    <3> QED
      BY <3>1, <3>2
  <2>2. p = [n \in Nat |-> p[n]]
    BY DEF p
  <2> QED
    BY <2>1, <2>2
<1>11. Power = CHOOSE g : g = Step(g)
  BY DEF Power
<1>12. Power = Step(Power)
  <2> HIDE DEF Step
  <2> QED
    BY <1>10, <1>11
<1>13. Power[0] = 1 /\ \A n \in Nat : Power[n+1] = ByteBase * Power[n]
  <2>1. \A n \in Nat : Power[n] = IF n = 0 THEN 1 ELSE ByteBase * Power[n-1]
    BY <1>12
  <2>2. \A n \in Nat : n + 1 \in Nat /\ n + 1 # 0 /\ (n + 1) - 1 = n
    OBVIOUS
  <2> QED
    BY <2>1, <2>2
<1> DEFINE P == {n \in Nat : Power[n] \in Nat \ {0}}
<1>14. 0 \in P
  BY <1>13
<1>15. ASSUME NEW n \in P PROVE n + 1 \in P
  <2>1. \A a, b \in Nat \ {0} : a * b \in Nat \ {0}
    OBVIOUS
  <2> QED
    BY <1>0, <1>13, <2>1
<1>16. P = Nat
  <2>1. P \in SUBSET Nat
    OBVIOUS
  <2> HIDE DEF P
  <2> QED
    BY <1>14, <1>15, <2>1, Induction
<1> QED
  BY <1>13, <1>16

(* A quotient and a remainder are those of the division. *)
LEMMA Division ==
  ASSUME NEW b \in Nat \ {0}, NEW n \in Int, NEW q \in Int, NEW r \in 0..b-1, n = b * q + r
  PROVE  n \div b = q /\ n % b = r
OBVIOUS

(* Every number has them. *)
LEMMA Divided ==
  ASSUME NEW b \in Nat \ {0}, NEW n \in Nat
  PROVE  n = b * (n \div b) + (n % b) /\ n \div b \in Nat /\ n % b \in 0..b-1
OBVIOUS

(* A small number times a, and a number below a, stay below the product. *)
LEMMA BelowProduct ==
  ASSUME NEW a \in Nat \ {0}, NEW b \in Nat \ {0}, NEW t \in 0..b-1, NEW r \in 0..a-1
  PROVE  a * t + r \in 0..(b * a) - 1
<1>1. t + 1 <= b /\ a * (t + 1) = a * t + a
  OBVIOUS
<1>2. a * (t + 1) <= b * a
  BY <1>1
<1>3. a * t \in Nat
  OBVIOUS
<1> QED
  BY <1>1, <1>2, <1>3

(* To divide by a and then by b is to divide by their product. *)
LEMMA DividedTwice ==
  ASSUME NEW a \in Nat \ {0}, NEW b \in Nat \ {0}, NEW n \in Nat
  PROVE  n \div (b * a) = (n \div a) \div b
<1>1. PICK q \in Nat, r \in 0..a-1 : n = a * q + r /\ q = n \div a
  BY Divided
<1>2. PICK s \in Nat, t \in 0..b-1 : q = b * s + t /\ s = q \div b
  BY Divided
<1>3. a * t + r \in 0..(b * a) - 1
  BY BelowProduct
<1>4. b * a \in Nat \ {0}
  OBVIOUS
<1>5. n = (b * a) * s + (a * t + r)
  <2>1. a * (b * s + t) = (b * a) * s + a * t
    OBVIOUS
  <2>2. a * q = a * (b * s + t)
    BY <1>2
  <2> QED
    BY <1>1, <2>1, <2>2
<1> DEFINE c == b * a
           u == a * t + r
<1>6. c \in Nat \ {0} /\ u \in 0..c-1 /\ n = c * s + u
  BY <1>3, <1>4, <1>5
<1> HIDE DEF c, u
<1>7. n \div c = s
  BY <1>6, Division
<1> QED
  BY <1>1, <1>2, <1>7 DEF c

(* What is left of a number without its lowest bytes. *)
LEMMA Shifted ==
  ASSUME NEW n \in Nat, NEW i \in Nat
  PROVE  /\ n \div Power[i] \in Nat /\ n \div Power[0] = n
         /\ n \div Power[i+1] = (n \div Power[i]) \div ByteBase
         /\ n < Power[i] => n \div Power[i] = 0
<1>1. ByteBase \in Nat \ {0} /\ Power[0] = 1 /\ Power[i] \in Nat \ {0} /\ Power[i+1] = ByteBase * Power[i]
  BY PowerIs, ValuesAssumption
<1>2. n \div Power[i] \in Nat
  BY <1>1, Divided
<1>3. n \div Power[0] = n
  BY <1>1
<1>4. n \div Power[i+1] = (n \div Power[i]) \div ByteBase
  BY <1>1, DividedTwice
<1>5. n < Power[i] => n \div Power[i] = 0
  <2> DEFINE p == Power[i]
  <2>1. p \in Nat \ {0}
    BY <1>1
  <2> HIDE DEF p
  <2>2. n < p => n \div p = 0
    BY <2>1
  <2> QED
    BY <2>2 DEF p
<1> QED
  BY <1>2, <1>3, <1>4, <1>5

-----------------------------------------------------------------------------
(* Numbers as byte strings.                                                 *)

(* A byte of a number, and the numbers that fit. *)
Digit(n, k) == (n \div Power[k]) % ByteBase

LEMMA LittleEndianIs ==
  ASSUME NEW n \in Nat, NEW w \in Nat
  PROVE  /\ LittleEndian(n, w) = [i \in 1..w |-> Digit(n, i-1)]
         /\ LittleEndian(n, w) \in Seq(Bytes) /\ Len(LittleEndian(n, w)) = w
<1>1. \A k \in Nat : Digit(n, k) \in Bytes
  <2> SUFFICES ASSUME NEW k \in Nat PROVE Digit(n, k) \in Bytes
    OBVIOUS
  <2>1. n \div Power[k] \in Nat /\ ByteBase \in Nat \ {0}
    BY Shifted, ValuesAssumption
  <2> QED
    BY <2>1, Divided DEF Digit, Bytes
<1>2. LittleEndian(n, w) = [i \in 1..w |-> Digit(n, i-1)]
  BY DEF LittleEndian, Digit
<1>3. \A i \in 1..w : i - 1 \in Nat
  OBVIOUS
<1> QED
  BY <1>1, <1>2, <1>3

LEMMA BigEndianIs ==
  ASSUME NEW n \in Nat, NEW w \in Nat
  PROVE  /\ BigEndian(n, w) = [i \in 1..w |-> Digit(n, w-i)]
         /\ BigEndian(n, w) \in Seq(Bytes) /\ Len(BigEndian(n, w)) = w
         /\ Reverse(BigEndian(n, w)) = LittleEndian(n, w)
<1> DEFINE b == [i \in 1..w |-> Digit(n, w-i)]
           l == [i \in 1..w |-> Digit(n, i-1)]
<1>1. LittleEndian(n, w) = l /\ Len(l) = w /\ l \in Seq(Bytes)
  <2>1. LittleEndian(n, w) = l
    BY LittleEndianIs
  <2> HIDE DEF l
  <2> QED
    BY <2>1, LittleEndianIs
<1>2. Reverse(l) = b
  <2>1. Reverse(l) = [i \in 1..w |-> l[(w - i) + 1]]
    BY <1>1 DEF Reverse
  <2>2. \A i \in 1..w : l[(w - i) + 1] = Digit(n, w-i)
    <3>1. \A i \in 1..w : (w - i) + 1 \in 1..w /\ ((w - i) + 1) - 1 = w - i
      OBVIOUS
    <3> QED
      BY <3>1
  <2> HIDE DEF l
  <2> QED
    BY <2>1, <2>2
<1>3. b \in Seq(Bytes) /\ Len(b) = w
  <2>1. \A i \in 1..w : b[i] \in Bytes
    <3>1. \A i \in 1..w : (w - i) + 1 \in 1..w /\ l[(w - i) + 1] \in Bytes
      <4>1. \A i \in 1..w : (w - i) + 1 \in 1..w
        OBVIOUS
      <4> HIDE DEF l
      <4>2. \A i \in 1..w : l[i] \in Bytes
        BY <1>1
      <4> QED
        BY <4>1, <4>2
    <3>2. \A i \in 1..w : ((w - i) + 1) - 1 = w - i
      OBVIOUS
    <3>3. \A i \in 1..w : l[(w - i) + 1] = b[i]
      BY <3>1, <3>2
    <3> QED
      BY <3>1, <3>3
  <2>2. b = [i \in 1..w |-> b[i]]
    OBVIOUS
  <2> HIDE DEF b
  <2> QED
    BY <2>1, <2>2
<1>4. Reverse(b) = l
  <2>1. Reverse(b) = [i \in 1..w |-> b[(w - i) + 1]]
    BY <1>3 DEF Reverse
  <2>2. \A i \in 1..w : b[(w - i) + 1] = Digit(n, i-1)
    <3>1. \A i \in 1..w : (w - i) + 1 \in 1..w /\ w - ((w - i) + 1) = i - 1
      OBVIOUS
    <3> QED
      BY <3>1
  <2> HIDE DEF b
  <2> QED
    BY <2>1, <2>2
<1> QED
  BY <1>1, <1>2, <1>3, <1>4 DEF BigEndian

(* Two byte strings part at position i, where a has the smaller byte. *)
Parts(a, b, i) ==
    /\ i \in DOMAIN a \cap DOMAIN b
    /\ a[i] < b[i]
    /\ \A j \in 1..i-1 : a[j] = b[j]

(* Division keeps the order. *)
LEMMA DivisionKeepsOrder ==
  ASSUME NEW b \in Nat \ {0}, NEW m \in Nat, NEW n \in Nat, m <= n
  PROVE  m \div b <= n \div b
OBVIOUS

(* The bytes of numbers, the high ones first, are in the order of the numbers. *)
LEMMA BigEndianOrder ==
  ASSUME NEW w \in Nat, NEW m \in Nat, NEW n \in Nat, m < n, n < Power[w]
  PROVE  \E i \in 1..w : Parts(BigEndian(m, w), BigEndian(n, w), i)
<1> DEFINE S == {k \in 0..w : m \div Power[k] # n \div Power[k]}
<1>1. m \div Power[w] = n \div Power[w] /\ m \div Power[0] # n \div Power[0]
  <2>1. m < Power[w]
    BY PowerIs
  <2>2. m \div Power[w] = 0 /\ n \div Power[w] = 0
    BY Shifted, <2>1
  <2>3. m \div Power[0] = m /\ n \div Power[0] = n
    BY Shifted
  <2> QED
    BY <2>2, <2>3
<1>2. PICK k \in S : \A l \in S : l <= k
  <2>1. S \in SUBSET Nat /\ S # {} /\ \A l \in S : l <= w
    BY <1>1
  <2> HIDE DEF S
  <2> QED
    BY <2>1, MaxOfBounded
<1>3. k \in 0..w-1 /\ m \div Power[k] # n \div Power[k]
  BY <1>1
<1>4. \A l \in 0..w : l > k => m \div Power[l] = n \div Power[l]
  BY <1>2, <1>3
<1> DEFINE p == m \div Power[k]
           q == n \div Power[k]
<1>5. p \in Nat /\ q \in Nat /\ p < q
  <2>1. p \in Nat /\ q \in Nat
    BY <1>3, Shifted
  <2>2. p <= q
    <3>1. Power[k] \in Nat \ {0} /\ m <= n
      BY <1>3, PowerIs
    <3> QED
      BY <3>1, DivisionKeepsOrder
  <2> QED
    BY <1>3, <2>1, <2>2
<1>6. p \div ByteBase = q \div ByteBase
  <2>1. k + 1 \in 0..w /\ k + 1 > k /\ k \in Nat
    BY <1>3
  <2>2. m \div Power[k+1] = n \div Power[k+1]
    BY <1>4, <2>1
  <2> QED
    BY <2>1, <2>2, Shifted
<1> HIDE DEF p, q
<1>7. p % ByteBase < q % ByteBase
  <2> DEFINE b == ByteBase
             h == p \div b
  <2>1. b \in Nat \ {0}
    BY ValuesAssumption
  <2> HIDE DEF b
  <2>2. p = b * h + (p % b) /\ q = b * (q \div b) + (q % b)
    <3>1. p = b * h + (p % b)
      BY <1>5, <2>1, Divided
    <3>2. q = b * (q \div b) + (q % b)
      BY <1>5, <2>1, Divided
    <3> QED
      BY <3>1, <3>2
  <2>3. h \in Nat /\ p % b \in Nat /\ q % b \in Nat
    <3>1. h \in Nat /\ p % b \in 0..b-1
      BY <1>5, <2>1, Divided
    <3>2. q % b \in 0..b-1
      BY <1>5, <2>1, Divided
    <3> QED
      BY <3>1, <3>2
  <2>4. q = b * h + (q % b)
    BY <1>6, <2>2 DEF b
  <2>5. b * h \in Nat
    BY <2>1, <2>3
  <2> DEFINE x == b * h
             y == p % b
             z == q % b
  <2>6. x \in Nat /\ y \in Nat /\ z \in Nat /\ p = x + y /\ q = x + z /\ p < q
    BY <1>5, <2>2, <2>3, <2>4, <2>5
  <2> HIDE DEF x, y, z
  <2>7. y < z
    BY <2>6
  <2> QED
    BY <2>7 DEF y, z, b
<1> DEFINE i == w - k
           a == BigEndian(m, w)
           c == BigEndian(n, w)
<1>8. i \in 1..w /\ w - i = k
  BY <1>3
<1>9. a = [j \in 1..w |-> Digit(m, w-j)] /\ c = [j \in 1..w |-> Digit(n, w-j)]
  BY BigEndianIs
<1> HIDE DEF a, c, i
<1>10. a[i] < c[i]
  BY <1>7, <1>8, <1>9 DEF p, q, Digit
<1>11. \A j \in 1..i-1 : a[j] = c[j]
  <2> SUFFICES ASSUME NEW j \in 1..i-1 PROVE a[j] = c[j]
    OBVIOUS
  <2>1. j \in 1..w /\ w - j \in 0..w /\ w - j > k
    BY <1>3, <1>8
  <2>2. m \div Power[w-j] = n \div Power[w-j]
    BY <1>4, <2>1
  <2> QED
    BY <1>9, <2>1, <2>2 DEF Digit
<1>12. i \in DOMAIN a \cap DOMAIN c
  BY <1>8, <1>9
<1>13. Parts(a, c, i)
  BY <1>10, <1>11, <1>12 DEF Parts
<1> QED
  BY <1>8, <1>13 DEF a, c

(* A number is read back from its bytes. *)
LEMMA NumberIsReadBack ==
  ASSUME NEW w \in Nat, NEW n \in Nat, n < Power[w]
  PROVE  FromLittleEndian(LittleEndian(n, w)) = n
<1> DEFINE l == LittleEndian(n, w)
           t == [i \in 1..Len(l) |-> l[i] * Power[i-1]]
           Rest(i) == Power[i] * (n \div Power[i])
           S == {i \in Nat : i <= w => Sums(t)[i] + Rest(i) = n}
<1>1. l = [i \in 1..w |-> Digit(n, i-1)] /\ l \in Seq(Bytes) /\ Len(l) = w
  BY LittleEndianIs
<1> HIDE DEF l
<1>2. \A i \in 1..w : i - 1 \in Nat /\ Power[i-1] \in Nat /\ l[i] \in Nat /\ l[i] * Power[i-1] \in Nat
  <2> SUFFICES ASSUME NEW i \in 1..w
               PROVE  i - 1 \in Nat /\ Power[i-1] \in Nat /\ l[i] \in Nat /\ l[i] * Power[i-1] \in Nat
    OBVIOUS
  <2>1. i - 1 \in Nat
    OBVIOUS
  <2>2. Power[i-1] \in Nat
    BY <2>1, PowerIs
  <2>3. l[i] \in Nat
    BY <1>1, ValuesAssumption DEF Bytes
  <2>4. \A x, y \in Nat : x * y \in Nat
    OBVIOUS
  <2> QED
    BY <2>1, <2>2, <2>3, <2>4
<1>3. t = [i \in 1..w |-> l[i] * Power[i-1]] /\ t \in Seq(Nat) /\ Len(t) = w
  BY <1>1, <1>2
<1> HIDE DEF t
<1>4. /\ Sums(t)[0] = 0
      /\ \A i \in 1..w : Sums(t)[i] = Sums(t)[i-1] + t[i]
      /\ \A i \in 0..w : Sums(t)[i] \in Nat
  BY <1>3, SumsType
<1>5. 0 \in S
  <2>1. Power[0] = 1 /\ n \div Power[0] = n
    BY PowerIs, Shifted
  <2> QED
    BY <1>4, <2>1
<1>6. ASSUME NEW i \in S PROVE i + 1 \in S
  <2> SUFFICES ASSUME i + 1 <= w PROVE Sums(t)[i+1] + Rest(i+1) = n
    OBVIOUS
  <2>1. i \in Nat /\ i + 1 \in 1..w /\ (i + 1) - 1 = i /\ i \in 0..w /\ i <= w
    OBVIOUS
  <2> DEFINE p == Power[i]
             q == n \div p
             r == q \div ByteBase
             d == q % ByteBase
  <2>2. p \in Nat \ {0} /\ Power[i+1] = ByteBase * p /\ ByteBase \in Nat \ {0}
    BY <2>1, PowerIs, ValuesAssumption
  <2>3. q \in Nat /\ n \div Power[i+1] = r
    BY <2>1, Shifted
  <2>4. t[i+1] = d * p
    BY <1>1, <1>3, <2>1 DEF Digit
  <2>5. Sums(t)[i+1] = Sums(t)[i] + d * p
    BY <1>4, <2>1, <2>4
  <2>6. Sums(t)[i] + p * q = n
    BY <2>1
  <2> HIDE DEF p, q
  <2>7. q = ByteBase * r + d /\ r \in Nat /\ d \in Nat
    BY SMTT(30), <2>2, <2>3, Divided
  <2> HIDE DEF r, d
  <2>8. p * (ByteBase * r + d) = (ByteBase * p) * r + d * p
    BY <2>2, <2>7
  <2>9. p * q = (ByteBase * p) * r + d * p
    BY <2>7, <2>8
  <2>10. Sums(t)[i] \in Nat /\ d * p \in Nat /\ (ByteBase * p) * r \in Nat
    <3>1. \A x, y \in Nat : x * y \in Nat
      OBVIOUS
    <3>2. ByteBase * p \in Nat
      BY <2>2, <3>1
    <3> QED
      BY <1>4, <2>1, <2>2, <2>7, <3>1, <3>2
  <2>11. Rest(i+1) = (ByteBase * p) * r
    BY <2>2, <2>3
  <2> DEFINE x == Sums(t)[i]
             y == d * p
             z == (ByteBase * p) * r
  <2>12. x \in Nat /\ y \in Nat /\ z \in Nat /\ x + (z + y) = n /\ Sums(t)[i+1] = x + y
    BY <2>5, <2>6, <2>9, <2>10
  <2> HIDE DEF x, y, z
  <2>13. (x + y) + z = n
    BY <2>12
  <2> QED
    BY <2>11, <2>12, <2>13 DEF z
<1>7. S = Nat
  <2>1. S \in SUBSET Nat
    OBVIOUS
  <2> HIDE DEF S
  <2> QED
    BY <1>5, <1>6, <2>1, Induction
<1>8. Sums(t)[w] + Rest(w) = n
  BY <1>7
<1>9. n \div Power[w] = 0 /\ Power[w] \in Nat
  BY PowerIs, Shifted
<1>10. Rest(w) = 0
  BY <1>9
<1>11. FromLittleEndian(l) = Sums(t)[w]
  BY <1>1 DEF FromLittleEndian, t
<1>12. Sums(t)[w] \in Nat
  BY <1>4
<1> QED
  BY <1>8, <1>10, <1>11, <1>12 DEF l

(* A varint is bytes, and the first of a number below ByteBase is the number. *)
LEMMA VarintIs ==
  ASSUME NEW n \in Nat
  PROVE  /\ WriteVarint(n) \in Seq(Bytes)
         /\ n < ByteBase => WriteVarint(n) # << >> /\ WriteVarint(n)[1] = n
<1> DEFINE V == VarBase
           StepAt(g, m) == IF m < V THEN <<m>> ELSE <<V + (m % V)>> \o g[m \div V]
           Step(g) == [m \in 0..n |-> StepAt(g, m)]
           F == CHOOSE g : g = Step(g)
           Solves(g, k) == g \in [0..k -> Seq(Bytes)] /\ \A m \in 0..k : g[m] = StepAt(g, m)
           S == {k \in Nat : \E g : Solves(g, k)}
<1>1. V \in Nat /\ V > 3 /\ ByteBase = 2 * V /\ Bytes = 0..ByteBase-1
  BY ValuesAssumption DEF VarBase, Bytes
<1>2. WriteVarint(n) = F[n]
  BY DEF WriteVarint
<1> HIDE DEF V
<1>3. ASSUME NEW m \in Nat, m < V PROVE <<m>> \in Seq(Bytes)
  BY <1>1, <1>3
<1>4. ASSUME NEW m \in Nat, ~(m < V)
      PROVE  m \div V \in Nat /\ m \div V < m /\ V + (m % V) \in Bytes
  <2>1. V \in Nat \ {0}
    BY <1>1
  <2>2. m = V * (m \div V) + (m % V) /\ m \div V \in Nat /\ m % V \in 0..V-1
    BY <2>1, Divided
  <2>3. V + (m % V) \in Bytes
    BY <1>1, <2>2
  <2>4. m \div V < m
    <3> DEFINE x == m \div V
               y == m % V
    <3>1. x \in Nat /\ y \in Nat /\ m = V * x + y
      BY <2>1, <2>2
    <3> HIDE DEF x, y
    <3>2. V * x >= 2 * x
      BY <1>1, <3>1
    <3>3. V * x \in Nat /\ m > 0
      BY <1>1, <1>4, <3>1
    <3>4. x < m
      BY <3>1, <3>2, <3>3
    <3> QED
      BY <3>4 DEF x
  <2> QED
    BY <2>2, <2>3, <2>4
<1>5. ASSUME NEW g, NEW m \in Nat, m < V \/ g[m \div V] \in Seq(Bytes)
      PROVE  StepAt(g, m) \in Seq(Bytes)
  <2>1. CASE m < V
    BY <1>3, <2>1
  <2>2. CASE ~(m < V)
    <3>1. <<V + (m % V)>> \in Seq(Bytes) /\ g[m \div V] \in Seq(Bytes)
      BY <1>4, <1>5, <2>2
    <3>2. <<V + (m % V)>> \o g[m \div V] \in Seq(Bytes)
      BY <3>1
    <3> QED
      BY <2>2, <3>2
  <2> QED
    BY <2>1, <2>2
<1>6. 0 \in S
  <2> DEFINE g == [m \in 0..0 |-> <<0>>]
  <2>1. g \in [0..0 -> Seq(Bytes)]
    BY <1>1, <1>3
  <2>2. \A m \in 0..0 : g[m] = StepAt(g, m)
    BY <1>1
  <2>3. Solves(g, 0)
    BY <2>1, <2>2
  <2> HIDE DEF Solves, g
  <2> QED
    BY <2>3
<1>7. ASSUME NEW k \in S PROVE k + 1 \in S
  <2>1. PICK g : Solves(g, k)
    OBVIOUS
  <2> DEFINE h == [m \in 0..k+1 |-> IF m <= k THEN g[m] ELSE StepAt(g, k+1)]
  <2>2. k \in Nat /\ k + 1 \in Nat /\ \A m \in 0..k : g[m] \in Seq(Bytes)
    BY <2>1
  <2>3. \A m \in 0..k+1 : ~(m < V) => m \div V \in 0..k
    <3> SUFFICES ASSUME NEW m \in 0..k+1, ~(m < V) PROVE m \div V \in 0..k
      OBVIOUS
    <3>1. m \in Nat
      OBVIOUS
    <3>2. m \div V \in Nat /\ m \div V < m
      BY <1>4, <3>1
    <3> QED
      BY <2>2, <3>2
  <2>4. StepAt(g, k+1) \in Seq(Bytes)
    <3>1. k + 1 < V \/ g[(k+1) \div V] \in Seq(Bytes)
      BY <2>2, <2>3
    <3> HIDE DEF StepAt
    <3> QED
      BY <1>5, <2>2, <3>1
  <2>5. h \in [0..k+1 -> Seq(Bytes)]
    <3> HIDE DEF StepAt
    <3> QED
      BY <2>2, <2>4
  <2>6. \A m \in 0..k+1 : h[m] = StepAt(h, m)
    <3> SUFFICES ASSUME NEW m \in 0..k+1 PROVE h[m] = StepAt(h, m)
      BY ZenonT(40)
    <3>1. StepAt(h, m) = StepAt(g, m)
      <4>1. CASE m < V
        <5> HIDE DEF h
        <5> QED
          BY <4>1
      <4>2. CASE ~(m < V)
        <5>1. m \div V \in 0..k
          BY <2>3, <4>2
        <5>2. m \div V \in 0..k+1 /\ m \div V <= k
          BY <2>2, <5>1
        <5>3. h[m \div V] = g[m \div V]
          BY <5>2
        <5> HIDE DEF h
        <5> QED
          BY <4>2, <5>3
      <4> QED
        BY <4>1, <4>2
    <3>2. CASE m <= k
      <4>1. m \in 0..k /\ h[m] = g[m]
        BY <2>2, <3>2
      <4>2. g[m] = StepAt(g, m)
        BY <2>1, <4>1
      <4> HIDE DEF h, StepAt
      <4> QED
        BY <3>1, <4>1, <4>2
    <3>3. CASE ~(m <= k)
      <4>1. m = k + 1
        BY <2>2, <3>3
      <4>2. h[m] = StepAt(g, k+1)
        BY <3>3
      <4> HIDE DEF h, StepAt
      <4> QED
        BY <3>1, <4>1, <4>2
    <3> QED
      BY <3>2, <3>3
  <2>7. Solves(h, k + 1)
    <3> HIDE DEF h, StepAt
    <3> QED
      BY <2>5, <2>6
  <2> HIDE DEF Solves, h
  <2> QED
    BY <2>2, <2>7
<1>8. S = Nat
  <2>1. S \in SUBSET Nat
    OBVIOUS
  <2> HIDE DEF S
  <2> QED
    BY <1>6, <1>7, <2>1, Induction
<1>9. F = Step(F)
  <2>1. PICK g : Solves(g, n)
    BY <1>8
  <2>2. g = Step(g)
    <3>1. g = [m \in 0..n |-> g[m]]
      BY <2>1
    <3> HIDE DEF StepAt
    <3> QED
      BY <2>1, <3>1
  <2> HIDE DEF Step
  <2> QED
    BY <2>2
<1> HIDE DEF F
<1>10. \A m \in 0..n : F[m] = StepAt(F, m)
  <2> HIDE DEF StepAt
  <2> QED
    BY <1>9
<1> DEFINE T == {k \in Nat : \A m \in 0..k : m <= n => F[m] \in Seq(Bytes)}
<1>11. ASSUME NEW m \in 0..n, m < V \/ F[m \div V] \in Seq(Bytes) PROVE F[m] \in Seq(Bytes)
  <2>1. m \in Nat
    OBVIOUS
  <2> HIDE DEF StepAt
  <2> QED
    BY <1>5, <1>10, <1>11, <2>1
<1>12. 0 \in T
  <2>1. 0 < V /\ 0 \in 0..n
    BY <1>1
  <2>2. F[0] \in Seq(Bytes)
    BY <1>11, <2>1
  <2> QED
    BY <2>2
<1>13. ASSUME NEW k \in T PROVE k + 1 \in T
  <2> SUFFICES ASSUME NEW m \in 0..k+1, m <= n PROVE F[m] \in Seq(Bytes)
    OBVIOUS
  <2>1. k \in Nat /\ m \in Nat
    OBVIOUS
  <2>2. CASE m <= k
    BY <2>1, <2>2
  <2>3. CASE ~(m <= k)
    <3>1. m < V \/ (m \div V \in 0..k /\ m \div V <= n)
      <4>1. ~(m < V) => m \div V \in Nat /\ m \div V < m
        BY <1>4, <2>1
      <4> QED
        BY <2>1, <4>1
    <3>2. m < V \/ F[m \div V] \in Seq(Bytes)
      BY <3>1
    <3> QED
      BY <1>11, <2>1, <3>2
  <2> QED
    BY <2>2, <2>3
<1>14. T = Nat
  <2>1. T \in SUBSET Nat
    OBVIOUS
  <2> HIDE DEF T
  <2> QED
    BY <1>12, <1>13, <2>1, Induction
<1>15. \A m \in 0..n : F[m] \in Seq(Bytes)
  BY <1>14
<1>16. ASSUME n < ByteBase PROVE F[n] # << >> /\ F[n][1] = n
  <2>0. F[n] = StepAt(F, n)
    <3>1. n \in 0..n
      OBVIOUS
    <3> HIDE DEF StepAt
    <3> QED
      BY <1>10, <3>1
  <2>1. CASE n < V
    <3>1. F[n] = <<n>>
      BY <2>0, <2>1
    <3> QED
      BY <3>1
  <2>2. CASE ~(n < V)
    <3>1. F[n] = <<V + (n % V)>> \o F[n \div V]
      BY <2>0, <2>2
    <3>2. n \div V \in Nat /\ n \div V < n /\ V + (n % V) \in Bytes
      BY <1>4, <2>2
    <3>3. F[n \div V] \in Seq(Bytes)
      BY <1>15, <3>2
    <3>4. F[n] # << >> /\ F[n][1] = V + (n % V)
      BY <3>1, <3>2, <3>3
    <3>5. n % V = n - V
      <4>1. V \in Nat \ {0} /\ n - V \in 0..V-1 /\ n = V * 1 + (n - V)
        BY <1>1, <1>16, <2>2
      <4> QED
        BY <4>1, Division
    <3> QED
      BY <1>1, <3>4, <3>5
  <2> QED
    BY <2>1, <2>2
<1> QED
  BY <1>2, <1>15, <1>16

-----------------------------------------------------------------------------
(* The order of byte strings.                                               *)

(* Strings that part are in that order, and neither begins with the other. *)
LEMMA PartsBelow ==
  ASSUME NEW a \in Seq(Nat), NEW b \in Seq(Nat), NEW i, Parts(a, b, i)
  PROVE  Below(a, b) /\ ~Below(b, a) /\ ~IsPrefix(a, b) /\ ~IsPrefix(b, a) /\ a # b
<1>1. /\ i \in 1..Len(a) /\ i \in 1..Len(b) /\ a[i] < b[i]
      /\ \A j \in 1..i-1 : a[j] = b[j] /\ a[j] \in Nat /\ b[j] \in Nat
  BY SMTT(30) DEF Parts
<1>2. a[i] \in Nat /\ b[i] \in Nat /\ a[i] # b[i]
  BY SMTT(30), <1>1
<1>3. ~IsPrefix(a, b) /\ ~IsPrefix(b, a)
  <2>1. IsPrefix(a, b) => a[i] = b[i]
    BY <1>1 DEF IsPrefix
  <2>2. IsPrefix(b, a) => a[i] = b[i]
    BY <1>1 DEF IsPrefix
  <2> QED
    BY <1>2, <2>1, <2>2
<1>4. Below(a, b)
  BY <1>1 DEF Below
<1>5. ~Below(b, a)
  <2> SUFFICES ASSUME NEW j \in DOMAIN b \cap DOMAIN a, b[j] < a[j], \A l \in 1..j-1 : b[l] = a[l]
               PROVE  FALSE
    BY <1>3 DEF Below
  <2>1. j \in 1..Len(a) /\ j \in 1..Len(b) /\ a[j] \in Nat /\ b[j] \in Nat
    OBVIOUS
  <2>2. CASE j < i
    <3>1. j \in 1..i-1
      BY <1>1, <2>1, <2>2
    <3> QED
      BY <1>1, <2>1, <3>1
  <2>3. CASE i < j
    <3>1. i \in 1..j-1
      BY <1>1, <2>1, <2>3
    <3> QED
      BY <1>2, <3>1
  <2>4. CASE i = j
    BY <1>1, <1>2, <2>4
  <2> QED
    BY <1>1, <2>1, <2>2, <2>3, <2>4
<1> QED
  BY <1>2, <1>3, <1>4, <1>5

(* Nothing is below itself, or below what it begins with. *)
LEMMA BelowNothing ==
  ASSUME NEW a \in Seq(Nat), NEW x \in Seq(Nat)
  PROVE  ~Below(a \o x, a) /\ ~Below(a, a)
<1> SUFFICES ASSUME NEW y \in Seq(Nat) PROVE ~Below(a \o y, a)
  <2>1. << >> \in Seq(Nat) /\ a \o << >> = a
    OBVIOUS
  <2> QED
    BY <2>1
<1>1. a \o y \in Seq(Nat) /\ Len(a \o y) = Len(a) + Len(y) /\ Len(a) \in Nat /\ Len(y) \in Nat
  OBVIOUS
<1>2. \A i \in 1..Len(a) : (a \o y)[i] = a[i] /\ a[i] \in Nat
  OBVIOUS
<1>3. a \o y # a => ~IsPrefix(a \o y, a)
  <2> SUFFICES ASSUME IsPrefix(a \o y, a) PROVE a \o y = a
    OBVIOUS
  <2>1. Len(a) + Len(y) <= Len(a)
    BY <1>1 DEF IsPrefix
  <2>2. Len(y) = 0
    BY <1>1, <2>1
  <2>3. y = << >>
    BY <2>2
  <2> QED
    BY <2>3
<1>4. \A i \in DOMAIN (a \o y) \cap DOMAIN a : ~((a \o y)[i] < a[i])
  <2> SUFFICES ASSUME NEW i \in 1..Len(a) PROVE ~((a \o y)[i] < a[i])
    OBVIOUS
  <2>1. (a \o y)[i] = a[i] /\ a[i] \in Nat
    BY <1>2
  <2> QED
    BY <2>1
<1> QED
  BY <1>3, <1>4 DEF Below

(* Strings still part behind a common prefix, *)
LEMMA PartsBehind ==
  ASSUME NEW p \in Seq(Nat), NEW a \in Seq(Nat), NEW b \in Seq(Nat), NEW i, Parts(a, b, i)
  PROVE  Parts(p \o a, p \o b, Len(p) + i)
<1>1. /\ i \in 1..Len(a) /\ i \in 1..Len(b) /\ a[i] < b[i] /\ \A j \in 1..i-1 : a[j] = b[j]
      /\ Len(p) \in Nat
  BY DEF Parts
<1>2. Len(p \o a) = Len(p) + Len(a) /\ Len(p \o b) = Len(p) + Len(b)
  OBVIOUS
<1>3. /\ \A j \in 1..Len(a) : (p \o a)[Len(p) + j] = a[j]
      /\ \A j \in 1..Len(b) : (p \o b)[Len(p) + j] = b[j]
      /\ \A j \in 1..Len(p) : (p \o a)[j] = p[j] /\ (p \o b)[j] = p[j]
  OBVIOUS
<1>4. Len(p) + i \in DOMAIN (p \o a) \cap DOMAIN (p \o b)
  BY <1>1, <1>2
<1>5. (p \o a)[Len(p) + i] < (p \o b)[Len(p) + i]
  BY <1>1, <1>3
<1>6. ASSUME NEW j \in 1..(Len(p) + i)-1 PROVE (p \o a)[j] = (p \o b)[j]
  <2>1. CASE j \in 1..Len(p)
    BY <1>3, <2>1
  <2>2. CASE j \notin 1..Len(p)
    <3> DEFINE l == j - Len(p)
    <3>1. l \in 1..i-1 /\ l \in 1..Len(a) /\ l \in 1..Len(b) /\ j = Len(p) + l
      BY SMTT(30), <1>1, <2>2
    <3> HIDE DEF l
    <3>2. a[l] = b[l]
      BY <1>1, <3>1
    <3> QED
      BY <1>3, <3>1, <3>2
  <2> QED
    BY <2>1, <2>2
<1> QED
  BY <1>4, <1>5, <1>6 DEF Parts

(* and whatever follows them. *)
LEMMA PartsBefore ==
  ASSUME NEW a \in Seq(Nat), NEW b \in Seq(Nat), NEW i, Parts(a, b, i),
         NEW x \in Seq(Nat), NEW y \in Seq(Nat)
  PROVE  Parts(a \o x, b \o y, i)
<1>1. /\ i \in 1..Len(a) /\ i \in 1..Len(b) /\ a[i] < b[i] /\ \A j \in 1..i-1 : a[j] = b[j]
      /\ Len(x) \in Nat /\ Len(y) \in Nat
  BY DEF Parts
<1>2. Len(a \o x) = Len(a) + Len(x) /\ Len(b \o y) = Len(b) + Len(y)
  OBVIOUS
<1>3. /\ \A j \in 1..Len(a) : (a \o x)[j] = a[j]
      /\ \A j \in 1..Len(b) : (b \o y)[j] = b[j]
  OBVIOUS
<1>4. i \in DOMAIN (a \o x) \cap DOMAIN (b \o y)
  BY SMTT(30), <1>1, <1>2
<1>5. \A j \in 1..i-1 : j \in 1..Len(a) /\ j \in 1..Len(b)
  BY SMTT(30), <1>1
<1> QED
  BY <1>1, <1>3, <1>4, <1>5 DEF Parts

(* Of three strings that part in a row the first and the last do. *)
LEMMA PartsOn ==
  ASSUME NEW a \in Seq(Nat), NEW b \in Seq(Nat), NEW c \in Seq(Nat),
         NEW i, Parts(a, b, i), NEW j, Parts(b, c, j)
  PROVE  \E l : Parts(a, c, l)
<1>1. /\ i \in 1..Len(a) /\ i \in 1..Len(b) /\ a[i] < b[i] /\ \A l \in 1..i-1 : a[l] = b[l]
      /\ j \in 1..Len(b) /\ j \in 1..Len(c) /\ b[j] < c[j] /\ \A l \in 1..j-1 : b[l] = c[l]
      /\ a[i] \in Nat /\ b[i] \in Nat /\ b[j] \in Nat /\ c[j] \in Nat
  <2>1. /\ i \in 1..Len(a) /\ i \in 1..Len(b) /\ a[i] < b[i] /\ \A l \in 1..i-1 : a[l] = b[l]
        /\ a[i] \in Nat /\ b[i] \in Nat
    BY SMTT(30) DEF Parts
  <2>2. /\ j \in 1..Len(b) /\ j \in 1..Len(c) /\ b[j] < c[j] /\ \A l \in 1..j-1 : b[l] = c[l]
        /\ b[j] \in Nat /\ c[j] \in Nat
    BY SMTT(30) DEF Parts
  <2> QED
    BY <2>1, <2>2
<1>0. DOMAIN a = 1..Len(a) /\ DOMAIN c = 1..Len(c)
  OBVIOUS
<1>2. CASE i < j
  <2>1. i \in 1..j-1 /\ b[i] = c[i] /\ i \in 1..Len(c)
    BY <1>1, <1>2
  <2>2. \A l \in 1..i-1 : a[l] = c[l]
    BY <1>1, <1>2
  <2>3. Parts(a, c, i)
    BY <1>0, <1>1, <2>1, <2>2 DEF Parts
  <2> QED
    BY <2>3
<1>3. CASE j < i
  <2>1. j \in 1..i-1 /\ a[j] = b[j] /\ j \in 1..Len(a)
    BY <1>1, <1>3
  <2>2. \A l \in 1..j-1 : a[l] = c[l]
    BY <1>1, <1>3
  <2>3. Parts(a, c, j)
    BY <1>0, <1>1, <2>1, <2>2 DEF Parts
  <2> QED
    BY <2>3
<1>4. CASE i = j
  <2>1. a[i] < c[i]
    BY SMTT(30), <1>1, <1>4
  <2>2. Parts(a, c, i)
    BY <1>0, <1>1, <1>4, <2>1 DEF Parts
  <2> QED
    BY <2>2
<1> QED
  BY <1>1, <1>2, <1>3, <1>4

(* Different strings of one length part. *)
LEMMA SameLengthParts ==
  ASSUME NEW a \in Seq(Nat), NEW b \in Seq(Nat), Len(a) = Len(b), a # b
  PROVE  \E i : Parts(a, b, i) \/ Parts(b, a, i)
<1> DEFINE S == {i \in 1..Len(a) : a[i] # b[i]}
<1>1. S # {} /\ S \in SUBSET Nat
  <2>1. a = [i \in 1..Len(a) |-> a[i]] /\ b = [i \in 1..Len(b) |-> b[i]]
    OBVIOUS
  <2>2. ASSUME \A i \in 1..Len(a) : a[i] = b[i] PROVE FALSE
    <3>1. [i \in 1..Len(a) |-> a[i]] = [i \in 1..Len(b) |-> b[i]]
      BY <2>2
    <3> QED
      BY <2>1, <3>1
  <2>3. S # {}
    BY <2>2
  <2>4. S \in SUBSET Nat
    OBVIOUS
  <2> QED
    BY <2>3, <2>4
<1>2. PICK i \in S : \A j \in S : i <= j
  <2> HIDE DEF S
  <2> QED
    BY <1>1, LeastNatural
<1>3. i \in 1..Len(a) /\ a[i] # b[i] /\ a[i] \in Nat /\ b[i] \in Nat
  BY SMTT(30)
<1>4. \A j \in 1..i-1 : a[j] = b[j]
  <2> SUFFICES ASSUME NEW j \in 1..i-1, a[j] # b[j] PROVE FALSE
    OBVIOUS
  <2>1. j \in 1..Len(a) /\ j < i
    BY <1>3
  <2>2. j \in S
    BY <2>1
  <2> QED
    BY <1>2, <1>3, <2>1, <2>2
<1>5. Parts(a, b, i) \/ Parts(b, a, i)
  <2>1. i \in DOMAIN a \cap DOMAIN b
    BY <1>3
  <2>2. a[i] < b[i] \/ b[i] < a[i]
    BY SMTT(30), <1>3
  <2> QED
    BY <1>4, <2>1, <2>2 DEF Parts
<1> QED
  BY <1>5

(* Of two strings of one length that are in order, they part in that order. *)
LEMMA BelowParts ==
  ASSUME NEW a \in Seq(Nat), NEW b \in Seq(Nat), Len(a) = Len(b), Below(a, b)
  PROVE  \E i : Parts(a, b, i)
<1>1. a # b
  BY BelowNothing
<1>2. PICK i : Parts(a, b, i) \/ Parts(b, a, i)
  BY <1>1, SameLengthParts
<1>3. ~Parts(b, a, i)
  BY PartsBelow
<1> QED
  BY <1>2, <1>3

(* A finite set of strings that part from one another is enumerated in order. *)
LEMMA Enumerated ==
  ASSUME NEW K \in SUBSET Seq(Nat), IsFiniteSet(K),
         \A a, b \in K : a # b => \E i : Parts(a, b, i) \/ Parts(b, a, i)
  PROVE  LET s == InOrder(K) IN
         /\ s \in [1..Cardinality(K) -> K]
         /\ \A i, j \in 1..Cardinality(K) : i < j => Below(s[i], s[j])
         /\ \A k \in K : \E i \in 1..Cardinality(K) : s[i] = k
<1> DEFINE n == Cardinality(K)
           L(x) == {y \in K : Below(y, x)}
           rank == [x \in K |-> Cardinality(L(x)) + 1]
           Sorted(s) == \A i, j \in DOMAIN s : i < j => Below(s[i], s[j])
<1>1. n \in Nat
  BY FS_CardinalityType
<1>2. /\ \A x, y \in K : x # y => Below(x, y) \/ Below(y, x)
      /\ \A x \in K : ~Below(x, x)
      /\ \A x, y \in K : Below(x, y) => ~Below(y, x)
      /\ \A x, y, z \in K : Below(x, y) /\ Below(y, z) => Below(x, z)
  <2>1. \A x \in K : ~Below(x, x)
    BY BelowNothing
  <2>2. \A x, y \in K : x # y => Below(x, y) \/ Below(y, x)
    BY PartsBelow
  <2>3. ASSUME NEW x \in K, NEW y \in K, Below(x, y) PROVE ~Below(y, x) /\ \E i : Parts(x, y, i)
    <3>1. x # y
      BY <2>1, <2>3
    <3>2. PICK i : Parts(x, y, i) \/ Parts(y, x, i)
      BY <3>1
    <3>3. ~Parts(y, x, i)
      BY <2>3, PartsBelow
    <3>4. Parts(x, y, i)
      BY <3>2, <3>3
    <3> QED
      BY <3>4, PartsBelow
  <2>4. ASSUME NEW x \in K, NEW y \in K, NEW z \in K, Below(x, y), Below(y, z) PROVE Below(x, z)
    <3>1. PICK i : Parts(x, y, i)
      BY <2>3, <2>4
    <3>2. PICK j : Parts(y, z, j)
      BY <2>3, <2>4
    <3>3. PICK l : Parts(x, z, l)
      BY <3>1, <3>2, PartsOn
    <3> QED
      BY <3>3, PartsBelow
  <2> QED
    BY <2>1, <2>2, <2>3, <2>4
<1>3. ASSUME NEW x \in K
      PROVE  L(x) \subseteq K \ {x} /\ IsFiniteSet(L(x)) /\ Cardinality(L(x)) \in 0..(n - 1)
  <2>1. L(x) \in SUBSET (K \ {x})
    BY <1>2
  <2>2. IsFiniteSet(K \ {x}) /\ Cardinality(K \ {x}) = n - 1
    BY <1>1, FS_RemoveElement
  <2> HIDE DEF L
  <2>3. IsFiniteSet(L(x)) /\ Cardinality(L(x)) <= n - 1 /\ Cardinality(L(x)) \in Nat
    BY <2>1, <2>2, FS_Subset, FS_CardinalityType
  <2> QED
    BY <1>1, <2>1, <2>3
<1>4. rank \in [K -> 1..n]
  <2> HIDE DEF L, n
  <2> QED
    BY <1>1, <1>3
<1>5. ASSUME NEW x \in K, NEW y \in K, Below(x, y) PROVE rank[x] < rank[y]
  <2>1. L(x) \in SUBSET (L(y) \ {x}) /\ x \in L(y)
    BY <1>2, <1>5
  <2>2. IsFiniteSet(L(y)) /\ Cardinality(L(x)) \in Nat /\ Cardinality(L(y)) \in Nat
    <3> HIDE DEF L, n
    <3> QED
      BY <1>1, <1>3
  <2> HIDE DEF L
  <2>3. IsFiniteSet(L(y) \ {x}) /\ Cardinality(L(y) \ {x}) = Cardinality(L(y)) - 1
    BY <2>1, <2>2, FS_RemoveElement
  <2>4. Cardinality(L(x)) <= Cardinality(L(y)) - 1
    BY <2>1, <2>3, FS_Subset
  <2> QED
    BY <2>2, <2>4
<1> HIDE DEF rank
<1>6. rank \in Bijection(K, 1..n)
  <2>1. \A x, y \in K : rank[x] = rank[y] => x = y
    <3>1. \A x \in K : rank[x] \in Nat
      BY <1>1, <1>4
    <3> QED
      BY <1>2, <1>5, <3>1
  <2>2. rank \in Injection(K, 1..n)
    BY <1>4, <2>1, Fun_IsInj
  <2>3. IsFiniteSet(1..n) /\ Cardinality(1..n) = n
    BY <1>1, FS_Interval
  <2>4. rank \in Surjection(K, 1..n)
    BY <2>2, <2>3, FS_Injection
  <2> QED
    BY <2>2, <2>4 DEF Bijection
<1> DEFINE t == [i \in 1..n |-> CHOOSE x \in K : rank[x] = i]
<1>7. \A i \in 1..n : t[i] \in K /\ rank[t[i]] = i
  <2>1. \A i \in 1..n : \E x \in K : rank[x] = i
    BY <1>6 DEF Bijection, Surjection
  <2> QED
    BY <2>1
<1>8. t \in [1..n -> K] /\ Sorted(t)
  <2>1. t \in [1..n -> K]
    BY <1>7
  <2> HIDE DEF t
  <2>2. ASSUME NEW i \in 1..n, NEW j \in 1..n, i < j PROVE Below(t[i], t[j])
    <3>1. t[i] # t[j]
      BY <1>7, <2>2
    <3>2. ~Below(t[j], t[i])
      <4> SUFFICES ASSUME Below(t[j], t[i]) PROVE FALSE
        OBVIOUS
      <4>1. j < i
        BY <1>5, <1>7
      <4> QED
        BY <2>2, <4>1
    <3> QED
      BY <1>2, <1>7, <3>1, <3>2
  <2> QED
    BY <2>1, <2>2
<1> DEFINE s == InOrder(K)
<1>9. s \in [1..n -> K] /\ Sorted(s)
  <2> HIDE DEF t, n, Sorted
  <2>1. s = CHOOSE q \in [1..n -> K] : Sorted(q)
    BY DEF InOrder, Sorted, n
  <2> QED
    BY <1>8, <2>1
<1> HIDE DEF s
<1>10. s \in Injection(1..n, K)
  <2>1. \A i, j \in 1..n : i # j => s[i] # s[j]
    <3> SUFFICES ASSUME NEW i \in 1..n, NEW j \in 1..n, i # j PROVE s[i] # s[j]
      OBVIOUS
    <3>1. s[i] \in K /\ s[j] \in K
      BY <1>9
    <3>2. Below(s[i], s[j]) \/ Below(s[j], s[i])
      BY <1>9
    <3> QED
      BY <1>2, <3>1, <3>2
  <2> QED
    BY <1>9, <2>1, Fun_IsInj
<1>11. s \in Surjection(1..n, K)
  <2>1. IsFiniteSet(1..n) /\ Cardinality(1..n) = n
    BY <1>1, FS_Interval
  <2> QED
    BY <1>10, <2>1, FS_Injection
<1>12. \A k \in K : \E i \in 1..n : s[i] = k
  BY <1>11 DEF Surjection
<1> QED
  BY <1>9, <1>12 DEF s

-----------------------------------------------------------------------------
(* Values as byte strings.                                                  *)

LEMMA BytesAreNaturals == Bytes \subseteq Nat /\ Seq(Bytes) \subseteq Seq(Nat)
<1>1. Bytes \subseteq Nat
  BY ValuesAssumption DEF Bytes
<1>2. ASSUME NEW s \in Seq(Bytes) PROVE s \in Seq(Nat)
  <2>1. Len(s) \in Nat /\ s = [i \in 1..Len(s) |-> s[i]] /\ \A i \in 1..Len(s) : s[i] \in Bytes
    OBVIOUS
  <2>2. \A i \in 1..Len(s) : s[i] \in Nat
    BY <1>1, <2>1
  <2> QED
    BY <2>1, <2>2
<1> QED
  BY <1>1, <1>2

(* Half of the integers are negative. *)
LEMMA IntRangeIsEven ==
  IntRange \in Nat \ {0} /\ IntRange \div 2 \in Nat /\ IntRange = 2 * (IntRange \div 2)
<1>1. PICK k \in Nat : IntBytes = k + 1
  <2>1. IntBytes - 1 \in Nat /\ IntBytes = (IntBytes - 1) + 1
    BY ValuesAssumption
  <2> QED
    BY <2>1
<1>2. IntRange = ByteBase * Power[k] /\ Power[k] \in Nat \ {0} /\ IntRange \in Nat \ {0}
  BY <1>1, PowerIs DEF IntRange
<1>3. PICK h \in Nat : ByteBase = 2 * h
  <2>1. ByteBase = 2 * (ByteBase \div 2) /\ ByteBase \div 2 \in Nat
    BY ValuesAssumption
  <2> QED
    BY <2>1
<1> DEFINE p == Power[k]
           n == IntRange
<1>4. p \in Nat /\ n \in Nat \ {0} /\ n = (2 * h) * p
  BY <1>2, <1>3
<1> HIDE DEF p, n
<1>5. n = 2 * (h * p) /\ h * p \in Nat
  BY <1>4
<1>6. n \div 2 = h * p
  BY <1>5
<1> QED
  BY <1>4, <1>5, <1>6 DEF n

(* An integer in range stays itself in its two's complement. *)
LEMMA SignedIs ==
  ASSUME NEW n \in Int, -IntRange <= 2 * n, 2 * n < IntRange
  PROVE  Signed(n) = n
<1> DEFINE r == IntRange
<1>1. r \in Nat \ {0} /\ -r <= 2 * n /\ 2 * n < r
  BY IntRangeIsEven
<1>2. Signed(n) = IF 2 * (n % r) >= r THEN (n % r) - r ELSE n % r
  BY DEF Signed
<1> HIDE DEF r
<1>3. CASE n >= 0
  <2>1. n \in 0..r-1 /\ n = r * 0 + n
    BY <1>1, <1>3
  <2>2. n % r = n
    BY <1>1, <2>1, Division
  <2> QED
    BY <1>1, <1>2, <2>2
<1>4. CASE n < 0
  <2>1. n + r \in 0..r-1 /\ n = r * (-1) + (n + r)
    BY <1>1, <1>4
  <2>2. n % r = n + r
    BY <1>1, <2>1, Division
  <2> QED
    BY <1>1, <1>2, <2>2
<1> QED
  BY <1>3, <1>4

(* What the scalars are. *)
LEMMA ScalarIs ==
  ASSUME NEW v \in Scalars
  PROVE  \/ /\ v.type = "i64" /\ v = I64(v.val) /\ v.val \in Int
            /\ -IntRange <= 2 * v.val /\ 2 * v.val < IntRange
         \/ v.type = "str" /\ v = Str(v.val) /\ v.val \in Seq(Bytes) /\ v.val \in Seq(Nat)
<1>1. CASE v = I64(v.val) /\ v.val \in Int /\ -IntRange <= 2 * v.val /\ 2 * v.val < IntRange
  <2>1. v.type = "i64"
    BY <1>1 DEF I64
  <2> QED
    BY <1>1, <2>1
<1>2. CASE v = Str(v.val) /\ v.val \in Seq(Bytes)
  <2>1. v.type = "str"
    BY <1>2 DEF Str
  <2> QED
    BY <1>2, <2>1, BytesAreNaturals
<1> QED
  BY <1>1, <1>2, LookupsAssumption

LEMMA PassedAsIs ==
  ASSUME NEW v \in Scalars
  PROVE  ToPyxValue(v) = v /\ v # Null
BY ScalarIs, SignedIs DEF ToPyxValue, Null

(* The integers are moved up by half of their range. *)
LEMMA MovedUp ==
  ASSUME NEW n \in Int, -IntRange <= 2 * n, 2 * n < IntRange
  PROVE  n + IntRange \div 2 \in Nat /\ n + IntRange \div 2 < Power[IntBytes]
<1> DEFINE r == IntRange
           h == IntRange \div 2
<1>1. r \in Nat \ {0} /\ h \in Nat /\ r = 2 * h /\ -r <= 2 * n /\ 2 * n < r /\ r = Power[IntBytes]
  BY IntRangeIsEven DEF IntRange
<1> HIDE DEF r, h
<1>2. n + h \in Nat /\ n + h < r
  BY <1>1
<1> QED
  BY <1>1, <1>2 DEF h

(* An encoded value is bytes, no fewer than those of its string. *)
LEMMA EncodedIs ==
  ASSUME NEW v \in Scalars
  PROVE  /\ EncodeValue(v) \in Seq(Bytes) /\ EncodeValue(v) \in Seq(Nat)
         /\ v.type = "str" => Len(v.val) <= Len(EncodeValue(v))
<1>1. CASE v.type = "i64"
  <2> DEFINE b == BigEndian(v.val + IntRange \div 2, IntBytes)
  <2>1. b \in Seq(Bytes)
    BY <1>1, ScalarIs, MovedUp, BigEndianIs, ValuesAssumption
  <2>2. Tag.i64 \in Bytes
    BY ValuesAssumption DEF Tag, Bytes
  <2> HIDE DEF b
  <2>3. <<Tag.i64>> \o b \in Seq(Bytes)
    BY <2>1, <2>2
  <2>4. EncodeValue(v) = <<Tag.i64>> \o b
    BY <1>1 DEF EncodeValue, b
  <2> QED
    BY <1>1, <2>3, <2>4, BytesAreNaturals
<1>2. CASE v.type = "str"
  <2> DEFINE b == WriteVarint(Len(v.val))
             t == <<Tag.str>>
  <2>1. v.val \in Seq(Bytes) /\ Len(v.val) \in Nat
    BY <1>2, ScalarIs
  <2>2. b \in Seq(Bytes)
    BY <2>1, VarintIs
  <2>3. t \in Seq(Bytes)
    BY ValuesAssumption DEF Tag, Bytes
  <2> HIDE DEF b, t
  <2>4. (t \o b) \o v.val \in Seq(Bytes) /\ Len((t \o b) \o v.val) = (Len(t) + Len(b)) + Len(v.val)
    BY <2>1, <2>2, <2>3
  <2>5. EncodeValue(v) = (t \o b) \o v.val
    BY <1>2 DEF EncodeValue, b, t
  <2>6. Len(t) \in Nat /\ Len(b) \in Nat
    BY <2>2, <2>3
  <2>7. EncodeValue(v) \in Seq(Bytes) /\ EncodeValue(v) \in Seq(Nat)
    BY <2>4, <2>5, BytesAreNaturals
  <2>8. Len(EncodeValue(v)) = (Len(t) + Len(b)) + Len(v.val)
    BY <2>4, <2>5
  <2>9. Len(v.val) <= Len(EncodeValue(v))
    <3>1. \A k, l, m \in Nat : m <= (k + l) + m
      OBVIOUS
    <3> QED
      BY <2>1, <2>6, <2>8, <3>1, Zenon
  <2> QED
    BY <2>7, <2>9
<1> QED
  BY <1>1, <1>2, ScalarIs

\* The length of a string fits a byte.
Short(v) == v.type = "str" => Len(v.val) < ByteBase

(* The encoded values are in the order of the values. *)
LEMMA ValueOrder ==
  ASSUME NEW v \in Scalars, NEW w \in Scalars, Short(v), Short(w), Less(v, w)
  PROVE  \E i : Parts(EncodeValue(v), EncodeValue(w), i)
<1>1. CASE v.type # w.type
  <2>1. v.type = "i64" /\ w.type = "str"
    BY <1>1, ScalarIs DEF Less
  <2> DEFINE b == BigEndian(v.val + IntRange \div 2, IntBytes)
             c == WriteVarint(Len(w.val))
             d == w.val
  <2>2. b \in Seq(Nat)
    BY <2>1, ScalarIs, MovedUp, BigEndianIs, ValuesAssumption, BytesAreNaturals
  <2>3. c \in Seq(Nat) /\ d \in Seq(Nat)
    <3>1. d \in Seq(Nat) /\ Len(d) \in Nat
      BY <2>1, ScalarIs
    <3> QED
      BY <3>1, VarintIs, BytesAreNaturals
  <2>4. EncodeValue(v) = <<3>> \o b /\ EncodeValue(w) = (<<5>> \o c) \o d
    BY <2>1 DEF EncodeValue, Tag
  <2> HIDE DEF b, c, d
  <2>5. Parts(<<3>>, <<5>>, 1)
    BY DEF Parts
  <2>6. Parts(<<3>> \o b, <<5>> \o (c \o d), 1)
    <3>1. <<3>> \in Seq(Nat) /\ <<5>> \in Seq(Nat) /\ c \o d \in Seq(Nat)
      BY <2>3
    <3> QED
      BY <2>2, <2>5, <3>1, PartsBefore
  <2>7. (<<5>> \o c) \o d = <<5>> \o (c \o d)
    BY <2>3, ConcatAssociative
  <2> QED
    BY <2>4, <2>6, <2>7
<1>2. CASE v.type = "i64" /\ w.type = "i64"
  <2> DEFINE m == v.val + IntRange \div 2
             n == w.val + IntRange \div 2
             b == BigEndian(m, IntBytes)
             c == BigEndian(n, IntBytes)
  <2>1. m \in Nat /\ n \in Nat /\ n < Power[IntBytes]
    BY <1>2, ScalarIs, MovedUp
  <2>2. m < n
    <3>1. v.val < w.val /\ v.val \in Int /\ w.val \in Int
      BY <1>2, ScalarIs DEF Less
    <3> QED
      BY <3>1, IntRangeIsEven
  <2>3. EncodeValue(v) = <<Tag.i64>> \o b /\ EncodeValue(w) = <<Tag.i64>> \o c
    BY <1>2 DEF EncodeValue
  <2> HIDE DEF m, n
  <2>4. b \in Seq(Nat) /\ c \in Seq(Nat)
    BY <2>1, BigEndianIs, ValuesAssumption, BytesAreNaturals
  <2>5. PICK i : Parts(b, c, i)
    BY <2>1, <2>2, BigEndianOrder, ValuesAssumption
  <2>6. <<Tag.i64>> \in Seq(Nat)
    BY DEF Tag
  <2> HIDE DEF b, c
  <2>7. Parts(<<Tag.i64>> \o b, <<Tag.i64>> \o c, Len(<<Tag.i64>>) + i)
    BY <2>4, <2>5, <2>6, PartsBehind
  <2> QED
    BY <2>3, <2>7
<1>3. CASE v.type = "str" /\ w.type = "str"
  <2> DEFINE b == WriteVarint(Len(v.val))
             c == WriteVarint(Len(w.val))
             t == <<Tag.str>>
             x == v.val
             y == w.val
  <2>1. x \in Seq(Nat) /\ y \in Seq(Nat) /\ Len(x) \in Nat /\ Len(y) \in Nat
    BY <1>3, ScalarIs
  <2>2. /\ b \in Seq(Nat) /\ b # << >> /\ b[1] = Len(x)
        /\ c \in Seq(Nat) /\ c # << >> /\ c[1] = Len(y)
    BY <1>3, <2>1, VarintIs, BytesAreNaturals DEF Short
  <2>3. t \in Seq(Nat)
    BY DEF Tag
  <2>4. EncodeValue(v) = (t \o b) \o x /\ EncodeValue(w) = (t \o c) \o y
    BY <1>3 DEF EncodeValue
  <2>5. Len(x) = Len(y) => b = c
    OBVIOUS
  <2>6. Len(x) < Len(y) \/ (Len(x) = Len(y) /\ Below(x, y))
    BY <1>3 DEF Less
  <2> HIDE DEF b, c, t, x, y
  <2>7. CASE Len(x) < Len(y)
    <3>1. Parts(b, c, 1)
      BY SMTT(30), <2>1, <2>2, <2>7 DEF Parts
    <3>2. Parts(t \o b, t \o c, Len(t) + 1) /\ t \o b \in Seq(Nat) /\ t \o c \in Seq(Nat)
      BY <2>2, <2>3, <3>1, PartsBehind, ConcatProperties
    <3>3. Parts((t \o b) \o x, (t \o c) \o y, Len(t) + 1)
      BY <2>1, <3>2, PartsBefore
    <3> QED
      BY <2>4, <3>3
  <2>8. CASE Len(x) = Len(y) /\ Below(x, y)
    <3>1. PICK i : Parts(x, y, i)
      BY <2>1, <2>8, BelowParts
    <3>2. t \o b \in Seq(Nat)
      BY <2>2, <2>3, ConcatProperties
    <3>3. Parts((t \o b) \o x, (t \o b) \o y, Len(t \o b) + i)
      BY <2>1, <3>1, <3>2, PartsBehind
    <3> QED
      BY <2>4, <2>5, <2>8, <3>3
  <2> QED
    BY <2>6, <2>7, <2>8
<1> QED
  BY <1>1, <1>2, <1>3, ScalarIs

(* Of two values one is less, and not the other. *)
LEMMA LessIsTotal ==
  ASSUME NEW v \in Scalars, NEW w \in Scalars
  PROVE  /\ v # w => Less(v, w) \/ Less(w, v)
         /\ Less(v, w) => v # w /\ ~Less(w, v)
<1>1. CASE v.type # w.type
  BY <1>1, ScalarIs DEF Less
<1>2. CASE v.type = "i64" /\ w.type = "i64"
  <2>1. v = I64(v.val) /\ w = I64(w.val) /\ v.val \in Int /\ w.val \in Int
    BY <1>2, ScalarIs
  <2>2. v.val = w.val => v = w
    BY <2>1
  <2> QED
    BY <1>2, <2>1, <2>2 DEF Less
<1>3. CASE v.type = "str" /\ w.type = "str"
  <2> DEFINE x == v.val
             y == w.val
  <2>1. v = Str(x) /\ w = Str(y) /\ x \in Seq(Nat) /\ y \in Seq(Nat)
    BY <1>3, ScalarIs
  <2>2. x = y <=> v = w
    BY <2>1
  <2>3. /\ Less(v, w) <=> Len(x) < Len(y) \/ (Len(x) = Len(y) /\ Below(x, y))
        /\ Less(w, v) <=> Len(y) < Len(x) \/ (Len(y) = Len(x) /\ Below(y, x))
    BY <1>3 DEF Less
  <2> HIDE DEF x, y
  <2>4. Len(x) \in Nat /\ Len(y) \in Nat
    BY <2>1
  <2>5. CASE Len(x) = Len(y)
    <3>1. x # y => Below(x, y) \/ Below(y, x)
      BY <2>1, <2>5, SameLengthParts, PartsBelow
    <3>2. Below(x, y) => x # y /\ ~Below(y, x)
      BY <2>1, <2>5, BelowParts, PartsBelow
    <3> QED
      BY <2>2, <2>3, <2>4, <2>5, <3>1, <3>2
  <2>6. CASE Len(x) # Len(y)
    BY <2>2, <2>3, <2>4, <2>6
  <2> QED
    BY <2>5, <2>6
<1> QED
  BY <1>1, <1>2, <1>3, ScalarIs

(* The encodings of several values, one after the other. *)
LEMMA FlatLonger ==
  ASSUME NEW ss \in Seq(Seq(Nat)), ss # << >>
  PROVE  /\ FlattenSeq(ss) \in Seq(Nat)
         /\ \A j \in 1..Len(ss) : Len(ss[j]) <= Len(FlattenSeq(ss))
         /\ Len(ss) = 1 => FlattenSeq(ss) = ss[1]
<1>1. Len(ss) \in Nat /\ Len(ss) >= 1 /\ \A i \in 1..Len(ss) : ss[i] \in Seq(Nat)
  OBVIOUS
<1>2. PICK f : /\ f = FlatStep(f, ss) /\ FlattenSeq(ss) = f[Len(ss)]
               /\ \A i \in 1..Len(ss) : f[i] \in Seq(Nat)
  BY FlatRecursion
<1>3. \A i \in 1..Len(ss) : f[i] = IF i = 1 THEN ss[i] ELSE f[i-1] \o ss[i]
  BY <1>2 DEF FlatStep
<1> DEFINE T == {n \in Nat : n + 1 <= Len(ss) => \A j \in 1..n+1 : Len(ss[j]) <= Len(f[n+1])}
<1>4. 0 \in T
  <2>1. f[1] = ss[1] /\ Len(ss[1]) \in Nat
    BY <1>1, <1>3
  <2> QED
    BY <2>1
<1>5. ASSUME NEW n \in T PROVE n + 1 \in T
  <2> SUFFICES ASSUME (n + 1) + 1 <= Len(ss), NEW j \in 1..(n+1)+1
               PROVE  Len(ss[j]) <= Len(f[(n+1)+1])
    OBVIOUS
  <2>1. n + 1 \in 1..Len(ss) /\ (n + 1) + 1 \in 1..Len(ss) /\ (n + 1) + 1 # 1 /\ ((n + 1) + 1) - 1 = n + 1
        /\ j \in 1..Len(ss) /\ n \in Nat
    BY <1>1
  <2>2. f[(n+1)+1] = f[n+1] \o ss[(n+1)+1]
    BY <1>3, <2>1
  <2>3. f[n+1] \in Seq(Nat) /\ ss[(n+1)+1] \in Seq(Nat) /\ ss[j] \in Seq(Nat)
    BY <1>1, <1>2, <2>1
  <2>4. Len(f[(n+1)+1]) = Len(f[n+1]) + Len(ss[(n+1)+1])
    BY <2>2, <2>3, ConcatProperties
  <2>5. Len(f[n+1]) \in Nat /\ Len(ss[(n+1)+1]) \in Nat /\ Len(ss[j]) \in Nat
    BY SMTT(30), <2>3
  <2>8. \A a, b, c \in Nat : (a <= b => a <= b + c) /\ c <= b + c
    OBVIOUS
  <2>6. CASE j \in 1..n+1
    <3>1. Len(ss[j]) <= Len(f[n+1])
      BY <2>1, <2>6
    <3> QED
      BY <2>4, <2>5, <2>8, <3>1, Zenon
  <2>7. CASE j \notin 1..n+1
    <3>1. j = (n + 1) + 1
      BY <2>1, <2>7
    <3> QED
      BY <2>4, <2>5, <2>8, <3>1, Zenon
  <2> QED
    BY <2>6, <2>7
<1>6. T = Nat
  <2>1. T \in SUBSET Nat
    OBVIOUS
  <2> HIDE DEF T
  <2> QED
    BY <1>4, <1>5, <2>1, Induction
<1>7. \A j \in 1..Len(ss) : Len(ss[j]) <= Len(f[Len(ss)])
  <2>1. Len(ss) - 1 \in T /\ (Len(ss) - 1) + 1 = Len(ss)
    <3> HIDE DEF T
    <3> QED
      BY <1>1, <1>6
  <2> QED
    BY <2>1
<1>8. Len(ss) = 1 => f[Len(ss)] = ss[1]
  BY <1>1, <1>3
<1>9. f[Len(ss)] \in Seq(Nat)
  BY <1>1, <1>2
<1> QED
  BY <1>2, <1>7, <1>8, <1>9

(* Where the first different parts of two sequences part, the whole does. *)
LEMMA FlatParts ==
  ASSUME NEW ss \in Seq(Seq(Nat)), NEW tt \in Seq(Seq(Nat)), ss # << >>, Len(tt) = Len(ss),
         NEW l \in 1..Len(ss), \A j \in 1..l-1 : ss[j] = tt[j],
         NEW i, Parts(ss[l], tt[l], i)
  PROVE  \E k : Parts(FlattenSeq(ss), FlattenSeq(tt), k)
<1>1. /\ Len(ss) \in Nat /\ Len(ss) >= 1 /\ l \in Nat /\ l >= 1 /\ l <= Len(ss)
      /\ \A j \in 1..Len(ss) : ss[j] \in Seq(Nat) /\ tt[j] \in Seq(Nat)
  OBVIOUS
<1>2. PICK f : /\ f = FlatStep(f, ss) /\ FlattenSeq(ss) = f[Len(ss)]
               /\ \A j \in 1..Len(ss) : f[j] \in Seq(Nat)
  BY FlatRecursion
<1>3. PICK g : /\ g = FlatStep(g, tt) /\ FlattenSeq(tt) = g[Len(tt)]
               /\ \A j \in 1..Len(tt) : g[j] \in Seq(Nat)
  <2>1. tt # << >>
    BY <1>1
  <2> QED
    BY <2>1, FlatRecursion
<1>4. \A j \in 1..Len(ss) : /\ f[j] = IF j = 1 THEN ss[j] ELSE f[j-1] \o ss[j]
                            /\ g[j] = IF j = 1 THEN tt[j] ELSE g[j-1] \o tt[j]
  BY <1>2, <1>3 DEF FlatStep
<1> DEFINE E == {n \in Nat : n \in 1..l-1 => f[n] = g[n]}
<1>5. E = Nat
  <2>1. 0 \in E
    OBVIOUS
  <2>2. ASSUME NEW n \in E PROVE n + 1 \in E
    <3> SUFFICES ASSUME n + 1 \in 1..l-1 PROVE f[n+1] = g[n+1]
      BY SMTT(30)
    <3>1. n \in Nat /\ n + 1 \in 1..Len(ss) /\ (n + 1) - 1 = n /\ ss[n+1] = tt[n+1]
      BY <1>1
    <3>2. CASE n = 0
      BY <1>4, <3>1, <3>2
    <3>3. CASE n # 0
      <4>1. n \in 1..l-1 /\ n + 1 # 1
        BY <1>1, <3>1, <3>3
      <4>2. f[n] = g[n]
        BY <4>1
      <4> QED
        BY <1>4, <3>1, <4>1, <4>2
    <3> QED
      BY <3>2, <3>3
  <2>3. E \in SUBSET Nat
    OBVIOUS
  <2> HIDE DEF E
  <2> QED
    BY <2>1, <2>2, <2>3, Induction
<1>6. \E k : Parts(f[l], g[l], k)
  <2>1. CASE l = 1
    BY <1>4, <2>1
  <2>2. CASE l # 1
    <3>1. l - 1 \in 1..l-1 /\ l - 1 \in 1..Len(ss) /\ l - 1 \in Nat
      BY <1>1, <2>2
    <3>2. f[l-1] = g[l-1] /\ f[l-1] \in Seq(Nat)
      BY <1>2, <1>5, <3>1
    <3>3. f[l] = f[l-1] \o ss[l] /\ g[l] = f[l-1] \o tt[l]
      BY <1>4, <2>2, <3>2
    <3>4. Parts(f[l-1] \o ss[l], f[l-1] \o tt[l], Len(f[l-1]) + i)
      BY <1>1, <3>2, PartsBehind
    <3> QED
      BY <3>3, <3>4
  <2> QED
    BY <2>1, <2>2
<1>7. PICK k : Parts(f[l], g[l], k)
  BY <1>6
<1> DEFINE T == {n \in Nat : l + n <= Len(ss) => Parts(f[l+n], g[l+n], k)}
<1>8. 0 \in T
  <2>1. l + 0 = l
    BY <1>1
  <2> QED
    BY <1>7, <2>1
<1>9. ASSUME NEW n \in T PROVE n + 1 \in T
  <2> SUFFICES ASSUME l + (n + 1) <= Len(ss) PROVE Parts(f[l+(n+1)], g[l+(n+1)], k)
    OBVIOUS
  <2> DEFINE m == l + n
  <2>1. /\ n \in Nat /\ m \in 1..Len(ss) /\ l + (n + 1) = m + 1 /\ m + 1 \in 1..Len(ss)
        /\ m + 1 # 1 /\ (m + 1) - 1 = m
    BY <1>1
  <2>2. Parts(f[m], g[m], k)
    BY <1>1, <2>1
  <2> HIDE DEF m
  <2>3. f[m+1] = f[m] \o ss[m+1] /\ g[m+1] = g[m] \o tt[m+1]
    BY <1>4, <2>1
  <2>4. f[m] \in Seq(Nat) /\ g[m] \in Seq(Nat) /\ ss[m+1] \in Seq(Nat) /\ tt[m+1] \in Seq(Nat)
    BY <1>1, <1>2, <1>3, <2>1
  <2>5. Parts(f[m+1], g[m+1], k)
    BY <2>2, <2>3, <2>4, PartsBefore
  <2> QED
    BY <2>1, <2>5
<1>10. T = Nat
  <2>1. T \in SUBSET Nat
    OBVIOUS
  <2> HIDE DEF T
  <2> QED
    BY <1>8, <1>9, <2>1, Induction
<1>11. Parts(f[Len(ss)], g[Len(ss)], k)
  <2>1. Len(ss) - l \in T /\ l + (Len(ss) - l) = Len(ss)
    <3> HIDE DEF T
    <3> QED
      BY <1>1, <1>10
  <2> QED
    BY <2>1
<1> QED
  BY <1>2, <1>3, <1>11

(* The encoding of an index's values. *)
LEMMA ValuesEncoded ==
  ASSUME NEW n \in Nat \ {0}, NEW vals \in [1..n -> Scalars]
  PROVE  /\ EncodeValues(vals) \in Seq(Nat)
         /\ \A i \in 1..n : vals[i].type = "str" => Len(vals[i].val) <= Len(EncodeValues(vals))
         /\ n = 1 => EncodeValues(vals) = EncodeValue(vals[1])
<1> DEFINE ss == [i \in 1..n |-> EncodeValue(vals[i])]
<1>1. DOMAIN vals = 1..n /\ EncodeValues(vals) = FlattenSeq(ss)
  BY DEF EncodeValues
<1>2. \A i \in 1..n : EncodeValue(vals[i]) \in Seq(Nat)
  BY EncodedIs
<1>3. ss \in Seq(Seq(Nat)) /\ Len(ss) = n /\ ss # << >>
  <2>1. ss \in Seq(Seq(Nat)) /\ Len(ss) = n
    BY <1>2
  <2> HIDE DEF ss
  <2> QED
    BY <2>1
<1>4. \A i \in 1..n : ss[i] = EncodeValue(vals[i])
  OBVIOUS
<1> HIDE DEF ss
<1>5. /\ FlattenSeq(ss) \in Seq(Nat)
      /\ \A j \in 1..n : Len(ss[j]) <= Len(FlattenSeq(ss))
      /\ n = 1 => FlattenSeq(ss) = ss[1]
  BY <1>3, FlatLonger
<1>6. ASSUME NEW i \in 1..n, vals[i].type = "str"
      PROVE  Len(vals[i].val) <= Len(EncodeValues(vals))
  <2>1. Len(vals[i].val) <= Len(ss[i]) /\ Len(vals[i].val) \in Nat /\ Len(ss[i]) \in Nat
    BY <1>2, <1>4, <1>6, EncodedIs, ScalarIs
  <2>2. Len(FlattenSeq(ss)) \in Nat
    BY <1>5
  <2>3. Len(ss[i]) <= Len(FlattenSeq(ss))
    BY <1>5
  <2>4. \A a, b, c \in Nat : a <= b /\ b <= c => a <= c
    OBVIOUS
  <2> QED
    BY <1>1, <2>1, <2>2, <2>3, <2>4, Zenon
<1>7. n = 1 => EncodeValues(vals) = EncodeValue(vals[1])
  BY <1>1, <1>4, <1>5
<1> QED
  BY <1>1, <1>5, <1>6, <1>7

(* Different values have encodings that part. *)
LEMMA ValuesPart ==
  ASSUME NEW n \in Nat \ {0}, NEW vals \in [1..n -> Scalars], NEW others \in [1..n -> Scalars],
         vals # others, \A i \in 1..n : Short(vals[i]) /\ Short(others[i])
  PROVE  \E k : \/ Parts(EncodeValues(vals), EncodeValues(others), k)
                \/ Parts(EncodeValues(others), EncodeValues(vals), k)
<1> DEFINE ss == [i \in 1..n |-> EncodeValue(vals[i])]
           tt == [i \in 1..n |-> EncodeValue(others[i])]
           D == {i \in 1..n : vals[i] # others[i]}
<1>1. EncodeValues(vals) = FlattenSeq(ss) /\ EncodeValues(others) = FlattenSeq(tt)
  <2>1. DOMAIN vals = 1..n /\ DOMAIN others = 1..n
    OBVIOUS
  <2> QED
    BY <2>1 DEF EncodeValues
<1>2. \A i \in 1..n : EncodeValue(vals[i]) \in Seq(Nat) /\ EncodeValue(others[i]) \in Seq(Nat)
  BY EncodedIs
<1>3. /\ ss \in Seq(Seq(Nat)) /\ Len(ss) = n /\ ss # << >>
      /\ tt \in Seq(Seq(Nat)) /\ Len(tt) = n /\ tt # << >>
  <2>1. ss \in Seq(Seq(Nat)) /\ Len(ss) = n /\ tt \in Seq(Seq(Nat)) /\ Len(tt) = n
    BY <1>2
  <2> HIDE DEF ss, tt
  <2> QED
    BY <2>1
<1>4. D # {} /\ D \in SUBSET Nat
  <2>1. vals = [i \in 1..n |-> vals[i]] /\ others = [i \in 1..n |-> others[i]]
    OBVIOUS
  <2>2. D \in SUBSET Nat
    OBVIOUS
  <2>3. ASSUME \A i \in 1..n : vals[i] = others[i] PROVE FALSE
    <3>1. [i \in 1..n |-> vals[i]] = [i \in 1..n |-> others[i]]
      BY <2>3
    <3> QED
      BY <2>1, <3>1
  <2>4. D # {}
    BY <2>3
  <2> QED
    BY <2>2, <2>4
<1>5. PICK l \in D : \A i \in D : l <= i
  <2> HIDE DEF D
  <2> QED
    BY <1>4, LeastNatural
<1>6. l \in 1..n /\ vals[l] # others[l]
  OBVIOUS
<1>7. \A j \in 1..l-1 : vals[j] = others[j]
  <2> SUFFICES ASSUME NEW j \in 1..l-1, vals[j] # others[j] PROVE FALSE
    OBVIOUS
  <2>1. j \in 1..n /\ j < l
    BY <1>6
  <2>2. j \in D
    BY <2>1
  <2> QED
    BY <1>5, <1>6, <2>1, <2>2
<1>8. \A i \in 1..n : ss[i] = EncodeValue(vals[i]) /\ tt[i] = EncodeValue(others[i])
  OBVIOUS
<1> HIDE DEF ss, tt, D
<1>9. \A j \in 1..l-1 : ss[j] = tt[j]
  <2>1. \A j \in 1..l-1 : j \in 1..n
    BY <1>6
  <2> QED
    BY <1>7, <1>8, <2>1
<1>10. PICK i : Parts(ss[l], tt[l], i) \/ Parts(tt[l], ss[l], i)
  BY <1>6, <1>8, LessIsTotal, ValueOrder
<1>11. CASE Parts(ss[l], tt[l], i)
  BY <1>1, <1>3, <1>6, <1>9, <1>11, FlatParts
<1>12. CASE Parts(tt[l], ss[l], i)
  <2>1. \A j \in 1..l-1 : tt[j] = ss[j]
    BY <1>9
  <2> QED
    BY <1>1, <1>3, <1>6, <1>12, <2>1, FlatParts
<1> QED
  BY <1>10, <1>11, <1>12

-----------------------------------------------------------------------------
(* The keys of an index.                                                    *)

\* The key of a document.
KeyOf(s, def, id) == EncodeValues(FieldValues(s.was[id], def)) \o BigEndian(id, IdBytes)

(* Values that are looked up are short. *)
LEMMA IndexableIs ==
  ASSUME NEW n \in Nat \ {0}, NEW vals \in [1..n -> Scalars], Indexable(vals)
  PROVE  /\ \A i \in 1..n : Short(vals[i])
         /\ EncodeValues(vals) \in Seq(Nat)
<1>1. EncodeValues(vals) \in Seq(Nat) /\ Len(EncodeValues(vals)) \in Nat
  BY ValuesEncoded
<1>2. Len(EncodeValues(vals)) < ByteBase
  <2> DEFINE l == Len(EncodeValues(vals))
  <2>1. l + IdBytes <= MaxKey /\ l \in Nat
    BY <1>1 DEF Indexable
  <2> HIDE DEF l
  <2>2. l < ByteBase
    BY <2>1, KeysAssumption, ValuesAssumption
  <2> QED
    BY <2>2 DEF l
<1>3. ASSUME NEW i \in 1..n, vals[i].type = "str" PROVE Len(vals[i].val) < ByteBase
  <2>1. Len(vals[i].val) <= Len(EncodeValues(vals))
    BY <1>3, ValuesEncoded
  <2>2. Len(vals[i].val) \in Nat /\ ByteBase \in Nat
    BY <1>3, ScalarIs, ValuesAssumption
  <2>3. \A a, b, c \in Nat : a <= b /\ b < c => a < c
    OBVIOUS
  <2> QED
    BY <1>1, <1>2, <2>1, <2>2, <2>3, Zenon
<1> QED
  BY <1>1, <1>3 DEF Short

(* The fields of an index. *)
LEMMA FieldsOf ==
  ASSUME NEW def \in Defs, NEW d
  PROVE  /\ Len(def) \in Nat \ {0} /\ DOMAIN def = 1..Len(def)
         /\ DOMAIN FieldValues(d, def) = 1..Len(def)
         /\ d \in Docs /\ (\A i \in 1..Len(def) : Supported(FieldValues(d, def)[i]))
              => FieldValues(d, def) \in [1..Len(def) -> Scalars]
<1>1. def \in Seq(Range(def)) /\ def # << >>
  BY LookupsAssumption
<1>2. Len(def) \in Nat \ {0} /\ DOMAIN def = 1..Len(def)
  BY <1>1
<1>3. FieldValues(d, def) = [i \in 1..Len(def) |-> Entry(d, def[i])]
  BY <1>2 DEF FieldValues
<1>4. ASSUME d \in Docs, NEW i \in 1..Len(def), Supported(FieldValues(d, def)[i])
      PROVE  FieldValues(d, def)[i] \in Scalars
  <2>1. FieldValues(d, def)[i] = Entry(d, def[i])
    BY <1>3
  <2>2. def[i] \in Range(def)
    BY <1>1
  <2>3. def[i] \in UNION {Range(e) : e \in Defs}
    BY <2>2
  <2> QED
    BY <1>4, <2>1, <2>3 DEF Scalars
<1> QED
  BY <1>2, <1>3, <1>4

(* The documents that an index holds, and their keys. *)
LEMMA KeysAre ==
  ASSUME NEW last \in 0..MaxDocs, NEW s, Good(s, last), NEW def \in s.registry \ s.stale
  PROVE  /\ def \in Defs
         /\ Holders(s, def) \subseteq 1..last /\ Holders(s, def) \subseteq Nat
         /\ \A id \in Holders(s, def) :
               /\ FieldValues(s.was[id], def) \in [1..Len(def) -> Scalars]
               /\ Indexable(FieldValues(s.was[id], def))
         /\ KeysOf(s.entries, def) = {KeyOf(s, def, id) : id \in Holders(s, def)}
<1>1. def \in Defs
  BY DEF Good, Sound
<1>2. Holders(s, def) \subseteq 1..last /\ last \in Nat /\ 1..last \subseteq Ids
  BY CollectionAssumption DEF Good, Sound, Holders, Ids
<1>3. \A id \in DOMAIN s.docs : s.was[id] \in Docs /\ s.docs[id] = EncodeDoc(s.was[id]) /\ id \in Ids
  BY CollectionAssumption DEF Good, Sound, Ids
<1>4. DOMAIN s.was = DOMAIN s.docs
  BY DEF Good, Sound
<1>5. Own(s.entries, def) = UNION {EntriesFor(def, id, s.docs[id]) : id \in DOMAIN s.docs}
  BY <1>1 DEF Good, ExactFor, Called
<1>6. ASSUME NEW id \in DOMAIN s.docs
      PROVE  /\ id \in Holders(s, def) =>
                  /\ FieldValues(s.was[id], def) \in [1..Len(def) -> Scalars]
                  /\ Indexable(FieldValues(s.was[id], def))
                  /\ EntriesFor(def, id, s.docs[id]) = {<<def, KeyOf(s, def, id)>>}
             /\ id \notin Holders(s, def) => EntriesFor(def, id, s.docs[id]) = {}
  <2> DEFINE d == s.was[id]
             vals == FieldValues(d, def)
             key == EncodeValues(vals) \o BigEndian(id, IdBytes)
             All == \A i \in 1..Len(def) : Supported(vals[i])
  <2>1. d \in Docs /\ id \in Ids /\ s.docs[id] = EncodeDoc(d) /\ DecodeDoc(EncodeDoc(d)) = d
    BY <1>3, DocsAssumption
  <2>2. EntriesFor(def, id, s.docs[id]) = IndexEntries(def, id, d)
    BY <1>1, <2>1, LookupsAssumption
  <2>3. DOMAIN vals = 1..Len(def)
    BY <1>1, FieldsOf
  <2>4. IndexEntries(def, id, d) = IF All /\ Len(key) <= MaxKey THEN {<<def, key>>} ELSE {}
    BY <2>3 DEF IndexEntries
  <2>5. id \in Holders(s, def) <=> All /\ Len(EncodeValues(vals)) + IdBytes <= MaxKey
    BY <1>4, <2>3 DEF Holders, Indexable
  <2>6. All => vals \in [1..Len(def) -> Scalars]
    BY <1>1, <2>1, FieldsOf
  <2>7. All => Len(key) = Len(EncodeValues(vals)) + IdBytes
    <3> SUFFICES ASSUME All PROVE Len(key) = Len(EncodeValues(vals)) + IdBytes
      OBVIOUS
    <3>1. EncodeValues(vals) \in Seq(Nat)
      <4>1. Len(def) \in Nat \ {0} /\ vals \in [1..Len(def) -> Scalars]
        BY <1>1, <2>6, FieldsOf
      <4> HIDE DEF vals
      <4> QED
        BY <4>1, ValuesEncoded
    <3>2. BigEndian(id, IdBytes) \in Seq(Nat) /\ Len(BigEndian(id, IdBytes)) = IdBytes
      <4>1. id \in Nat /\ IdBytes \in Nat
        BY <2>1, KeysAssumption DEF Ids
      <4> QED
        BY <4>1, BigEndianIs, BytesAreNaturals
    <3> QED
      BY ZenonT(40), <3>1, <3>2, ConcatProperties
  <2>8. KeyOf(s, def, id) = key
    BY DEF KeyOf
  <2>9. Indexable(vals) <=> All /\ Len(EncodeValues(vals)) + IdBytes <= MaxKey
    BY <2>3 DEF Indexable
  <2> HIDE DEF d, vals, key, All
  <2> QED
    BY <2>2, <2>4, <2>5, <2>6, <2>7, <2>8, <2>9 DEF vals, d
<1>7. ASSUME NEW k PROVE k \in KeysOf(s.entries, def) <=> \E id \in Holders(s, def) : k = KeyOf(s, def, id)
  <2>1. k \in KeysOf(s.entries, def) <=> \E e \in Own(s.entries, def) : k = e[2]
    BY DEF KeysOf, Own
  <2>2. ASSUME NEW e PROVE e \in Own(s.entries, def) <=> \E id \in Holders(s, def) : e = <<def, KeyOf(s, def, id)>>
    <3>1. e \in Own(s.entries, def) <=> \E id \in DOMAIN s.docs : e \in EntriesFor(def, id, s.docs[id])
      BY <1>5
    <3>2. Holders(s, def) \subseteq DOMAIN s.docs
      BY <1>4 DEF Holders
    <3> QED
      BY <1>6, <3>1, <3>2
  <2>3. ASSUME NEW e \in Own(s.entries, def), k = e[2]
        PROVE  \E id \in Holders(s, def) : k = KeyOf(s, def, id)
    <3>1. PICK id \in Holders(s, def) : e = <<def, KeyOf(s, def, id)>>
      BY <2>2
    <3>2. k = KeyOf(s, def, id)
      BY <2>3, <3>1
    <3> QED
      BY <3>2
  <2>4. ASSUME NEW id \in Holders(s, def), k = KeyOf(s, def, id)
        PROVE  \E e \in Own(s.entries, def) : k = e[2]
    <3> DEFINE e == <<def, k>>
    <3>1. e[2] = k
      OBVIOUS
    <3> HIDE DEF e
    <3>2. e \in Own(s.entries, def)
      BY <2>2, <2>4 DEF e
    <3> QED
      BY <3>1, <3>2
  <2> QED
    BY <2>1, <2>3, <2>4
<1>8. KeysOf(s.entries, def) = {KeyOf(s, def, id) : id \in Holders(s, def)}
  BY <1>7
<1>9. \A id \in Holders(s, def) : id \in DOMAIN s.docs
  BY <1>4 DEF Holders
<1> QED
  BY <1>1, <1>2, <1>6, <1>8, <1>9

(* The id at the end of a key is read back. *)
LEMMA IdIsReadBack ==
  ASSUME NEW p \in Seq(Nat), NEW id \in Nat, id <= MaxDocs
  PROVE  /\ IdOf(p \o BigEndian(id, IdBytes)) = id
         /\ BigEndian(id, IdBytes) \in Seq(Nat) /\ Len(BigEndian(id, IdBytes)) = IdBytes
         /\ Len(p \o BigEndian(id, IdBytes)) = Len(p) + IdBytes
<1> DEFINE b == BigEndian(id, IdBytes)
<1>1. IdBytes \in Nat \ {0} /\ id < Power[IdBytes]
  <2>1. IdBytes \in Nat \ {0} /\ Power[IdBytes] \in Nat
    BY KeysAssumption, PowerIs
  <2>2. MaxDocs \in Nat /\ MaxDocs < Power[IdBytes] - 1
    BY CollectionAssumption, LookupsAssumption
  <2> QED
    BY <2>1, <2>2
<1>2. b \in Seq(Nat) /\ Len(b) = IdBytes /\ Reverse(b) = LittleEndian(id, IdBytes)
  <2>1. b \in Seq(Bytes) /\ Len(b) = IdBytes /\ Reverse(b) = LittleEndian(id, IdBytes)
    BY <1>1, BigEndianIs
  <2> HIDE DEF b
  <2> QED
    BY <2>1, BytesAreNaturals
<1> HIDE DEF b
<1>3. Len(p \o b) = Len(p) + IdBytes /\ Len(p) \in Nat /\ p \o b \in Seq(Nat)
  <2>1. Len(p \o b) = Len(p) + Len(b) /\ p \o b \in Seq(Nat)
    BY <1>2, ConcatProperties
  <2>2. Len(p) \in Nat
    OBVIOUS
  <2> QED
    BY <1>2, <2>1, <2>2
<1>4. SubSeq(p \o b, Len(p \o b) - IdBytes + 1, Len(p \o b)) = b
  <2>1. Len(p \o b) - IdBytes + 1 = Len(p) + 1
    <3> DEFINE l == Len(p)
               m == Len(p \o b)
    <3>1. l \in Nat /\ m = l + IdBytes /\ IdBytes \in Nat
      BY <1>1, <1>3
    <3> HIDE DEF l, m
    <3>2. m - IdBytes + 1 = l + 1
      BY <3>1
    <3> QED
      BY <3>2 DEF l, m
  <2>2. SubSeq(p \o b, Len(p) + 1, Len(p) + IdBytes) = SubSeq(b, (Len(p) + 1) - Len(p), (Len(p) + IdBytes) - Len(p))
    <3>1. /\ Len(p) + 1 \in Len(p)+1 .. Len(p)+Len(b)
          /\ Len(p) + IdBytes \in Len(p)+1 .. Len(p)+Len(b)
      BY <1>1, <1>2, <1>3
    <3> QED
      BY ZenonT(40), <1>2, <3>1, SubSeqOfConcat2
  <2>3. (Len(p) + 1) - Len(p) = 1 /\ (Len(p) + IdBytes) - Len(p) = Len(b)
    BY <1>1, <1>2, <1>3
  <2>4. SubSeq(b, 1, Len(b)) = b
    BY <1>2
  <2> QED
    BY <1>3, <2>1, <2>2, <2>3, <2>4
<1>5. IdOf(p \o b) = FromLittleEndian(Reverse(b))
  BY <1>4 DEF IdOf
<1>6. FromLittleEndian(LittleEndian(id, IdBytes)) = id
  BY <1>1, NumberIsReadBack
<1> QED
  BY <1>2, <1>3, <1>5, <1>6 DEF b

(* A string begins with its own beginning. *)
LEMMA BeginsWith ==
  ASSUME NEW p \in Seq(Nat), NEW x \in Seq(Nat)
  PROVE  IsPrefix(p, p \o x)
<1>1. Len(p \o x) = Len(p) + Len(x) /\ Len(p) \in Nat /\ Len(x) \in Nat
  BY ConcatProperties
<1>2. SubSeq(p, 1, Len(p)) = p
  OBVIOUS
<1>3. SubSeq(p \o x, 1, Len(p)) = p
  <2>1. CASE p = << >>
    BY <2>1
  <2>2. CASE p # << >>
    <3>1. 1 \in 1..Len(p) /\ Len(p) \in 1..Len(p)
      BY <2>2
    <3>2. SubSeq(p \o x, 1, Len(p)) = SubSeq(p, 1, Len(p))
      BY <3>1, SubSeqOfConcat1
    <3> QED
      BY <1>2, <3>2
  <2> QED
    BY <2>1, <2>2
<1> QED
  BY <1>1, <1>2, <1>3 DEF IsPrefix

(* Ids fit their bytes. *)
LEMMA IdsFit ==
  ASSUME NEW id \in Nat, id <= MaxDocs
  PROVE  id + 1 \in Nat /\ id + 1 < Power[IdBytes] /\ id < Power[IdBytes] /\ IdBytes \in Nat \ {0}
<1>1. IdBytes \in Nat \ {0} /\ Power[IdBytes] \in Nat
  BY KeysAssumption, PowerIs
<1>2. MaxDocs \in Nat /\ MaxDocs < Power[IdBytes] - 1
  BY CollectionAssumption, LookupsAssumption
<1> QED
  BY <1>1, <1>2

(* The documents of an index as they are in its keys. *)
LEMMA HolderIs ==
  ASSUME NEW last \in 0..MaxDocs, NEW s, Good(s, last), NEW def \in s.registry \ s.stale,
         NEW id \in Holders(s, def)
  PROVE  /\ id \in Nat /\ id <= MaxDocs
         /\ Len(def) \in Nat \ {0}
         /\ FieldValues(s.was[id], def) \in [1..Len(def) -> Scalars]
         /\ \A i \in 1..Len(def) : Short(FieldValues(s.was[id], def)[i])
         /\ EncodeValues(FieldValues(s.was[id], def)) \in Seq(Nat)
         /\ BigEndian(id, IdBytes) \in Seq(Nat)
         /\ KeyOf(s, def, id) \in Seq(Nat)
<1>1. /\ def \in Defs /\ id \in 1..last
      /\ FieldValues(s.was[id], def) \in [1..Len(def) -> Scalars]
      /\ Indexable(FieldValues(s.was[id], def))
  BY KeysAre
<1>2. id \in Nat /\ id <= MaxDocs
  BY <1>1, CollectionAssumption
<1>3. Len(def) \in Nat \ {0}
  BY <1>1, FieldsOf
<1>4. /\ \A i \in 1..Len(def) : Short(FieldValues(s.was[id], def)[i])
      /\ EncodeValues(FieldValues(s.was[id], def)) \in Seq(Nat)
  BY <1>1, <1>3, IndexableIs
<1>5. BigEndian(id, IdBytes) \in Seq(Nat)
  BY <1>2, <1>4, IdIsReadBack
<1>6. KeyOf(s, def, id) \in Seq(Nat)
  BY <1>4, <1>5, ConcatProperties DEF KeyOf
<1> QED
  BY <1>1, <1>2, <1>3, <1>4, <1>5, <1>6

(* Of two documents with the same values the lower id has the lower key; the *)
(* keys of different values part where the values do.                        *)
LEMMA KeysPart ==
  ASSUME NEW last \in 0..MaxDocs, NEW s, Good(s, last), NEW def \in s.registry \ s.stale,
         NEW i \in Holders(s, def), NEW j \in Holders(s, def), i # j
  PROVE  /\ \E k : Parts(KeyOf(s, def, i), KeyOf(s, def, j), k) \/ Parts(KeyOf(s, def, j), KeyOf(s, def, i), k)
         /\ FieldValues(s.was[i], def) = FieldValues(s.was[j], def) /\ i < j
              => \E k : Parts(KeyOf(s, def, i), KeyOf(s, def, j), k)
<1> DEFINE v == FieldValues(s.was[i], def)
           w == FieldValues(s.was[j], def)
           a == EncodeValues(v)
           b == EncodeValues(w)
           c == BigEndian(i, IdBytes)
           d == BigEndian(j, IdBytes)
<1>1. /\ i \in Nat /\ i <= MaxDocs /\ j \in Nat /\ j <= MaxDocs
      /\ a \in Seq(Nat) /\ b \in Seq(Nat) /\ c \in Seq(Nat) /\ d \in Seq(Nat)
      /\ Len(def) \in Nat \ {0}
      /\ v \in [1..Len(def) -> Scalars] /\ w \in [1..Len(def) -> Scalars]
      /\ \A l \in 1..Len(def) : Short(v[l]) /\ Short(w[l])
  BY HolderIs
<1>2. KeyOf(s, def, i) = a \o c /\ KeyOf(s, def, j) = b \o d
  BY DEF KeyOf
<1>3. v = w => a = b
  OBVIOUS
<1>4. i < j => \E k : Parts(c, d, k)
  BY <1>1, IdsFit, BigEndianOrder
<1>5. j < i => \E k : Parts(d, c, k)
  BY <1>1, IdsFit, BigEndianOrder
<1>6. v # w => \E k : Parts(a, b, k) \/ Parts(b, a, k)
  <2> HIDE DEF v, w
  <2> QED
    BY <1>1, ValuesPart
<1> HIDE DEF v, w, a, b, c, d
<1>7. v = w /\ i < j => \E k : Parts(a \o c, b \o d, k)
  BY <1>1, <1>3, <1>4, PartsBehind
<1>8. v = w /\ j < i => \E k : Parts(b \o d, a \o c, k)
  BY <1>1, <1>3, <1>5, PartsBehind
<1>9. v # w => \E k : Parts(a \o c, b \o d, k) \/ Parts(b \o d, a \o c, k)
  <2> SUFFICES ASSUME v # w PROVE \E k : Parts(a \o c, b \o d, k) \/ Parts(b \o d, a \o c, k)
    OBVIOUS
  <2>1. PICK k : Parts(a, b, k) \/ Parts(b, a, k)
    BY <1>6
  <2>2. Parts(a \o c, b \o d, k) \/ Parts(b \o d, a \o c, k)
    BY <1>1, <2>1, PartsBefore
  <2> QED
    BY <2>2
<1>10. i < j \/ j < i
  BY <1>1
<1> QED
  BY <1>2, <1>7, <1>8, <1>9, <1>10 DEF v, w

(* find_one finds the lowest id. *)
LEMMA FindOneIs ==
  ASSUME NEW last \in 0..MaxDocs, NEW s, Good(s, last), NEW def \in s.registry \ s.stale,
         NEW vals \in [DOMAIN def -> Scalars], Indexable(vals)
  PROVE  LET ids == {id \in Holders(s, def) : FieldValues(s.was[id], def) = vals} IN
         find_one(s.entries, def, vals) = IF ids = {} THEN Absent ELSE Min(ids)
<1> DEFINE ids == {id \in Holders(s, def) : FieldValues(s.was[id], def) = vals}
           prefix == EncodeValues(vals)
           matching == {k \in KeysOf(s.entries, def) : IsPrefix(prefix, k)}
           Key(id) == KeyOf(s, def, id)
           IsFirst(k) == \A other \in matching \ {k} : Below(k, other)
<1>1. /\ def \in Defs /\ Len(def) \in Nat \ {0} /\ DOMAIN def = 1..Len(def)
      /\ vals \in [1..Len(def) -> Scalars]
  <2>1. def \in Defs
    BY KeysAre
  <2> QED
    BY <2>1, FieldsOf
<1>2. prefix \in Seq(Nat) /\ \A i \in 1..Len(def) : Short(vals[i])
  BY <1>1, IndexableIs
<1>3. find_one(s.entries, def, vals) = FindOne(s.entries, def, vals)
  <2>1. [i \in DOMAIN vals |-> ToPyxValue(vals[i])] = vals
    <3>1. \A i \in 1..Len(def) : ToPyxValue(vals[i]) = vals[i]
      BY <1>1, PassedAsIs
    <3>2. vals = [i \in 1..Len(def) |-> vals[i]] /\ DOMAIN vals = 1..Len(def)
      BY <1>1
    <3> QED
      BY <3>1, <3>2
  <2> QED
    BY <2>1 DEF find_one
<1>4. FindOne(s.entries, def, vals)
        = IF matching = {} THEN Absent
          ELSE LET first == CHOOSE k \in matching : IsFirst(k) IN
               IF Len(first) # Len(prefix) + IdBytes THEN Absent ELSE IdOf(first)
  BY DEF FindOne
<1>5. ASSUME NEW id \in Holders(s, def) PROVE IsPrefix(prefix, Key(id)) <=> id \in ids
  <2> DEFINE v == FieldValues(s.was[id], def)
             a == EncodeValues(v)
             b == BigEndian(id, IdBytes)
  <2>1. /\ v \in [1..Len(def) -> Scalars] /\ \A i \in 1..Len(def) : Short(v[i])
        /\ a \in Seq(Nat) /\ b \in Seq(Nat)
    BY HolderIs
  <2>2. Key(id) = a \o b
    BY DEF KeyOf
  <2>3. v = vals => a = prefix
    OBVIOUS
  <2>4. id \in ids <=> v = vals
    OBVIOUS
  <2>5. v # vals => \E k : Parts(prefix, a, k) \/ Parts(a, prefix, k)
    <3> HIDE DEF v
    <3> QED
      BY <1>1, <1>2, <2>1, ValuesPart
  <2> HIDE DEF v, a, b, ids, prefix, Key
  <2>6. CASE v = vals
    BY <1>2, <2>1, <2>2, <2>3, <2>4, <2>6, BeginsWith
  <2>7. CASE v # vals
    <3>1. PICK k : Parts(prefix, a, k) \/ Parts(a, prefix, k)
      BY <2>5, <2>7
    <3>2. << >> \in Seq(Nat) /\ prefix \o << >> = prefix /\ a \o b \in Seq(Nat)
      BY <1>2, <2>1, ConcatProperties, ConcatEmptySeq
    <3>3. Parts(prefix, a \o b, k) \/ Parts(a \o b, prefix, k)
      <4> DEFINE e == << >>
      <4>1. e \in Seq(Nat) /\ prefix \o e = prefix
        BY <3>2
      <4> HIDE DEF e
      <4>2. Parts(prefix, a, k) => Parts(prefix \o e, a \o b, k)
        BY <1>2, <2>1, <4>1, PartsBefore
      <4>3. Parts(a, prefix, k) => Parts(a \o b, prefix \o e, k)
        BY <1>2, <2>1, <4>1, PartsBefore
      <4> QED
        BY <3>1, <4>1, <4>2, <4>3
    <3>4. ~IsPrefix(prefix, a \o b)
      BY <1>2, <3>2, <3>3, PartsBelow
    <3> QED
      BY <2>2, <2>4, <2>7, <3>4
  <2> QED
    BY <2>6, <2>7
<1>6. matching = {Key(id) : id \in ids}
  <2>1. KeysOf(s.entries, def) = {Key(id) : id \in Holders(s, def)}
    BY KeysAre
  <2>2. ids \subseteq Holders(s, def)
    OBVIOUS
  <2> HIDE DEF ids, prefix, Key
  <2> QED
    BY <1>5, <2>1, <2>2
<1>7. CASE ids = {}
  BY <1>3, <1>4, <1>6, <1>7
<1>8. CASE ids # {}
  <2> DEFINE m == Min(ids)
  <2>1. ids \in SUBSET Nat /\ ids \subseteq Holders(s, def)
    BY KeysAre
  <2>2. m \in ids /\ \A id \in ids : m <= id
    <3> HIDE DEF ids
    <3> QED
      BY <1>8, <2>1, MinIsLeast
  <2>3. \A id \in ids : FieldValues(s.was[id], def) = vals
    OBVIOUS
  <2> HIDE DEF m, ids
  <2>4. Key(m) \in matching
    BY <1>6, <2>2
  <2>5. \A id \in ids : Key(id) \in Seq(Nat)
    BY <2>1, HolderIs
  <2>6. ASSUME NEW other \in matching, other # Key(m)
        PROVE  Below(Key(m), other) /\ ~Below(other, Key(m))
    <3>1. PICK id \in ids : other = Key(id)
      BY <1>6
    <3>2. id # m /\ m < id /\ m \in Holders(s, def) /\ id \in Holders(s, def)
      BY <2>1, <2>2, <2>6, <3>1
    <3>3. FieldValues(s.was[m], def) = FieldValues(s.was[id], def)
      BY <2>2, <2>3
    <3>4. PICK k : Parts(Key(m), Key(id), k)
      BY <3>2, <3>3, KeysPart
    <3> HIDE DEF Key
    <3> QED
      BY <2>2, <2>5, <3>1, <3>4, PartsBelow
  <2> DEFINE first == CHOOSE k \in matching : IsFirst(k)
  <2>7. IsFirst(Key(m))
    <3> HIDE DEF Key, matching
    <3> QED
      BY <2>6
  <2>8. first \in matching /\ IsFirst(first)
    <3> HIDE DEF Key, matching, IsFirst
    <3> QED
      BY <2>4, <2>7
  <2> HIDE DEF first
  <2>9. first = Key(m)
    <3> HIDE DEF Key, matching
    <3> QED
      BY <2>4, <2>6, <2>8
  <2>10. IdOf(first) = m /\ Len(first) = Len(prefix) + IdBytes
    <3>1. Key(m) = prefix \o BigEndian(m, IdBytes)
      BY <2>2, <2>3 DEF KeyOf
    <3>2. m \in Nat /\ m <= MaxDocs
      BY <2>1, <2>2, HolderIs
    <3> HIDE DEF Key, prefix
    <3> QED
      BY <1>2, <2>9, <3>1, <3>2, IdIsReadBack
  <2>11. matching # {}
    BY <2>4
  <2>12. FindOne(s.entries, def, vals) = IdOf(first)
    <3> HIDE DEF matching, prefix, IsFirst
    <3> QED
      BY <1>4, <2>10, <2>11 DEF first
  <2> QED
    BY <1>3, <1>8, <2>10, <2>12 DEF m, ids
<1> QED
  BY <1>7, <1>8

(* find_one returns the lowest id among the documents that have the values,  *)
(* in what is published and in an open block, for every set of documents,    *)
(* values and indexes, and every width of the formats.                       *)
THEOREM FindsTheLowest == Spec => []FindOneAnswers
<1>1. IndexInv => FindOneAnswers
  <2> SUFFICES ASSUME IndexInv, NEW s \in {store, work}, NEW def \in s.registry \ s.stale,
                      NEW vals \in {vs \in [DOMAIN def -> Scalars] : Indexable(vs)}
               PROVE  LET ids == {id \in Holders(s, def) : FieldValues(s.was[id], def) = vals} IN
                      find_one(s.entries, def, vals) = IF ids = {} THEN Absent ELSE Min(ids)
    BY DEF FindOneAnswers
  <2>1. lastId \in 0..MaxDocs /\ Good(s, lastId)
    BY DEF IndexInv
  <2> QED
    BY <2>1, FindOneIs
<1> QED
  BY <1>1, IndexInvariant, PTL

-----------------------------------------------------------------------------
(* Ranges.                                                                  *)

(* What follows every id of a value. *)
LEMMA PastIdsIs ==
  /\ PastIds \in Seq(Nat)
  /\ \A id \in Nat : id <= MaxDocs => \E k : Parts(BigEndian(id, IdBytes), PastIds, k)
<1>1. IdBytes \in Nat \ {0} /\ ByteBase \in Nat /\ ByteBase > 8
  BY KeysAssumption, ValuesAssumption
<1>2. PastIds \in Seq(Nat) /\ Len(PastIds) = IdBytes /\ \A i \in 1..IdBytes : PastIds[i] = ByteBase - 1
  <2>1. ByteBase - 1 \in Nat
    BY <1>1
  <2> QED
    BY <1>1, <2>1 DEF PastIds
<1>3. ASSUME NEW id \in Nat, id <= MaxDocs PROVE \E k : Parts(BigEndian(id, IdBytes), PastIds, k)
  <2> DEFINE a == BigEndian(id, IdBytes)
             b == BigEndian(id + 1, IdBytes)
  <2>1. id + 1 \in Nat /\ id + 1 < Power[IdBytes] /\ id < id + 1
    BY <1>3, IdsFit
  <2>2. a \in Seq(Bytes) /\ Len(a) = IdBytes /\ b \in Seq(Bytes) /\ Len(b) = IdBytes
    BY <1>1, <2>1, BigEndianIs
  <2>3. PICK k \in 1..IdBytes : Parts(a, b, k)
    BY <1>1, <2>1, BigEndianOrder
  <2> HIDE DEF a, b
  <2>4. a[k] < b[k] /\ a[k] \in Nat /\ b[k] \in Nat /\ b[k] <= ByteBase - 1
    <3>1. a[k] \in Bytes /\ b[k] \in Bytes
      BY <2>2
    <3>2. a[k] < b[k]
      BY <2>3 DEF Parts
    <3> QED
      BY <1>1, <3>1, <3>2 DEF Bytes
  <2>5. a # PastIds
    <3>1. PastIds[k] = ByteBase - 1
      BY <1>2
    <3> QED
      BY <1>1, <2>4, <3>1
  <2>6. a \in Seq(Nat)
    BY <2>2, BytesAreNaturals
  <2>7. PICK l : Parts(a, PastIds, l) \/ Parts(PastIds, a, l)
    BY <1>2, <2>2, <2>5, <2>6, SameLengthParts
  <2>8. ~Parts(PastIds, a, l)
    <3> SUFFICES ASSUME Parts(PastIds, a, l) PROVE FALSE
      OBVIOUS
    <3>1. l \in DOMAIN a /\ PastIds[l] < a[l]
      BY DEF Parts
    <3>2. l \in 1..IdBytes
      BY <2>2, <3>1
    <3>3. a[l] \in Bytes /\ PastIds[l] = ByteBase - 1
      BY <1>2, <2>2, <3>2
    <3> QED
      BY <1>1, <3>1, <3>3 DEF Bytes
  <2> QED
    BY <2>7, <2>8 DEF a
<1> QED
  BY <1>2, <1>3

(* Where a key is against the encoding of a bound, and against what follows  *)
(* every id of the bound's value.                                            *)
LEMMA KeyAndBound ==
  ASSUME NEW v \in Scalars, Short(v), NEW w \in Scalars, Short(w), NEW id \in Nat, id <= MaxDocs
  PROVE  LET key == EncodeValue(w) \o BigEndian(id, IdBytes) IN
         /\ Below(key, EncodeValue(v)) <=> Less(w, v)
         /\ Below(key, EncodeValue(v) \o PastIds) <=> ~Less(v, w)
         /\ Below(EncodeValue(v) \o PastIds, key) <=> Less(v, w)
<1> DEFINE a == EncodeValue(w)
           e == EncodeValue(v)
           b == BigEndian(id, IdBytes)
           key == a \o b
           past == e \o PastIds
           none == << >>
<1>1. /\ a \in Seq(Nat) /\ e \in Seq(Nat) /\ b \in Seq(Nat) /\ PastIds \in Seq(Nat)
      /\ key \in Seq(Nat) /\ past \in Seq(Nat) /\ none \in Seq(Nat) /\ e \o none = e
  <2>1. a \in Seq(Nat) /\ e \in Seq(Nat) /\ PastIds \in Seq(Nat)
    BY EncodedIs, PastIdsIs
  <2>2. b \in Seq(Nat)
    BY <2>1, IdIsReadBack
  <2>3. none \in Seq(Nat) /\ e \o none = e
    BY <2>1, ConcatEmptySeq
  <2> HIDE DEF a, e, b, none
  <2> QED
    BY <2>1, <2>2, <2>3, ConcatProperties
<1>2. CASE Less(w, v)
  <2>1. PICK k : Parts(a, e, k)
    BY <1>2, ValueOrder
  <2>2. ~Less(v, w)
    BY <1>2, LessIsTotal
  <2> HIDE DEF a, e, b, none
  <2>3. Parts(key, e \o none, k) /\ Parts(key, past, k)
    BY <1>1, <2>1, PartsBefore
  <2>4. Parts(key, e, k) /\ Parts(key, past, k)
    BY <1>1, <2>3
  <2> HIDE DEF key, past
  <2>5. Below(key, e) /\ Below(key, past) /\ ~Below(past, key)
    BY <1>1, <2>4, PartsBelow
  <2> QED
    BY <1>2, <2>2, <2>5 DEF key, past, a, e, b
<1>3. CASE Less(v, w)
  <2>1. PICK k : Parts(e, a, k)
    BY <1>3, ValueOrder
  <2>2. ~Less(w, v)
    BY <1>3, LessIsTotal
  <2> HIDE DEF a, e, b, none
  <2>3. Parts(e \o none, key, k) /\ Parts(past, key, k)
    BY <1>1, <2>1, PartsBefore
  <2>4. Parts(e, key, k) /\ Parts(past, key, k)
    BY <1>1, <2>3
  <2> HIDE DEF key, past
  <2>5. ~Below(key, e) /\ ~Below(key, past) /\ Below(past, key)
    BY <1>1, <2>4, PartsBelow
  <2> QED
    BY <1>3, <2>2, <2>5 DEF key, past, a, e, b
<1>4. CASE v = w
  <2>1. a = e
    BY <1>4
  <2>2. ~Less(v, w) /\ ~Less(w, v)
    BY <1>4, LessIsTotal
  <2>3. PICK k : Parts(b, PastIds, k)
    BY PastIdsIs
  <2> HIDE DEF a, e, b, none
  <2>4. Parts(key, past, Len(e) + k)
    BY <1>1, <2>1, <2>3, PartsBehind
  <2>5. ~Below(key, e)
    BY <1>1, <2>1, BelowNothing
  <2> HIDE DEF key, past
  <2>6. Below(key, past) /\ ~Below(past, key)
    BY <1>1, <2>4, PartsBelow
  <2> QED
    BY <2>2, <2>5, <2>6 DEF key, past, a, e, b
<1> QED
  BY <1>2, <1>3, <1>4, LessIsTotal

(* Nothing is below the empty string. *)
LEMMA NothingBelowEmpty ==
  ASSUME NEW a \in Seq(Nat)
  PROVE  ~Below(a, << >>)
<1> DEFINE e == << >>
<1>1. e \in Seq(Nat) /\ e \o a = a
  BY ConcatEmptySeq
<1> HIDE DEF e
<1>2. ~Below(e \o a, e)
  BY <1>1, BelowNothing
<1> QED
  BY <1>1, <1>2 DEF e

\* The bounds of find_range.
Bounds == {v \in Scalars : Indexable(<<v>>)} \cup {Null}

(* The entries between the seek key and the stop key are those whose values  *)
(* are between the bounds.                                                   *)
LEMMA WithinBounds ==
  ASSUME NEW w \in Scalars, Short(w), NEW id \in Nat, id <= MaxDocs,
         NEW gte \in Bounds, NEW gt \in Bounds, NEW lte \in Bounds, NEW lt \in Bounds,
         Null \in {gte, gt}, Null \in {lte, lt}
  PROVE  LET key == EncodeValue(w) \o BigEndian(id, IdBytes) IN
         /\ ~Below(key, SeekKey(ToBound(gte, gt)))
               <=> (gte # Null => ~Less(w, gte)) /\ (gt # Null => Less(gt, w))
         /\ ~PastStop(ToBound(lte, lt), key)
               <=> (lte # Null => ~Less(lte, w)) /\ (lt # Null => Less(w, lt))
<1> DEFINE key == EncodeValue(w) \o BigEndian(id, IdBytes)
<1>1. key \in Seq(Nat)
  <2>1. EncodeValue(w) \in Seq(Nat)
    BY EncodedIs
  <2>2. BigEndian(id, IdBytes) \in Seq(Nat)
    BY <2>1, IdIsReadBack
  <2> QED
    BY <2>1, <2>2, ConcatProperties
<1>2. ASSUME NEW v \in Bounds, v # Null
      PROVE  /\ v \in Scalars /\ ToPyxValue(v) = v
             /\ Below(key, EncodeValue(v)) <=> Less(w, v)
             /\ Below(key, EncodeValue(v) \o PastIds) <=> ~Less(v, w)
             /\ Below(EncodeValue(v) \o PastIds, key) <=> Less(v, w)
  <2>1. v \in Scalars /\ Indexable(<<v>>)
    BY <1>2 DEF Bounds
  <2>2. Short(v)
    <3> DEFINE vals == <<v>>
    <3>1. vals \in [1..1 -> Scalars] /\ vals[1] = v /\ 1 \in 1..1 /\ 1 \in Nat \ {0}
      BY <2>1
    <3>2. Indexable(vals)
      BY <2>1
    <3> HIDE DEF vals
    <3>3. Short(vals[1])
      BY <3>1, <3>2, IndexableIs
    <3> QED
      BY <3>1, <3>3
  <2>3. ToPyxValue(v) = v
    BY <2>1, PassedAsIs
  <2>4. /\ Below(key, EncodeValue(v)) <=> Less(w, v)
        /\ Below(key, EncodeValue(v) \o PastIds) <=> ~Less(v, w)
        /\ Below(EncodeValue(v) \o PastIds, key) <=> Less(v, w)
    BY <2>1, <2>2, KeyAndBound
  <2> QED
    BY <2>1, <2>3, <2>4
<1> HIDE DEF key
<1>3. ~Below(key, SeekKey(ToBound(gte, gt)))
        <=> (gte # Null => ~Less(w, gte)) /\ (gt # Null => Less(gt, w))
  <2>1. CASE gte # Null
    <3>1. gt = Null
      BY <2>1
    <3>2. SeekKey(ToBound(gte, gt)) = EncodeValue(gte)
      BY <1>2, <2>1 DEF ToBound, Inclusive, SeekKey
    <3> QED
      BY <1>2, <2>1, <3>1, <3>2
  <2>2. CASE gte = Null /\ gt # Null
    <3>1. SeekKey(ToBound(gte, gt)) = EncodeValue(gt) \o PastIds
      BY <1>2, <2>2 DEF ToBound, Exclusive, SeekKey
    <3> QED
      BY <1>2, <2>2, <3>1
  <2>3. CASE gte = Null /\ gt = Null
    <3>1. SeekKey(ToBound(gte, gt)) = << >>
      BY <2>3 DEF ToBound, Unbounded, SeekKey
    <3> QED
      BY <1>1, <2>3, <3>1, NothingBelowEmpty
  <2> QED
    BY <2>1, <2>2, <2>3
<1>4. ~PastStop(ToBound(lte, lt), key)
        <=> (lte # Null => ~Less(lte, w)) /\ (lt # Null => Less(w, lt))
  <2>1. CASE lte # Null
    <3>1. lt = Null
      BY <2>1
    <3>2. PastStop(ToBound(lte, lt), key) <=> Below(EncodeValue(lte) \o PastIds, key)
      BY <1>2, <2>1 DEF ToBound, Inclusive, PastStop
    <3> QED
      BY <1>2, <2>1, <3>1, <3>2
  <2>2. CASE lte = Null /\ lt # Null
    <3>1. PastStop(ToBound(lte, lt), key) <=> ~Below(key, EncodeValue(lt))
      BY <1>2, <2>2 DEF ToBound, Exclusive, PastStop
    <3> QED
      BY <1>2, <2>2, <3>1
  <2>3. CASE lte = Null /\ lt = Null
    <3>1. PastStop(ToBound(lte, lt), key) = FALSE
      BY <2>3 DEF ToBound, Unbounded, PastStop
    <3> QED
      BY <2>3, <3>1
  <2> QED
    BY <2>1, <2>2, <2>3
<1> QED
  BY <1>3, <1>4 DEF key

(* The key of a document in an index of one field. *)
LEMMA HeldValue ==
  ASSUME NEW last \in 0..MaxDocs, NEW s, Good(s, last), NEW def \in s.registry \ s.stale, Len(def) = 1,
         NEW id \in Holders(s, def)
  PROVE  LET w == Entry(s.was[id], def[1]) IN
         /\ w \in Scalars /\ Short(w) /\ EncodeValue(w) \in Seq(Nat)
         /\ FieldValues(s.was[id], def) = <<w>>
         /\ KeyOf(s, def, id) = EncodeValue(w) \o BigEndian(id, IdBytes)
<1> DEFINE vals == FieldValues(s.was[id], def)
           w == Entry(s.was[id], def[1])
<1>1. vals \in [1..1 -> Scalars] /\ \A i \in 1..1 : Short(vals[i])
  BY HolderIs
<1>2. DOMAIN def = 1..1
  <2>1. def \in Defs
    BY KeysAre
  <2> QED
    BY <2>1, FieldsOf
<1>3. vals = [i \in 1..1 |-> Entry(s.was[id], def[i])]
  BY <1>2 DEF FieldValues
<1>4. vals[1] = w /\ vals = <<w>>
  <2>1. [i \in 1..1 |-> Entry(s.was[id], def[i])] = <<w>>
    OBVIOUS
  <2> QED
    BY <1>3, <2>1
<1>5. KeyOf(s, def, id) = EncodeValues(vals) \o BigEndian(id, IdBytes)
  BY DEF KeyOf
<1> HIDE DEF vals, w
<1>6. EncodeValues(vals) = EncodeValue(vals[1])
  <2>1. 1 \in Nat \ {0}
    OBVIOUS
  <2> QED
    BY <1>1, <2>1, ValuesEncoded
<1>7. w \in Scalars /\ Short(w)
  BY <1>1, <1>4
<1>8. EncodeValue(w) \in Seq(Nat)
  BY <1>7, EncodedIs
<1> QED
  BY <1>4, <1>5, <1>6, <1>7, <1>8 DEF vals, w

(* The keys of documents are in the order of the documents. *)
LEMMA KeysPrecede ==
  ASSUME NEW last \in 0..MaxDocs, NEW s, Good(s, last), NEW def \in s.registry \ s.stale, Len(def) = 1,
         NEW i \in Holders(s, def), NEW j \in Holders(s, def),
         Below(KeyOf(s, def, i), KeyOf(s, def, j))
  PROVE  Precedes(s, def[1], i, j)
<1> DEFINE v == Entry(s.was[i], def[1])
           w == Entry(s.was[j], def[1])
           a == EncodeValue(v)
           b == EncodeValue(w)
           c == BigEndian(i, IdBytes)
           d == BigEndian(j, IdBytes)
<1>1. /\ v \in Scalars /\ Short(v) /\ a \in Seq(Nat)
      /\ FieldValues(s.was[i], def) = <<v>> /\ KeyOf(s, def, i) = a \o c
  BY HeldValue
<1>2. /\ w \in Scalars /\ Short(w) /\ b \in Seq(Nat)
      /\ FieldValues(s.was[j], def) = <<w>> /\ KeyOf(s, def, j) = b \o d
  BY HeldValue
<1>3. /\ i \in Nat /\ j \in Nat /\ c \in Seq(Nat) /\ d \in Seq(Nat)
      /\ KeyOf(s, def, i) \in Seq(Nat) /\ KeyOf(s, def, j) \in Seq(Nat)
  BY HolderIs
<1>4. i # j
  BY <1>3, BelowNothing
<1>5. ~Less(w, v)
  <2> SUFFICES ASSUME Less(w, v) PROVE FALSE
    OBVIOUS
  <2>1. PICK k : Parts(b, a, k)
    BY <1>1, <1>2, ValueOrder
  <2> HIDE DEF a, b, c, d
  <2>2. Parts(b \o d, a \o c, k)
    BY <1>1, <1>2, <1>3, <2>1, PartsBefore
  <2> QED
    BY ZenonT(40), <1>1, <1>2, <1>3, <2>2, PartsBelow
<1>6. ~(v = w /\ j < i)
  <2> SUFFICES ASSUME v = w, j < i PROVE FALSE
    OBVIOUS
  <2>1. FieldValues(s.was[j], def) = FieldValues(s.was[i], def)
    BY <1>1, <1>2
  <2>2. PICK k : Parts(KeyOf(s, def, j), KeyOf(s, def, i), k)
    BY <1>4, <2>1, KeysPart
  <2> QED
    BY <1>3, <2>2, PartsBelow
<1>7. i < j \/ j < i
  BY <1>3, <1>4
<1>8. v # w => Less(v, w) \/ Less(w, v)
  BY <1>1, <1>2, LessIsTotal
<1>9. Less(v, w) \/ (v = w /\ i < j)
  BY <1>5, <1>6, <1>7, <1>8
<1> QED
  BY <1>9 DEF Precedes

(* find_range finds the documents between its bounds, in their order. *)
LEMMA FindRangeIs ==
  ASSUME NEW last \in 0..MaxDocs, NEW s, Good(s, last), NEW def \in s.registry \ s.stale, Len(def) = 1,
         NEW gte \in Bounds, NEW gt \in Bounds, NEW lte \in Bounds, NEW lt \in Bounds,
         Null \in {gte, gt}, Null \in {lte, lt}
  PROVE  LET ids == find_range(s.entries, def[1], gte, gt, lte, lt) IN
         /\ Range(ids) = InRange(s, def, gte, gt, lte, lt)
         /\ \A i, j \in DOMAIN ids : i < j => Precedes(s, def[1], ids[i], ids[j])
<1> DEFINE ids == find_range(s.entries, def[1], gte, gt, lte, lt)
           R == InRange(s, def, gte, gt, lte, lt)
           Key(id) == KeyOf(s, def, id)
           Within(k) == /\ ~Below(k, SeekKey(ToBound(gte, gt)))
                        /\ ~PastStop(ToBound(lte, lt), k)
           K == {k \in KeysOf(s.entries, def) : Within(k)}
           keys == InOrder(K)
           n == Cardinality(K)
<1>1. <<def[1]>> = def
  <2>1. def \in Seq(Range(def))
    BY KeysAre, LookupsAssumption
  <2> QED
    BY <2>1
<1>2. ids = [i \in DOMAIN keys |-> IdOf(keys[i])]
  <2>1. ids = FindRange(s.entries, def, ToBound(gte, gt), ToBound(lte, lt))
    BY <1>1 DEF find_range
  <2> QED
    BY <2>1 DEF FindRange
<1>3. R \subseteq Holders(s, def)
  BY DEF InRange
<1>4. ASSUME NEW id \in Holders(s, def) PROVE Within(Key(id)) <=> id \in R
  <2> DEFINE w == Entry(s.was[id], def[1])
  <2>1. w \in Scalars /\ Short(w) /\ Key(id) = EncodeValue(w) \o BigEndian(id, IdBytes)
    BY HeldValue
  <2>2. id \in Nat /\ id <= MaxDocs
    BY HolderIs
  <2>3. id \in R <=> /\ (gte # Null => ~Less(w, gte)) /\ (gt # Null => Less(gt, w))
                     /\ (lte # Null => ~Less(lte, w)) /\ (lt # Null => Less(w, lt))
    BY DEF InRange
  <2> HIDE DEF w, R, Key
  <2> QED
    BY <2>1, <2>2, <2>3, WithinBounds
<1>5. K = {Key(id) : id \in R}
  <2>1. KeysOf(s.entries, def) = {Key(id) : id \in Holders(s, def)}
    BY SMTT(30), KeysAre
  <2> HIDE DEF R, Key, Within
  <2> QED
    BY <1>3, <1>4, <2>1
<1>6. \A id \in R : Key(id) \in Seq(Nat) /\ IdOf(Key(id)) = id
  <2> SUFFICES ASSUME NEW id \in Holders(s, def) PROVE Key(id) \in Seq(Nat) /\ IdOf(Key(id)) = id
    BY <1>3
  <2> DEFINE a == EncodeValues(FieldValues(s.was[id], def))
  <2>1. id \in Nat /\ id <= MaxDocs /\ a \in Seq(Nat) /\ Key(id) \in Seq(Nat)
    BY HolderIs
  <2>2. Key(id) = a \o BigEndian(id, IdBytes)
    BY DEF KeyOf
  <2> HIDE DEF a, Key
  <2> QED
    BY <2>1, <2>2, IdIsReadBack
<1>7. IsFiniteSet(K)
  <2>1. IsFiniteSet(R)
    <3>1. R \in SUBSET (1..last) /\ last \in Nat
      BY <1>3, KeysAre, CollectionAssumption
    <3>2. IsFiniteSet(1..last)
      BY <3>1, FS_Interval
    <3> HIDE DEF R
    <3> QED
      BY <3>1, <3>2, FS_Subset
  <2> DEFINE f == [id \in R |-> Key(id)]
  <2>2. K = {f[id] : id \in R}
    <3> HIDE DEF K, Key, R
    <3> QED
      BY <1>5
  <2>3. f \in Surjection(R, K)
    <3> HIDE DEF K, Key, R
    <3> QED
      BY <1>5 DEF Surjection
  <2> HIDE DEF f, R, K
  <2> QED
    BY <2>1, <2>3, FS_Surjection
<1>8. \A a, b \in K : a # b => \E k : Parts(a, b, k) \/ Parts(b, a, k)
  <2> SUFFICES ASSUME NEW x \in R, NEW y \in R, Key(x) # Key(y)
               PROVE  \E k : Parts(Key(x), Key(y), k) \/ Parts(Key(y), Key(x), k)
    <3> HIDE DEF K, Key, R
    <3> QED
      BY <1>5
  <2>1. x # y /\ x \in Holders(s, def) /\ y \in Holders(s, def)
    BY <1>3
  <2> QED
    BY <2>1, KeysPart
<1>9. K \in SUBSET Seq(Nat)
  <2> HIDE DEF K, Key, R
  <2> QED
    BY <1>5, <1>6
<1>10. /\ keys \in [1..n -> K]
       /\ \A i, j \in 1..n : i < j => Below(keys[i], keys[j])
       /\ \A k \in K : \E i \in 1..n : keys[i] = k
  <2> HIDE DEF K
  <2> QED
    BY <1>7, <1>8, <1>9, Enumerated
<1> HIDE DEF ids, R, Key, K, keys, n
<1>11. DOMAIN ids = 1..n /\ \A i \in 1..n : ids[i] = IdOf(keys[i]) /\ keys[i] \in K
  BY <1>2, <1>10
<1>12. \A i \in 1..n : ids[i] \in R /\ keys[i] = Key(ids[i])
  <2> SUFFICES ASSUME NEW i \in 1..n PROVE ids[i] \in R /\ keys[i] = Key(ids[i])
    OBVIOUS
  <2>1. PICK id \in R : keys[i] = Key(id)
    BY <1>5, <1>11
  <2>2. ids[i] = id
    BY <1>6, <1>11, <2>1
  <2> QED
    BY <2>1, <2>2
<1>13. \A id \in R : \E i \in 1..n : ids[i] = id
  <2> SUFFICES ASSUME NEW id \in R PROVE \E i \in 1..n : ids[i] = id
    OBVIOUS
  <2>1. Key(id) \in K
    BY <1>5
  <2>2. PICK i \in 1..n : keys[i] = Key(id)
    BY <1>10, <2>1
  <2> QED
    BY <1>6, <1>11, <2>2
<1>14. Range(ids) = R
  BY <1>11, <1>12, <1>13 DEF Range
<1>15. ASSUME NEW i \in DOMAIN ids, NEW j \in DOMAIN ids, i < j
       PROVE  Precedes(s, def[1], ids[i], ids[j])
  <2>1. /\ Below(Key(ids[i]), Key(ids[j]))
        /\ ids[i] \in Holders(s, def) /\ ids[j] \in Holders(s, def)
    BY <1>3, <1>10, <1>11, <1>12, <1>15
  <2> QED
    BY <2>1, KeysPrecede DEF Key
<1> QED
  BY <1>14, <1>15 DEF ids, R

(* find_range returns the ids of the documents whose value is between its    *)
(* bounds, each once, in the order of the values and then of the ids: for    *)
(* every set of documents, bounds and indexes, and every width of the        *)
(* formats.                                                                  *)
THEOREM RangesAreComplete == Spec => []RangeAnswers
<1> DEFINE Answered(s, def, gte, gt, lte, lt) ==
             LET ids == find_range(s.entries, def[1], gte, gt, lte, lt) IN
             /\ Range(ids) = InRange(s, def, gte, gt, lte, lt)
             /\ \A i, j \in DOMAIN ids : i < j => Precedes(s, def[1], ids[i], ids[j])
<1>1. RangeAnswers <=>
        \A s \in {store, work} : \A def \in {d \in s.registry \ s.stale : Len(d) = 1} :
            \A gte, gt, lte, lt \in Bounds :
                Null \in {gte, gt} /\ Null \in {lte, lt} => Answered(s, def, gte, gt, lte, lt)
  BY DEF RangeAnswers, Bounds
<1>2. ASSUME IndexInv, NEW s \in {store, work}, NEW def \in s.registry \ s.stale, Len(def) = 1,
             NEW gte \in Bounds, NEW gt \in Bounds, NEW lte \in Bounds, NEW lt \in Bounds,
             Null \in {gte, gt}, Null \in {lte, lt}
      PROVE  Answered(s, def, gte, gt, lte, lt)
  <2>1. lastId \in 0..MaxDocs /\ Good(s, lastId)
    BY <1>2 DEF IndexInv
  <2> QED
    BY <1>2, <2>1, FindRangeIs
<1> HIDE DEF Answered
<1>3. IndexInv => RangeAnswers
  BY <1>1, <1>2
<1> QED
  BY <1>3, IndexInvariant, PTL
=============================================================================
