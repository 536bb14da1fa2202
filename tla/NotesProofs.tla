---------------------------- MODULE NotesProofs ----------------------------
(***************************************************************************)
(* What the notes application guarantees for any number of tabs, any set   *)
(* of requests and any number of attempts, proved with TLAPS.              *)
(***************************************************************************)
EXTENDS Notes, TLAPS

LEMMA WithCollection ==
    ASSUME NEW ns, IsCollection(ns), NEW id \in Nat, NEW doc
    PROVE  IsCollection(With(ns, id, doc))
  BY DEF IsCollection, With

LEMMA IndexCount == Len(IndexFields) = 3
  BY DEF IndexFields

LEMMA NothingCollection == IsCollection(Nothing)
  BY DEF IsCollection, Nothing

LEMMA WithoutCollection ==
    ASSUME NEW ns, IsCollection(ns), NEW id
    PROVE  IsCollection(Without(ns, id))
  BY DEF IsCollection, Without, Restrict

-----------------------------------------------------------------------------
(* The inductive invariant.                                                 *)

\* What a thread does is what its tab asked for.
Stage ==
    \A t \in Tabs :
        /\ pc[t] = "idle" <=> request[t] = NoRequest
        /\ pc[t] = "scan" => request[t].op = "list"
        /\ pc[t] \in {"update", "commit"} => request[t].op = "edit"
        /\ pc[t] = "reply" => answer[t].status # 0
        /\ pc[t] # "reply" => answer[t] = NoAnswer

\* run_optimistic begins a transaction only while attempts are left.
Attempts ==
    \A t \in Tabs :
        /\ pc[t] \notin {"view", "update", "commit"} => attempts[t] = 0
        /\ request[t].op # "edit" => attempts[t] = 0
        /\ pc[t] = "view" => attempts[t] < MaxAttempts

\* notes_out is the answer, up to the cursor.
Scanned ==
    \A t \in Tabs : pc[t] = "scan" =>
        found[t] = Restrict(snap[t], {i \in DOMAIN snap[t] :
                                        i <= cursor[t] /\ Matches(snap[t][i], request[t])})

\* A draft is an edit of the note the snapshot holds.
Drafted ==
    \A t \in Tabs : pc[t] = "commit" =>
        /\ request[t].id \in DOMAIN snap[t]
        /\ \E stamp \in Stamps :
              draft[t] = Edited(snap[t][request[t].id], request[t], stamp)

\* The opener alone holds the lock, and nobody once _db is set.
Opener ==
    /\ \A t \in Tabs : pc[t] \in {"open", "configure", "index"} <=> lock = t
    /\ db # NoTab => lock = NoTab

Handles ==
    /\ \A t \in Tabs :
          /\ pc[t] \in {"configure", "index"} => t \in open
          /\ pc[t] = "configure" => made[t] = 0
          /\ pc[t] = "index" => /\ t \in normal
                                /\ \A k \in 1..made[t] : IndexFields[k] \in indexes
          /\ answer[t].status = 500 => db # t
    /\ db # NoTab => /\ db \in open \cap normal
                     /\ \A k \in 1..Len(IndexFields) : IndexFields[k] \in indexes
    /\ \A t \in open \ {db} : \/ pc[t] = "reply" /\ answer[t].status = 500
                              \/ pc[t] \in {"configure", "index"}

\* Ids are given out in order.
Below == \A i \in DOMAIN notes : i < nextId

IInv == TypeOK /\ Stage /\ Attempts /\ Scanned /\ Drafted /\ Opener /\ Handles /\ Below

LEMMA InitIInv == Init => IInv
<1> SUFFICES ASSUME Init PROVE IInv
  OBVIOUS
<1> USE ConstantsAssumption DEF Init, Nothing
<1>1. TypeOK
  BY DEF TypeOK, IsCollection, Pcs, Stamps, IndexFields
<1>2. Stage /\ Attempts /\ Scanned /\ Drafted
  BY DEF Stage, Attempts, Scanned, Drafted, NoAnswer, Response, NoRequest
<1>3. Opener /\ Handles
  BY DEF Opener, Handles, NoAnswer, Response
<1>4. Below
  BY DEF Below
<1>5. QED
  BY <1>1, <1>2, <1>3, <1>4 DEF IInv

-----------------------------------------------------------------------------
(* The shape of the steps.                                                  *)

\* Thread t has a response of its view and leaves the handles alone.
Answers(t) ==
    /\ pc' = [pc EXCEPT ![t] = "reply"]
    /\ \E r : /\ answer' = [answer EXCEPT ![t] = r]
              /\ r.status \in {200, 302, 400, 404, 409}
    /\ UNCHANGED <<request, clock, handle, asked>>

LEMMA RefusalAnswers ==
    ASSUME NEW t, NEW r, r.status \in {200, 302, 400, 404, 409}, Respond(t, r),
           UNCHANGED <<request, clock, handle, asked>>
    PROVE  Answers(t)
  BY ZenonT(40) DEF Answers, Respond, Goto

LEMMA ViewAnswers ==
    ASSUME NEW t \in Tabs, Show(t) \/ Create(t) \/ Delete(t) \/ ListEnd(t) \/ EditCommit(t)
    PROVE  Answers(t)
<1> USE DEF Page, Redirect, Refusal, Response
<1>1. CASE Show(t)
  <2>1. Shown(notes, request[t].id).status \in {200, 404}
    BY DEF Shown
  <2>2. QED
    BY <1>1, <2>1, RefusalAnswers DEF Show
<1>2. CASE Create(t)
  <2>1. Refusal(400).status = 400 /\ Redirect(nextId).status = 302
    OBVIOUS
  <2>2. QED
    BY <1>2, <2>1, RefusalAnswers DEF Create
<1>3. CASE Delete(t)
  <2>1. Redirect(0).status = 302
    OBVIOUS
  <2>2. QED
    BY <1>3, <2>1, RefusalAnswers DEF Delete
<1>4. CASE ListEnd(t)
  <2>1. Page(found[t]).status = 200
    OBVIOUS
  <2>2. QED
    BY <1>4, <2>1, RefusalAnswers DEF ListEnd
<1>5. CASE EditCommit(t)
  <2>1. Redirect(request[t].id).status = 302
    OBVIOUS
  <2>2. QED
    BY <1>5, <2>1, RefusalAnswers DEF EditCommit, EndEdit
<1>6. QED
  BY <1>1, <1>2, <1>3, <1>4, <1>5

\* An edit that meets a missing note answers; the others get a draft.
LEMMA UpdateShape ==
    ASSUME NEW t \in Tabs, EditUpdate(t)
    PROVE  \/ Answers(t) /\ attempts' = [attempts EXCEPT ![t] = 0]
           \/ /\ Goto(t, "commit")
              /\ UNCHANGED <<answer, attempts, request, clock, handle, asked>>
<1>1. Refusal(404).status = 404
  BY DEF Refusal, Response
<1>2. QED
  BY <1>1, RefusalAnswers DEF EditUpdate, EndEdit

LEMMA ConflictShape ==
    ASSUME NEW t \in Tabs, EditConflict(t)
    PROVE  \/ Answers(t) /\ attempts' = [attempts EXCEPT ![t] = 0]
           \/ /\ attempts[t] < MaxAttempts
              /\ Goto(t, "view")
              /\ UNCHANGED <<answer, attempts, request, clock, handle, asked>>
<1>1. Refusal(409).status = 409
  BY DEF Refusal, Response
<1>2. QED
  BY <1>1, RefusalAnswers DEF EditConflict, EndEdit

\* An answer keeps the thread at its request and the handles as they are.
LEMMA AnswersStage ==
    ASSUME IInv, NEW t \in Tabs, Answers(t), pc[t] # "idle" PROVE Stage'
<1> USE DEF IInv, TypeOK, Stage, NoAnswer, Response, Nothing
<1>1. PICK r : answer' = [answer EXCEPT ![t] = r] /\ r.status \in {200, 302, 400, 404, 409}
  BY DEF Answers
<1>2. pc' = [pc EXCEPT ![t] = "reply"] /\ request' = request
  BY DEF Answers
<1>3. SUFFICES ASSUME NEW u \in Tabs PROVE
        /\ pc'[u] = "idle" <=> request'[u] = NoRequest
        /\ pc'[u] = "scan" => request'[u].op = "list"
        /\ pc'[u] \in {"update", "commit"} => request'[u].op = "edit"
        /\ pc'[u] = "reply" => answer'[u].status # 0
        /\ pc'[u] # "reply" => answer'[u] = NoAnswer
  BY DEF Stage
<1>4. CASE u = t
  BY SMTT(30), <1>1, <1>2, <1>4
<1>5. CASE u # t
  BY <1>1, <1>2, <1>5
<1>6. QED
  BY <1>4, <1>5

LEMMA AnswersHandles ==
    ASSUME IInv, NEW t \in Tabs, Answers(t), pc[t] \in {"view", "scan", "update", "commit"}
    PROVE  Handles'
<1> USE DEF IInv, TypeOK, Handles
<1>1. PICK r : answer' = [answer EXCEPT ![t] = r] /\ r.status \in {200, 302, 400, 404, 409}
  BY DEF Answers
<1>2. /\ pc' = [pc EXCEPT ![t] = "reply"]
      /\ db' = db /\ open' = open /\ normal' = normal /\ made' = made /\ indexes' = indexes
  BY DEF Answers, handle
<1>3. t \notin open \ {db}
  BY DEF Handles
<1>4. ASSUME NEW u \in Tabs PROVE
        /\ pc'[u] \in {"configure", "index"} => u \in open'
        /\ pc'[u] = "configure" => made'[u] = 0
        /\ pc'[u] = "index" => /\ u \in normal'
                               /\ \A k \in 1..made'[u] : IndexFields[k] \in indexes'
        /\ answer'[u].status = 500 => db' # u
  BY SMTT(30), <1>1, <1>2
<1>5. ASSUME NEW u \in open' \ {db'} PROVE
        \/ pc'[u] = "reply" /\ answer'[u].status = 500
        \/ pc'[u] \in {"configure", "index"}
  BY <1>1, <1>2, <1>3
<1>6. QED
  BY <1>2, <1>4, <1>5 DEF Handles

LEMMA AnswersAttempts ==
    ASSUME IInv, NEW t \in Tabs, Answers(t), attempts' = [attempts EXCEPT ![t] = 0]
    PROVE  Attempts'
  BY DEF IInv, TypeOK, Attempts, Answers

\* What the invariants of thread u are about.
Keeps(u) ==
    /\ pc'[u] = pc[u] /\ request'[u] = request[u] /\ snap'[u] = snap[u]
    /\ cursor'[u] = cursor[u] /\ found'[u] = found[u] /\ draft'[u] = draft[u]

\* A thread writes nothing of another thread's.
LEMMA Elsewhere ==
    ASSUME TypeOK, NEW t \in Tabs, NEW u \in Tabs, u # t,
           Ask(t) \/ GetDb(t) \/ ViewStep(t) \/ Reply(t)
    PROVE  Keeps(u)
<1> USE DEF TypeOK, Keeps, Goto, Respond, EndEdit, VisitNext, store, handle, scan, edit
<1>1. CASE Ask(t)
  BY <1>1 DEF Ask
<1>2. CASE CheckDb(t)
  BY <1>2 DEF CheckDb
<1>3. CASE Lock(t)
  BY <1>3 DEF Lock
<1>4. CASE Open(t)
  BY <1>4 DEF Open
<1>5. CASE SetSyncMode(t)
  BY <1>5 DEF SetSyncMode
<1>6. CASE CreateIndex(t)
  BY <1>6 DEF CreateIndex
<1>7. CASE OpenFails(t)
  BY <1>7 DEF OpenFails
<1>8. CASE Publish(t)
  BY <1>8 DEF Publish
<1>9. CASE ListOpen(t)
  BY <1>9 DEF ListOpen
<1>10. CASE ListNext(t)
  BY <1>10 DEF ListNext
<1>11. CASE ListEnd(t)
  BY <1>11 DEF ListEnd
<1>12. CASE Show(t)
  BY <1>12 DEF Show
<1>13. CASE Create(t)
  BY <1>13 DEF Create
<1>14. CASE Delete(t)
  BY <1>14 DEF Delete
<1>15. CASE EditBegin(t)
  BY <1>15 DEF EditBegin
<1>16. CASE EditUpdate(t)
  BY <1>16 DEF EditUpdate
<1>17. CASE EditCommit(t)
  BY <1>17 DEF EditCommit
<1>18. CASE EditConflict(t)
  BY <1>18 DEF EditConflict
<1>19. CASE Reply(t)
  BY <1>19 DEF Reply
<1>20. QED
  BY <1>1, <1>2, <1>3, <1>4, <1>5, <1>6, <1>7, <1>8, <1>9, <1>10, <1>11, <1>12, <1>13, <1>14, <1>15, <1>16, <1>17, <1>18, <1>19 DEF GetDb, ViewStep

\* Only list_view takes a thread through its loop.
LEMMA OnlyListScans ==
    ASSUME TypeOK, [Next]_vars, NEW u \in Tabs, pc'[u] = "scan"
    PROVE  Keeps(u) \/ ListOpen(u) \/ ListNext(u)
<1>1. CASE Tick
  BY <1>1 DEF Tick, Keeps, scan, edit
<1>2. CASE UNCHANGED vars
  BY <1>2 DEF vars, Keeps, scan, edit
<1>3. ASSUME NEW t \in Tabs, t # u, Ask(t) \/ GetDb(t) \/ ViewStep(t) \/ Reply(t)
      PROVE  Keeps(u)
  BY <1>3, Elsewhere
<1>4. ASSUME Ask(u) \/ GetDb(u) \/ ViewStep(u) \/ Reply(u)
      PROVE  Keeps(u) \/ ListOpen(u) \/ ListNext(u)
  <2> USE DEF TypeOK, Keeps, Goto, Respond, EndEdit, scan, edit
  <2>1. CASE Ask(u)
    BY <2>1 DEF Ask
  <2>2. CASE CheckDb(u)
    BY <2>2 DEF CheckDb
  <2>3. CASE Lock(u)
    BY <2>3 DEF Lock
  <2>4. CASE Open(u)
    BY <2>4 DEF Open
  <2>5. CASE SetSyncMode(u)
    BY <2>5 DEF SetSyncMode
  <2>6. CASE CreateIndex(u)
    BY <2>6 DEF CreateIndex
  <2>7. CASE OpenFails(u)
    BY <2>7 DEF OpenFails
  <2>8. CASE Publish(u)
    BY <2>8 DEF Publish
  <2>9. CASE ListEnd(u)
    BY <2>9 DEF ListEnd
  <2>10. CASE Show(u)
    BY <2>10 DEF Show
  <2>11. CASE Create(u)
    BY <2>11 DEF Create
  <2>12. CASE Delete(u)
    BY <2>12 DEF Delete
  <2>13. CASE EditBegin(u)
    BY <2>13 DEF EditBegin
  <2>14. CASE EditUpdate(u)
    BY <2>14 DEF EditUpdate
  <2>15. CASE EditCommit(u)
    BY <2>15 DEF EditCommit
  <2>16. CASE EditConflict(u)
    BY <2>16 DEF EditConflict
  <2>17. CASE Reply(u)
    BY <2>17 DEF Reply
  <2>18. QED
    BY <1>4, <2>1, <2>2, <2>3, <2>4, <2>5, <2>6, <2>7, <2>8, <2>9, <2>10, <2>11, <2>12, <2>13, <2>14, <2>15, <2>16, <2>17 DEF GetDb, ViewStep
<1>5. QED
  BY <1>1, <1>2, <1>3, <1>4 DEF Next

\* Only update(txn) takes a thread to its commit.
LEMMA OnlyUpdateDrafts ==
    ASSUME TypeOK, [Next]_vars, NEW u \in Tabs, pc'[u] = "commit"
    PROVE  Keeps(u) \/ EditUpdate(u)
<1>1. CASE Tick
  BY <1>1 DEF Tick, Keeps, scan, edit
<1>2. CASE UNCHANGED vars
  BY <1>2 DEF vars, Keeps, scan, edit
<1>3. ASSUME NEW t \in Tabs, t # u, Ask(t) \/ GetDb(t) \/ ViewStep(t) \/ Reply(t)
      PROVE  Keeps(u)
  BY <1>3, Elsewhere
<1>4. ASSUME Ask(u) \/ GetDb(u) \/ ViewStep(u) \/ Reply(u)
      PROVE  Keeps(u) \/ EditUpdate(u)
  <2> USE DEF TypeOK, Keeps, Goto, Respond, EndEdit, scan, edit
  <2>1. CASE Ask(u)
    BY <2>1 DEF Ask
  <2>2. CASE CheckDb(u)
    BY <2>2 DEF CheckDb
  <2>3. CASE Lock(u)
    BY <2>3 DEF Lock
  <2>4. CASE Open(u)
    BY <2>4 DEF Open
  <2>5. CASE SetSyncMode(u)
    BY <2>5 DEF SetSyncMode
  <2>6. CASE CreateIndex(u)
    BY <2>6 DEF CreateIndex
  <2>7. CASE OpenFails(u)
    BY <2>7 DEF OpenFails
  <2>8. CASE Publish(u)
    BY <2>8 DEF Publish
  <2>9. CASE ListOpen(u)
    BY <2>9 DEF ListOpen
  <2>10. CASE ListNext(u)
    BY <2>10 DEF ListNext
  <2>11. CASE ListEnd(u)
    BY <2>11 DEF ListEnd
  <2>12. CASE Show(u)
    BY <2>12 DEF Show
  <2>13. CASE Create(u)
    BY <2>13 DEF Create
  <2>14. CASE Delete(u)
    BY <2>14 DEF Delete
  <2>15. CASE EditBegin(u)
    BY <2>15 DEF EditBegin
  <2>16. CASE EditCommit(u)
    BY <2>16 DEF EditCommit
  <2>17. CASE EditConflict(u)
    BY <2>17 DEF EditConflict
  <2>18. CASE Reply(u)
    BY <2>18 DEF Reply
  <2>19. QED
    BY <1>4, <2>1, <2>2, <2>3, <2>4, <2>5, <2>6, <2>7, <2>8, <2>9, <2>10, <2>11, <2>12, <2>13, <2>14, <2>15, <2>16, <2>17, <2>18 DEF GetDb, ViewStep
<1>5. QED
  BY <1>1, <1>2, <1>3, <1>4 DEF Next

-----------------------------------------------------------------------------
(* Every step keeps the invariant.                                          *)

(* Every step keeps the types. *)
LEMMA TypeStep == IInv /\ [Next]_vars => TypeOK'
<1> SUFFICES ASSUME IInv, [Next]_vars PROVE TypeOK'
  OBVIOUS
<1> USE ConstantsAssumption DEF IInv, TypeOK, Pcs, Stamps, Attempts, Stage, IndexFields
<1>1. CASE Tick
  BY <1>1 DEF Tick, store, handle, scan, edit
<1>2. ASSUME NEW t \in Tabs, Ask(t) PROVE TypeOK'
  BY <1>2 DEF Ask, Goto, store, handle, scan, edit
<1>3. ASSUME NEW t \in Tabs, CheckDb(t) PROVE TypeOK'
  BY <1>3 DEF CheckDb, Goto, store, handle, scan, edit
<1>4. ASSUME NEW t \in Tabs, Lock(t) PROVE TypeOK'
  BY <1>4 DEF Lock, Goto, store, handle, scan, edit
<1>5. ASSUME NEW t \in Tabs, Open(t) PROVE TypeOK'
  BY <1>5 DEF Open, Goto, store, handle, scan, edit
<1>6. ASSUME NEW t \in Tabs, SetSyncMode(t) PROVE TypeOK'
  BY <1>6 DEF SetSyncMode, Goto, store, handle, scan, edit
<1>7. ASSUME NEW t \in Tabs, CreateIndex(t) PROVE TypeOK'
  BY <1>7 DEF CreateIndex, store, handle, scan, edit
<1>8. ASSUME NEW t \in Tabs, OpenFails(t) PROVE TypeOK'
  BY <1>8 DEF OpenFails, Respond, Goto, store, handle, scan, edit
<1>9. ASSUME NEW t \in Tabs, Publish(t) PROVE TypeOK'
  BY <1>9 DEF Publish, Goto, store, handle, scan, edit
<1>10. ASSUME NEW t \in Tabs, ListOpen(t) PROVE TypeOK'
  BY <1>10, NothingCollection DEF ListOpen, View, Goto, store, handle, scan, edit
<1>11. ASSUME NEW t \in Tabs, ListNext(t) PROVE TypeOK'
  <2>1. PICK i \in Ahead(t, snap[t]) : cursor' = [cursor EXCEPT ![t] = i]
    BY <1>11 DEF ListNext, VisitNext
  <2>2. i \in Nat
    BY DEF Ahead, IsCollection
  <2>3. DOMAIN found' = Tabs
    BY <1>11 DEF ListNext, VisitNext
  <2>4. QED
    BY <1>11, <2>1, <2>2, <2>3 DEF ListNext, store, handle, scan, edit
<1>12. ASSUME NEW t \in Tabs, ListEnd(t) PROVE TypeOK'
  BY <1>12, NothingCollection DEF ListEnd, Ahead, Respond, Goto, store, handle, scan, edit
<1>13. ASSUME NEW t \in Tabs, Show(t) PROVE TypeOK'
  BY <1>13 DEF Show, View, Respond, Goto, store, handle, scan, edit
<1>14. ASSUME NEW t \in Tabs, Create(t) PROVE TypeOK'
  <2>1. CASE request[t].title = Blank
    BY <1>14, <2>1 DEF Create, View, Respond, Goto, store, handle, scan, edit
  <2>2. CASE request[t].title # Blank
    <3>1. IsCollection(notes') /\ nextId' \in Nat
      BY <1>14, <2>2, WithCollection DEF Create
    <3>2. QED
      BY <1>14, <2>2, <3>1 DEF Create, View, Respond, Goto, store, handle, scan, edit
  <2>3. QED
    BY <2>1, <2>2
<1>15. ASSUME NEW t \in Tabs, Delete(t) PROVE TypeOK'
  BY <1>15, WithoutCollection DEF Delete, View, Respond, Goto, store, handle, scan, edit
<1>16. ASSUME NEW t \in Tabs, EditBegin(t) PROVE TypeOK'
  BY <1>16 DEF EditBegin, View, Goto, store, handle, scan, edit
<1>17. ASSUME NEW t \in Tabs, EditUpdate(t) PROVE TypeOK'
  <2>1. CASE request[t].id \in DOMAIN snap[t]
    BY <1>17, <2>1 DEF EditUpdate, Goto, store, handle, scan, edit
  <2>2. CASE request[t].id \notin DOMAIN snap[t]
    BY <1>17, <2>2, NothingCollection DEF EditUpdate, EndEdit, Respond, Goto, store, handle, scan, edit
  <2>3. QED
    BY <2>1, <2>2
<1>18. ASSUME NEW t \in Tabs, EditCommit(t) PROVE TypeOK'
  <2>1. IsCollection(notes')
    <3>1. request[t].id \in Nat
      BY <1>18 DEF EditCommit, ReadSetHolds, IsCollection
    <3>2. QED
      BY <1>18, <3>1, WithCollection DEF EditCommit
  <2>2. QED
    BY <1>18, <2>1, NothingCollection DEF EditCommit, EndEdit, Respond, Goto, store, handle, scan, edit
<1>19. ASSUME NEW t \in Tabs, EditConflict(t) PROVE TypeOK'
  <2>1. CASE attempts[t] < MaxAttempts
    BY <1>19, <2>1, NothingCollection DEF EditConflict, Goto, store, handle, scan, edit
  <2>2. CASE ~(attempts[t] < MaxAttempts)
    BY SMTT(30), <1>19, <2>2, NothingCollection DEF EditConflict, EndEdit, Respond, Goto, store, handle, scan, edit
  <2>3. QED
    BY <2>1, <2>2
<1>20. ASSUME NEW t \in Tabs, Reply(t) PROVE TypeOK'
  BY <1>20 DEF Reply, Goto, store, handle, scan, edit
<1>21. CASE UNCHANGED vars
  BY <1>21 DEF vars, store, handle, scan, edit
<1>22. QED
  BY <1>1, <1>2, <1>3, <1>4, <1>5, <1>6, <1>7, <1>8, <1>9, <1>10, <1>11, <1>12, <1>13, <1>14, <1>15, <1>16, <1>17, <1>18, <1>19, <1>20, <1>21 DEF Next, GetDb, ViewStep

(* Every step keeps a thread at its request. *)
LEMMA StageStep == IInv /\ [Next]_vars => Stage'
<1> SUFFICES ASSUME IInv, [Next]_vars PROVE Stage'
  OBVIOUS
<1> USE ConstantsAssumption DEF IInv, TypeOK, Stage, NoRequest, NoAnswer, Refusal, Response, Nothing
<1>1. CASE Tick
  BY <1>1 DEF Tick, store, handle, scan, edit
<1>2. ASSUME NEW t \in Tabs, Ask(t) PROVE Stage'
  <2>1. PICK r \in Requests : request' = [request EXCEPT ![t] = r]
    BY <1>2 DEF Ask
  <2>2. r # NoRequest
    BY ZenonT(40)
  <2>3. QED
    BY <1>2, <2>1, <2>2 DEF Ask, Goto, store, handle, scan, edit
<1>3. ASSUME NEW t \in Tabs, CheckDb(t) PROVE Stage'
  BY <1>3 DEF CheckDb, Goto, store, handle, scan, edit
<1>4. ASSUME NEW t \in Tabs, Lock(t) PROVE Stage'
  BY SMTT(30), <1>4 DEF Lock, Goto, store, handle, scan, edit
<1>5. ASSUME NEW t \in Tabs, Open(t) PROVE Stage'
  BY <1>5 DEF Open, Goto, store, handle, scan, edit
<1>6. ASSUME NEW t \in Tabs, SetSyncMode(t) PROVE Stage'
  BY <1>6 DEF SetSyncMode, Goto, store, handle, scan, edit
<1>7. ASSUME NEW t \in Tabs, CreateIndex(t) PROVE Stage'
  BY <1>7 DEF CreateIndex, store, handle, scan, edit
<1>8. ASSUME NEW t \in Tabs, OpenFails(t) PROVE Stage'
  BY SMTT(30), <1>8 DEF OpenFails, Respond, Goto, store, handle, scan, edit
<1>9. ASSUME NEW t \in Tabs, Publish(t) PROVE Stage'
  BY <1>9 DEF Publish, Goto, store, handle, scan, edit
<1>10. ASSUME NEW t \in Tabs, ListOpen(t) PROVE Stage'
  BY <1>10 DEF ListOpen, View, Goto, store, handle, scan, edit
<1>11. ASSUME NEW t \in Tabs, ListNext(t) PROVE Stage'
  BY <1>11 DEF ListNext, VisitNext, Ahead, store, handle, scan, edit
<1>12. ASSUME NEW t \in Tabs, ListEnd(t) PROVE Stage'
  <2>1. pc[t] = "scan" /\ request[t].op = "list"
    BY <1>12 DEF ListEnd, View, Stage
  <2>2. QED
    BY <1>12, <2>1, ViewAnswers, AnswersStage
<1>13. ASSUME NEW t \in Tabs, Show(t) PROVE Stage'
  <2>1. pc[t] = "view" /\ request[t].op \in {"detail", "form"}
    BY <1>13 DEF Show, View, Stage
  <2>2. QED
    BY <1>13, <2>1, ViewAnswers, AnswersStage
<1>14. ASSUME NEW t \in Tabs, Create(t) PROVE Stage'
  <2>1. pc[t] = "view" /\ request[t].op = "create"
    BY <1>14 DEF Create, View, Stage
  <2>2. QED
    BY <1>14, <2>1, ViewAnswers, AnswersStage
<1>15. ASSUME NEW t \in Tabs, Delete(t) PROVE Stage'
  <2>1. pc[t] = "view" /\ request[t].op = "delete"
    BY <1>15 DEF Delete, View, Stage
  <2>2. QED
    BY <1>15, <2>1, ViewAnswers, AnswersStage
<1>16. ASSUME NEW t \in Tabs, EditBegin(t) PROVE Stage'
  BY <1>16 DEF EditBegin, View, Goto, store, handle, scan, edit
<1>17. ASSUME NEW t \in Tabs, EditUpdate(t) PROVE Stage'
  <2>1. pc[t] = "update"
    BY <1>17 DEF EditUpdate
  <2>2. CASE Answers(t)
    BY <2>1, <2>2, AnswersStage
  <2>3. CASE Goto(t, "commit") /\ UNCHANGED <<answer, attempts, request, clock, handle, asked>>
    BY <2>1, <2>3 DEF Goto, handle
  <2>4. QED
    BY <1>17, <2>2, <2>3, UpdateShape
<1>18. ASSUME NEW t \in Tabs, EditCommit(t) PROVE Stage'
  <2>1. pc[t] = "commit" /\ request[t].op = "edit"
    BY <1>18 DEF EditCommit, View, Stage
  <2>2. QED
    BY <1>18, <2>1, ViewAnswers, AnswersStage
<1>19. ASSUME NEW t \in Tabs, EditConflict(t) PROVE Stage'
  <2>1. pc[t] = "commit"
    BY <1>19 DEF EditConflict
  <2>2. CASE Answers(t)
    BY <2>1, <2>2, AnswersStage
  <2>3. CASE Goto(t, "view") /\ UNCHANGED <<answer, attempts, request, clock, handle, asked>>
    BY <2>1, <2>3 DEF Goto, handle
  <2>4. QED
    BY <1>19, <2>2, <2>3, ConflictShape
<1>20. ASSUME NEW t \in Tabs, Reply(t) PROVE Stage'
  BY <1>20 DEF Reply, Goto, store, handle, scan, edit
<1>21. CASE UNCHANGED vars
  BY <1>21 DEF vars, store, handle, scan, edit
<1>22. QED
  BY <1>1, <1>2, <1>3, <1>4, <1>5, <1>6, <1>7, <1>8, <1>9, <1>10, <1>11, <1>12, <1>13, <1>14, <1>15, <1>16, <1>17, <1>18, <1>19, <1>20, <1>21 DEF Next, GetDb, ViewStep

(* Every step keeps to the budget of attempts. *)
LEMMA AttemptsStep == IInv /\ [Next]_vars => Attempts'
<1> SUFFICES ASSUME IInv, [Next]_vars PROVE Attempts'
  OBVIOUS
<1> USE ConstantsAssumption DEF IInv, TypeOK, Attempts, Stage
<1>1. CASE Tick
  BY <1>1 DEF Tick, store, handle, scan, edit
<1>2. ASSUME NEW t \in Tabs, Ask(t) PROVE Attempts'
  BY ZenonT(40), <1>2 DEF Ask, Goto, store, handle, scan, edit
<1>3. ASSUME NEW t \in Tabs, CheckDb(t) PROVE Attempts'
  BY SMTT(30), <1>3 DEF CheckDb, Goto, store, handle, scan, edit
<1>4. ASSUME NEW t \in Tabs, Lock(t) PROVE Attempts'
  <2>1. pc[t] = "lock" /\ UNCHANGED <<request, answer, attempts, db, open, normal, made, indexes>>
    BY <1>4 DEF Lock, edit
  <2>2. pc' = [pc EXCEPT ![t] = "view"] \/ pc' = [pc EXCEPT ![t] = "open"]
    BY <1>4 DEF Lock, Goto
  <2>3. CASE pc' = [pc EXCEPT ![t] = "view"]
    BY SMTT(30), <2>1, <2>3
  <2>4. CASE pc' = [pc EXCEPT ![t] = "open"]
    BY <2>1, <2>4
  <2>5. QED
    BY <2>2, <2>3, <2>4
<1>5. ASSUME NEW t \in Tabs, Open(t) PROVE Attempts'
  BY <1>5 DEF Open, Goto, store, handle, scan, edit
<1>6. ASSUME NEW t \in Tabs, SetSyncMode(t) PROVE Attempts'
  BY <1>6 DEF SetSyncMode, Goto, store, handle, scan, edit
<1>7. ASSUME NEW t \in Tabs, CreateIndex(t) PROVE Attempts'
  BY <1>7 DEF CreateIndex, store, handle, scan, edit
<1>8. ASSUME NEW t \in Tabs, OpenFails(t) PROVE Attempts'
  BY <1>8 DEF OpenFails, Respond, Goto, store, handle, scan, edit
<1>9. ASSUME NEW t \in Tabs, Publish(t) PROVE Attempts'
  BY <1>9 DEF Publish, Goto, store, handle, scan, edit
<1>10. ASSUME NEW t \in Tabs, ListOpen(t) PROVE Attempts'
  BY <1>10 DEF ListOpen, View, Goto, store, handle, scan, edit
<1>11. ASSUME NEW t \in Tabs, ListNext(t) PROVE Attempts'
  BY <1>11 DEF ListNext, VisitNext, Ahead, store, handle, scan, edit
<1>12. ASSUME NEW t \in Tabs, ListEnd(t) PROVE Attempts'
  BY <1>12 DEF ListEnd, Ahead, Respond, Goto, store, handle, scan, edit
<1>13. ASSUME NEW t \in Tabs, Show(t) PROVE Attempts'
  BY <1>13 DEF Show, View, Respond, Goto, store, handle, scan, edit
<1>14. ASSUME NEW t \in Tabs, Create(t) PROVE Attempts'
  BY ZenonT(40), <1>14 DEF Create, View, Respond, Goto, store, handle, scan, edit
<1>15. ASSUME NEW t \in Tabs, Delete(t) PROVE Attempts'
  BY <1>15 DEF Delete, View, Respond, Goto, store, handle, scan, edit
<1>16. ASSUME NEW t \in Tabs, EditBegin(t) PROVE Attempts'
  BY <1>16 DEF EditBegin, View, Goto, store, handle, scan, edit
<1>17. ASSUME NEW t \in Tabs, EditUpdate(t) PROVE Attempts'
  <2>1. pc[t] = "update" /\ request[t].op = "edit"
    BY <1>17 DEF EditUpdate, Stage
  <2>2. CASE Answers(t) /\ attempts' = [attempts EXCEPT ![t] = 0]
    BY <2>2, AnswersAttempts
  <2>3. CASE /\ TRUE
             /\ Goto(t, "commit")
             /\ UNCHANGED <<answer, attempts, request, clock, handle, asked>>
    BY <2>1, <2>3 DEF Goto
  <2>4. QED
    BY <1>17, <2>2, <2>3, UpdateShape
<1>18. ASSUME NEW t \in Tabs, EditCommit(t) PROVE Attempts'
  BY <1>18 DEF EditCommit, EndEdit, Respond, Goto, store, handle, scan, edit
<1>19. ASSUME NEW t \in Tabs, EditConflict(t) PROVE Attempts'
  <2>1. pc[t] = "commit" /\ request[t].op = "edit"
    BY <1>19 DEF EditConflict, Stage
  <2>2. CASE Answers(t) /\ attempts' = [attempts EXCEPT ![t] = 0]
    BY <2>2, AnswersAttempts
  <2>3. CASE /\ attempts[t] < MaxAttempts
             /\ Goto(t, "view")
             /\ UNCHANGED <<answer, attempts, request, clock, handle, asked>>
    BY <2>1, <2>3 DEF Goto
  <2>4. QED
    BY <1>19, <2>2, <2>3, ConflictShape
<1>20. ASSUME NEW t \in Tabs, Reply(t) PROVE Attempts'
  BY <1>20 DEF Reply, Goto, store, handle, scan, edit
<1>21. CASE UNCHANGED vars
  BY <1>21 DEF vars, store, handle, scan, edit
<1>22. QED
  BY <1>1, <1>2, <1>3, <1>4, <1>5, <1>6, <1>7, <1>8, <1>9, <1>10, <1>11, <1>12, <1>13, <1>14, <1>15, <1>16, <1>17, <1>18, <1>19, <1>20, <1>21 DEF Next, GetDb, ViewStep

(* Every step keeps notes_out the list of what was visited. *)
LEMMA ScannedStep == IInv /\ [Next]_vars => Scanned'
<1> SUFFICES ASSUME IInv, [Next]_vars, NEW u \in Tabs, pc'[u] = "scan"
             PROVE  found'[u] = Restrict(snap'[u], {i \in DOMAIN snap'[u] :
                                   i <= cursor'[u] /\ Matches(snap'[u][i], request'[u])})
  BY DEF Scanned
<1> USE DEF IInv
<1>1. CASE Keeps(u)
  BY <1>1 DEF Keeps, Scanned
<1>2. CASE ListOpen(u)
  <2>1. snap'[u] = notes /\ cursor'[u] = -1 /\ found'[u] = Nothing
    BY <1>2 DEF ListOpen, TypeOK
  <2>2. \A i \in DOMAIN notes : ~(i <= -1)
    BY DEF TypeOK, IsCollection
  <2>3. QED
    BY <2>1, <2>2 DEF Restrict, Nothing
<1>3. CASE ListNext(u)
  <2>1. PICK i \in Ahead(u, snap[u]) :
            /\ \A j \in Ahead(u, snap[u]) : i <= j
            /\ cursor' = [cursor EXCEPT ![u] = i]
            /\ found' = [found EXCEPT ![u] =
                   IF Matches(snap[u][i], request[u]) THEN With(@, i, snap[u][i]) ELSE @]
    BY <1>3 DEF ListNext, VisitNext
  <2>2. pc[u] = "scan" /\ snap'[u] = snap[u] /\ request'[u] = request[u] /\ cursor'[u] = i
    BY <1>3, <2>1 DEF ListNext, TypeOK
  <2>3. i \in DOMAIN snap[u] /\ DOMAIN snap[u] \subseteq Nat /\ cursor[u] \in Nat \cup {-1}
        /\ i > cursor[u]
    BY DEF Ahead, TypeOK, IsCollection
  <2>4. \A j \in DOMAIN snap[u] : j <= i <=> j <= cursor[u] \/ j = i
    BY <2>1, <2>3 DEF Ahead
  <2>5. found[u] = Restrict(snap[u], {j \in DOMAIN snap[u] :
                       j <= cursor[u] /\ Matches(snap[u][j], request[u])})
    BY <2>2 DEF Scanned
  <2>6. CASE Matches(snap[u][i], request[u])
    <3>1. found'[u] = With(found[u], i, snap[u][i])
      BY <2>1, <2>6 DEF TypeOK
    <3>2. {j \in DOMAIN snap[u] : j <= i /\ Matches(snap[u][j], request[u])}
            = DOMAIN found[u] \cup {i}
      BY <2>3, <2>4, <2>5, <2>6 DEF Restrict
    <3>3. \A j \in DOMAIN found[u] : found[u][j] = snap[u][j]
      BY <2>5 DEF Restrict
    <3>4. QED
      BY <2>2, <3>1, <3>2, <3>3 DEF With, Restrict
  <2>7. CASE ~Matches(snap[u][i], request[u])
    <3>1. found'[u] = found[u]
      BY <2>1, <2>7 DEF TypeOK
    <3>2. {j \in DOMAIN snap[u] : j <= i /\ Matches(snap[u][j], request[u])}
            = {j \in DOMAIN snap[u] : j <= cursor[u] /\ Matches(snap[u][j], request[u])}
      BY <2>3, <2>4, <2>7
    <3>3. QED
      BY <2>2, <2>5, <3>1, <3>2
  <2>8. QED
    BY <2>6, <2>7
<1>4. QED
  BY <1>1, <1>2, <1>3, OnlyListScans

(* Every step keeps a draft one edit away from the snapshot. *)
LEMMA DraftedStep == IInv /\ [Next]_vars => Drafted'
<1> SUFFICES ASSUME IInv, [Next]_vars, NEW u \in Tabs, pc'[u] = "commit"
             PROVE  /\ request'[u].id \in DOMAIN snap'[u]
                    /\ \E stamp \in Stamps :
                         draft'[u] = Edited(snap'[u][request'[u].id], request'[u], stamp)
  BY DEF Drafted
<1> USE DEF IInv
<1>1. CASE Keeps(u)
  BY <1>1 DEF Keeps, Drafted
<1>2. CASE EditUpdate(u)
  <2>1. request[u].id \in DOMAIN snap[u]
    BY <1>2 DEF EditUpdate, EndEdit, Respond, Goto, TypeOK
  <2>2. /\ draft'[u] = Edited(snap[u][request[u].id], request[u], clock)
        /\ snap'[u] = snap[u] /\ request'[u] = request[u]
    BY <1>2, <2>1 DEF EditUpdate, TypeOK
  <2>3. clock \in Stamps
    BY DEF TypeOK
  <2>4. QED
    BY <2>1, <2>2, <2>3
<1>3. QED
  BY <1>1, <1>2, OnlyUpdateDrafts

(* Every step keeps the lock with the opener. *)
LEMMA OpenerStep == IInv /\ [Next]_vars => Opener'
<1> SUFFICES ASSUME IInv, [Next]_vars PROVE Opener'
  OBVIOUS
<1> USE ConstantsAssumption DEF IInv, TypeOK, Opener
<1>1. CASE Tick
  BY <1>1 DEF Tick, store, handle, scan, edit
<1>2. ASSUME NEW t \in Tabs, Ask(t) PROVE Opener'
  BY <1>2 DEF Ask, Goto, store, handle, scan, edit
<1>3. ASSUME NEW t \in Tabs, CheckDb(t) PROVE Opener'
  BY <1>3 DEF CheckDb, Goto, store, handle, scan, edit
<1>4. ASSUME NEW t \in Tabs, Lock(t) PROVE Opener'
  BY SMTT(30), <1>4 DEF Lock, Goto, store, handle, scan, edit
<1>5. ASSUME NEW t \in Tabs, Open(t) PROVE Opener'
  BY <1>5 DEF Open, Goto, store, handle, scan, edit
<1>6. ASSUME NEW t \in Tabs, SetSyncMode(t) PROVE Opener'
  BY <1>6 DEF SetSyncMode, Goto, store, handle, scan, edit
<1>7. ASSUME NEW t \in Tabs, CreateIndex(t) PROVE Opener'
  BY <1>7 DEF CreateIndex, store, handle, scan, edit
<1>8. ASSUME NEW t \in Tabs, OpenFails(t) PROVE Opener'
  BY <1>8 DEF OpenFails, Respond, Goto, store, handle, scan, edit
<1>9. ASSUME NEW t \in Tabs, Publish(t) PROVE Opener'
  BY <1>9 DEF Publish, Goto, store, handle, scan, edit
<1>10. ASSUME NEW t \in Tabs, ListOpen(t) PROVE Opener'
  BY <1>10 DEF ListOpen, View, Goto, store, handle, scan, edit
<1>11. ASSUME NEW t \in Tabs, ListNext(t) PROVE Opener'
  BY <1>11 DEF ListNext, VisitNext, Ahead, store, handle, scan, edit
<1>12. ASSUME NEW t \in Tabs, ListEnd(t) PROVE Opener'
  BY <1>12 DEF ListEnd, Ahead, Respond, Goto, store, handle, scan, edit
<1>13. ASSUME NEW t \in Tabs, Show(t) PROVE Opener'
  BY <1>13 DEF Show, View, Respond, Goto, store, handle, scan, edit
<1>14. ASSUME NEW t \in Tabs, Create(t) PROVE Opener'
  BY SMTT(30), <1>14 DEF Create, View, Respond, Goto, store, handle, scan, edit
<1>15. ASSUME NEW t \in Tabs, Delete(t) PROVE Opener'
  BY <1>15 DEF Delete, View, Respond, Goto, store, handle, scan, edit
<1>16. ASSUME NEW t \in Tabs, EditBegin(t) PROVE Opener'
  BY <1>16 DEF EditBegin, View, Goto, store, handle, scan, edit
<1>17. ASSUME NEW t \in Tabs, EditUpdate(t) PROVE Opener'
  BY SMTT(30), <1>17 DEF EditUpdate, EndEdit, Respond, Goto, store, handle, scan, edit
<1>18. ASSUME NEW t \in Tabs, EditCommit(t) PROVE Opener'
  BY <1>18 DEF EditCommit, EndEdit, Respond, Goto, store, handle, scan, edit
<1>19. ASSUME NEW t \in Tabs, EditConflict(t) PROVE Opener'
  BY SMTT(30), <1>19 DEF EditConflict, EndEdit, Respond, Goto, store, handle, scan, edit
<1>20. ASSUME NEW t \in Tabs, Reply(t) PROVE Opener'
  BY <1>20 DEF Reply, Goto, store, handle, scan, edit
<1>21. CASE UNCHANGED vars
  BY <1>21 DEF vars, store, handle, scan, edit
<1>22. QED
  BY <1>1, <1>2, <1>3, <1>4, <1>5, <1>6, <1>7, <1>8, <1>9, <1>10, <1>11, <1>12, <1>13, <1>14, <1>15, <1>16, <1>17, <1>18, <1>19, <1>20, <1>21 DEF Next, GetDb, ViewStep

(* Every step keeps the published handle ready. *)
LEMMA HandlesStep == IInv /\ [Next]_vars => Handles'
<1> SUFFICES ASSUME IInv, [Next]_vars PROVE Handles'
  OBVIOUS
<1> USE ConstantsAssumption DEF IInv, TypeOK, Opener, Handles, Stage, NoAnswer, Refusal, Response
<1>1. CASE Tick
  BY <1>1 DEF Tick, store, handle, scan, edit
<1>2. ASSUME NEW t \in Tabs, Ask(t) PROVE Handles'
  BY SMTT(30), <1>2 DEF Ask, Goto, store, handle, scan, edit
<1>3. ASSUME NEW t \in Tabs, CheckDb(t) PROVE Handles'
  BY SMTT(30), <1>3 DEF CheckDb, Goto, store, handle, scan, edit
<1>4. ASSUME NEW t \in Tabs, Lock(t) PROVE Handles'
  <2>1. pc[t] = "lock" /\ UNCHANGED <<request, answer, attempts, db, open, normal, made, indexes>>
    BY <1>4 DEF Lock, edit
  <2>2. pc' = [pc EXCEPT ![t] = "view"] \/ pc' = [pc EXCEPT ![t] = "open"]
    BY <1>4 DEF Lock, Goto
  <2>3. CASE pc' = [pc EXCEPT ![t] = "view"]
    BY SMTT(30), <2>1, <2>3
  <2>4. CASE pc' = [pc EXCEPT ![t] = "open"]
    BY SMTT(30), <2>1, <2>4
  <2>5. QED
    BY <2>2, <2>3, <2>4
<1>5. ASSUME NEW t \in Tabs, Open(t) PROVE Handles'
  BY <1>5, IndexCount DEF Open, Goto, store, handle, scan, edit
<1>6. ASSUME NEW t \in Tabs, SetSyncMode(t) PROVE Handles'
  BY <1>6, IndexCount DEF SetSyncMode, Goto, store, handle, scan, edit
<1>7. ASSUME NEW t \in Tabs, CreateIndex(t) PROVE Handles'
  BY <1>7, IndexCount DEF CreateIndex, store, handle, scan, edit
<1>8. ASSUME NEW t \in Tabs, OpenFails(t) PROVE Handles'
  BY SMTT(30), <1>8 DEF OpenFails, Respond, Goto, store, handle, scan, edit
<1>9. ASSUME NEW t \in Tabs, Publish(t) PROVE Handles'
  BY <1>9, IndexCount DEF Publish, Goto, store, handle, scan, edit
<1>10. ASSUME NEW t \in Tabs, ListOpen(t) PROVE Handles'
  BY SMTT(30), <1>10 DEF ListOpen, View, Goto, store, handle, scan, edit
<1>11. ASSUME NEW t \in Tabs, ListNext(t) PROVE Handles'
  BY <1>11 DEF ListNext, VisitNext, Ahead, store, handle, scan, edit
<1>12. ASSUME NEW t \in Tabs, ListEnd(t) PROVE Handles'
  <2>1. pc[t] = "scan" /\ request[t].op = "list"
    BY <1>12 DEF ListEnd, View, Stage
  <2>2. QED
    BY SMTT(30), <1>12, <2>1, ViewAnswers, AnswersHandles
<1>13. ASSUME NEW t \in Tabs, Show(t) PROVE Handles'
  <2>1. pc[t] = "view" /\ request[t].op \in {"detail", "form"}
    BY <1>13 DEF Show, View, Stage
  <2>2. QED
    BY SMTT(30), <1>13, <2>1, ViewAnswers, AnswersHandles
<1>14. ASSUME NEW t \in Tabs, Create(t) PROVE Handles'
  <2>1. pc[t] = "view" /\ request[t].op = "create"
    BY <1>14 DEF Create, View, Stage
  <2>2. QED
    BY ZenonT(40), <1>14, <2>1, ViewAnswers, AnswersHandles
<1>15. ASSUME NEW t \in Tabs, Delete(t) PROVE Handles'
  <2>1. pc[t] = "view" /\ request[t].op = "delete"
    BY <1>15 DEF Delete, View, Stage
  <2>2. QED
    BY ZenonT(40), <1>15, <2>1, ViewAnswers, AnswersHandles
<1>16. ASSUME NEW t \in Tabs, EditBegin(t) PROVE Handles'
  BY SMTT(30), <1>16 DEF EditBegin, View, Goto, store, handle, scan, edit
<1>17. ASSUME NEW t \in Tabs, EditUpdate(t) PROVE Handles'
  <2>1. pc[t] = "update"
    BY <1>17 DEF EditUpdate
  <2>2. CASE Answers(t)
    BY SMTT(30), <2>1, <2>2, AnswersHandles
  <2>3. CASE Goto(t, "commit") /\ UNCHANGED <<answer, attempts, request, clock, handle, asked>>
    BY SMTT(30), <2>1, <2>3 DEF Goto, handle
  <2>4. QED
    BY <1>17, <2>2, <2>3, UpdateShape
<1>18. ASSUME NEW t \in Tabs, EditCommit(t) PROVE Handles'
  <2>1. pc[t] = "commit" /\ request[t].op = "edit"
    BY <1>18 DEF EditCommit, View, Stage
  <2>2. QED
    BY SMTT(30), <1>18, <2>1, ViewAnswers, AnswersHandles
<1>19. ASSUME NEW t \in Tabs, EditConflict(t) PROVE Handles'
  <2>1. pc[t] = "commit"
    BY <1>19 DEF EditConflict
  <2>2. CASE Answers(t)
    BY SMTT(30), <2>1, <2>2, AnswersHandles
  <2>3. CASE Goto(t, "view") /\ UNCHANGED <<answer, attempts, request, clock, handle, asked>>
    BY SMTT(30), <2>1, <2>3 DEF Goto, handle
  <2>4. QED
    BY <1>19, <2>2, <2>3, ConflictShape
<1>20. ASSUME NEW t \in Tabs, Reply(t) PROVE Handles'
  BY SMTT(30), <1>20 DEF Reply, Goto, store, handle, scan, edit
<1>21. CASE UNCHANGED vars
  BY <1>21 DEF vars, store, handle, scan, edit
<1>22. QED
  BY SMTT(30), <1>1, <1>2, <1>3, <1>4, <1>5, <1>6, <1>7, <1>8, <1>9, <1>10, <1>11, <1>12, <1>13, <1>14, <1>15, <1>16, <1>17, <1>18, <1>19, <1>20, <1>21 DEF Next, GetDb, ViewStep

(* Every step keeps the ids of the notes below the next one. *)
LEMMA BelowStep == IInv /\ [Next]_vars => Below'
<1> SUFFICES ASSUME IInv, [Next]_vars PROVE Below'
  OBVIOUS
<1> USE ConstantsAssumption DEF IInv, TypeOK, Below, IsCollection, With, Without, Restrict
<1>1. CASE Tick
  BY <1>1 DEF Tick, store, handle, scan, edit
<1>2. ASSUME NEW t \in Tabs, Ask(t) PROVE Below'
  BY <1>2 DEF Ask, Goto, store, handle, scan, edit
<1>3. ASSUME NEW t \in Tabs, CheckDb(t) PROVE Below'
  BY <1>3 DEF CheckDb, Goto, store, handle, scan, edit
<1>4. ASSUME NEW t \in Tabs, Lock(t) PROVE Below'
  BY <1>4 DEF Lock, Goto, store, handle, scan, edit
<1>5. ASSUME NEW t \in Tabs, Open(t) PROVE Below'
  BY <1>5 DEF Open, Goto, store, handle, scan, edit
<1>6. ASSUME NEW t \in Tabs, SetSyncMode(t) PROVE Below'
  BY <1>6 DEF SetSyncMode, Goto, store, handle, scan, edit
<1>7. ASSUME NEW t \in Tabs, CreateIndex(t) PROVE Below'
  BY <1>7 DEF CreateIndex, store, handle, scan, edit
<1>8. ASSUME NEW t \in Tabs, OpenFails(t) PROVE Below'
  BY <1>8 DEF OpenFails, Respond, Goto, store, handle, scan, edit
<1>9. ASSUME NEW t \in Tabs, Publish(t) PROVE Below'
  BY <1>9 DEF Publish, Goto, store, handle, scan, edit
<1>10. ASSUME NEW t \in Tabs, ListOpen(t) PROVE Below'
  BY <1>10 DEF ListOpen, View, Goto, store, handle, scan, edit
<1>11. ASSUME NEW t \in Tabs, ListNext(t) PROVE Below'
  BY <1>11 DEF ListNext, VisitNext, Ahead, store, handle, scan, edit
<1>12. ASSUME NEW t \in Tabs, ListEnd(t) PROVE Below'
  BY <1>12 DEF ListEnd, Ahead, Respond, Goto, store, handle, scan, edit
<1>13. ASSUME NEW t \in Tabs, Show(t) PROVE Below'
  BY <1>13 DEF Show, View, Respond, Goto, store, handle, scan, edit
<1>14. ASSUME NEW t \in Tabs, Create(t) PROVE Below'
  <2>1. CASE request[t].title = Blank
    BY <1>14, <2>1 DEF Create, store
  <2>2. CASE request[t].title # Blank
    BY <1>14, <2>2 DEF Create
  <2>3. QED
    BY <2>1, <2>2
<1>15. ASSUME NEW t \in Tabs, Delete(t) PROVE Below'
  BY <1>15 DEF Delete, View, Respond, Goto, store, handle, scan, edit
<1>16. ASSUME NEW t \in Tabs, EditBegin(t) PROVE Below'
  BY <1>16 DEF EditBegin, View, Goto, store, handle, scan, edit
<1>17. ASSUME NEW t \in Tabs, EditUpdate(t) PROVE Below'
  BY <1>17 DEF EditUpdate, EndEdit, Respond, Goto, store, handle, scan, edit
<1>18. ASSUME NEW t \in Tabs, EditCommit(t) PROVE Below'
  <2>1. request[t].id \in DOMAIN notes
    BY <1>18 DEF EditCommit, ReadSetHolds
  <2>2. DOMAIN notes' = DOMAIN notes \cup {request[t].id} /\ nextId' = nextId
    BY <1>18 DEF EditCommit
  <2>3. QED
    BY <2>1, <2>2
<1>19. ASSUME NEW t \in Tabs, EditConflict(t) PROVE Below'
  BY <1>19 DEF EditConflict, EndEdit, Respond, Goto, store, handle, scan, edit
<1>20. ASSUME NEW t \in Tabs, Reply(t) PROVE Below'
  BY <1>20 DEF Reply, Goto, store, handle, scan, edit
<1>21. CASE UNCHANGED vars
  BY <1>21 DEF vars, store, handle, scan, edit
<1>22. QED
  BY <1>1, <1>2, <1>3, <1>4, <1>5, <1>6, <1>7, <1>8, <1>9, <1>10, <1>11, <1>12, <1>13, <1>14, <1>15, <1>16, <1>17, <1>18, <1>19, <1>20, <1>21 DEF Next, GetDb, ViewStep

THEOREM Invariance == Spec => []IInv
<1>1. IInv /\ [Next]_vars => IInv'
  BY TypeStep, StageStep, AttemptsStep, ScannedStep, DraftedStep, OpenerStep,
     HandlesStep, BelowStep DEF IInv
<1>2. QED
  BY InitIInv, <1>1, PTL DEF Spec

-----------------------------------------------------------------------------
(* The theorems.                                                            *)

(* The variables keep their types: no thread begins more transactions for  *)
(* an edit than max_attempts.                                               *)
THEOREM TypeCorrect == Spec => []TypeOK
  BY Invariance, PTL DEF IInv

(* Whatever thread first sees _db, however the opening was raced for and    *)
(* however often it failed, it gets the one open handle, indexed.           *)
THEOREM PublishedReady == Spec => []PublishedIsReady
<1>1. IInv => PublishedIsReady
  <2> SUFFICES ASSUME IInv, db # NoTab, NEW t \in open \ {db}
               PROVE  /\ db \in open \cap normal
                      /\ \A k \in 1..Len(IndexFields) : IndexFields[k] \in indexes
                      /\ pc[t] = "reply" /\ answer[t].status = 500
    BY DEF IInv, Handles, PublishedIsReady
  <2>1. t \in Tabs /\ lock = NoTab /\ NoTab \notin Tabs
    BY ConstantsAssumption DEF IInv, TypeOK, Opener
  <2>2. pc[t] \notin {"configure", "index"}
    BY <2>1 DEF IInv, Opener
  <2>3. QED
    BY <2>2 DEF IInv, Handles
<1>2. QED
  BY Invariance, <1>1, PTL

(* No edit and no creation brings a deleted note back.                      *)
THEOREM DeletedStays == Spec => DeletedStaysDeleted
<1>1. IInv /\ [Next]_vars =>
        [\A i \in 0..nextId-1 : i \notin DOMAIN notes => i \notin DOMAIN notes']_vars
  <2> SUFFICES ASSUME IInv, [Next]_vars, NEW i \in 0..nextId-1, i \notin DOMAIN notes
               PROVE  i \notin DOMAIN notes'
    OBVIOUS
  <2>1. CASE notes' = notes
    BY <2>1
  <2>2. ASSUME NEW t \in Tabs, Create(t) PROVE i \notin DOMAIN notes'
    <3>1. notes' = notes \/ DOMAIN notes' = DOMAIN notes \cup {nextId}
      BY <2>2 DEF Create, With, store
    <3>2. nextId \in Nat
      BY DEF IInv, TypeOK
    <3>3. QED
      BY <3>1, <3>2
  <2>3. ASSUME NEW t \in Tabs, Delete(t) PROVE i \notin DOMAIN notes'
    BY <2>3 DEF Delete, Without, Restrict
  <2>4. ASSUME NEW t \in Tabs, EditCommit(t) PROVE i \notin DOMAIN notes'
    <3>1. DOMAIN notes' = DOMAIN notes \cup {request[t].id}
      BY <2>4 DEF EditCommit, With
    <3>2. request[t].id \in DOMAIN notes
      BY <2>4 DEF EditCommit, ReadSetHolds
    <3>3. QED
      BY <3>1, <3>2
  <2>5. QED
    BY <2>1, <2>2, <2>3, <2>4 DEF Next, GetDb, ViewStep, Tick, Ask, CheckDb, Lock,
       Open, SetSyncMode, CreateIndex, OpenFails, Publish, ListOpen, ListNext,
       ListEnd, Show, EditBegin, EditUpdate, EditConflict, Reply, vars, store
<1>2. QED
  BY Invariance, <1>1, PTL DEF Spec, DeletedStaysDeleted

-----------------------------------------------------------------------------
(* The refinement.                                                          *)

\* The state of Notebook that a state of Notes stands for.
Bar == [t \in Tabs |-> Promised(t)]

LEMMA PromisedElsewhere ==
    ASSUME TypeOK, NEW t \in Tabs, NEW u \in Tabs, u # t,
           Ask(t) \/ GetDb(t) \/ ViewStep(t) \/ Reply(t)
    PROVE  Promised(u)' = Promised(u)
<1>1. Keeps(u)
  BY Elsewhere
<1>2. answer'[u] = answer[u]
  BY DEF TypeOK, Respond, EndEdit, GetDb, ViewStep, Ask, CheckDb, Lock, Open,
     SetSyncMode, CreateIndex, OpenFails, Publish, ListOpen, ListNext, ListEnd, Show,
     Create, Delete, EditBegin, EditUpdate, EditCommit, EditConflict, Reply
<1>3. QED
  BY <1>1, <1>2 DEF Keeps, Promised

LEMMA BarStep ==
    ASSUME TypeOK, NEW t \in Tabs, Ask(t) \/ GetDb(t) \/ ViewStep(t) \/ Reply(t)
    PROVE  Bar' = [Bar EXCEPT ![t] = Promised(t)']
  BY PromisedElsewhere DEF Bar

LEMMA BarStays ==
    ASSUME TypeOK, NEW t \in Tabs, Ask(t) \/ GetDb(t) \/ ViewStep(t) \/ Reply(t),
           Promised(t)' = Promised(t)
    PROVE  Bar' = Bar
  BY PromisedElsewhere DEF Bar

\* Notebook's operators on values are those of this module.
LEMMA SameValues ==
    /\ NB!NoRequest = NoRequest
    /\ NB!NoAnswer = NoAnswer
    /\ \A status : NB!Refusal(status) = Refusal(status)
    /\ \A docs : NB!Page(docs) = Page(docs)
    /\ \A id : NB!Redirect(id) = Redirect(id)
    /\ \A ns, id : NB!Shown(ns, id) = Shown(ns, id)
    /\ \A ns, id : NB!Without(ns, id) = Without(ns, id)
    /\ \A ns, id, doc : NB!With(ns, id, doc) = With(ns, id, doc)
    /\ \A ns, r : NB!Listed(ns, r) = Listed(ns, r)
    /\ \A r, stamp : NB!Created(r, stamp) = Created(r, stamp)
    /\ \A doc, r, stamp : NB!Edited(doc, r, stamp) = Edited(doc, r, stamp)
<1> USE DEF NB!Response, NB!Nothing, NB!Restrict, Response, Nothing, Restrict
<1>1. NB!NoRequest = NoRequest /\ NB!NoAnswer = NoAnswer
  BY DEF NB!NoRequest, NB!NoAnswer, NoRequest, NoAnswer
<1>2. /\ \A status : NB!Refusal(status) = Refusal(status)
      /\ \A docs : NB!Page(docs) = Page(docs)
      /\ \A id : NB!Redirect(id) = Redirect(id)
  BY DEF NB!Refusal, NB!Page, NB!Redirect, Refusal, Page, Redirect
<1>3. \A ns, id : NB!Shown(ns, id) = Shown(ns, id)
  BY <1>2 DEF NB!Shown, Shown
<1>4. \A ns, id : NB!Without(ns, id) = Without(ns, id)
  BY DEF NB!Without, Without
<1>5. \A ns, id, doc : NB!With(ns, id, doc) = With(ns, id, doc)
  BY DEF NB!With, With
<1>6. \A ns, r : NB!Listed(ns, r) = Listed(ns, r)
  BY DEF NB!Listed, NB!Matches, Listed, Matches
<1>7. /\ \A r, stamp : NB!Created(r, stamp) = Created(r, stamp)
      /\ \A doc, r, stamp : NB!Edited(doc, r, stamp) = Edited(doc, r, stamp)
  BY DEF NB!Created, NB!Edited, Created, Edited
<1>8. QED
  BY <1>1, <1>2, <1>3, <1>4, <1>5, <1>6, <1>7

LEMMA RefinesInit == Init => NB!Init
<1> SUFFICES ASSUME Init PROVE NB!Init
  OBVIOUS
<1>1. Bar = [t \in Tabs |-> NoAnswer]
  BY DEF Init, Bar, Promised
<1>2. nextId \in Nat \ DOMAIN Stored
  BY ConstantsAssumption DEF Init
<1>3. QED
  BY <1>1, <1>2, SameValues DEF Init, NB!Init, Bar

\* While its thread has neither an answer nor a promise the tab has none.
LEMMA Unanswered ==
    ASSUME IInv, NEW t \in Tabs, pc[t] \notin {"reply", "scan", "update"}
    PROVE  Promised(t) = NoAnswer
  BY DEF IInv, Stage, Promised

\* Steps Notebook does not see.
Quiet == UNCHANGED <<notes, nextId, request>> /\ Bar' = Bar

LEMMA QuietSteps ==
    ASSUME IInv, NEW t \in Tabs,
           \/ CheckDb(t) \/ Lock(t) \/ Open(t) \/ SetSyncMode(t) \/ CreateIndex(t)
           \/ Publish(t) \/ ListNext(t)
    PROVE  Quiet
<1> USE DEF IInv
<1>1. UNCHANGED <<notes, nextId, request>> /\ answer' = answer /\ snap' = snap
  BY DEF CheckDb, Lock, Open, SetSyncMode, CreateIndex, Publish, ListNext, store
<1>2. \/ pc[t] \notin {"scan", "update"} /\ pc'[t] \notin {"scan", "update"}
      \/ pc'[t] = pc[t]
  BY DEF TypeOK, CheckDb, Lock, Open, SetSyncMode, CreateIndex, Publish, ListNext, Goto
<1>3. Promised(t)' = Promised(t)
  BY <1>1, <1>2 DEF Promised
<1>4. QED
  BY <1>1, <1>3, BarStays DEF Quiet, GetDb, ViewStep

LEMMA ListEndQuiet ==
    ASSUME IInv, NEW t \in Tabs, ListEnd(t) PROVE Quiet
<1> USE DEF IInv
<1>1. found[t] = Listed(snap[t], request[t])
  <2>1. \A i \in DOMAIN snap[t] : i <= cursor[t]
    <3>1. DOMAIN snap[t] \subseteq Nat /\ cursor[t] \in Nat \cup {-1}
      BY DEF TypeOK, IsCollection
    <3>2. \A i \in DOMAIN snap[t] : ~(i > cursor[t])
      BY DEF ListEnd, Ahead
    <3>3. QED
      BY <3>1, <3>2
  <2>2. QED
    BY <2>1 DEF ListEnd, Scanned, Listed
<1>2. Promised(t) = Page(found[t])
  BY <1>1 DEF ListEnd, Promised
<1>3. Promised(t)' = Page(found[t])
  BY DEF ListEnd, Respond, Goto, Promised, TypeOK
<1>4. QED
  BY <1>2, <1>3, BarStays DEF Quiet, ViewStep, ListEnd, store

LEMMA ViewRefines ==
    ASSUME IInv, NEW t \in Tabs,
           ListOpen(t) \/ Show(t) \/ Create(t) \/ Delete(t)
    PROVE  NB!Serve(t)
<1> USE DEF IInv
<1>1. Promised(t) = NoAnswer /\ pc[t] = "view"
  BY Unanswered DEF ListOpen, Show, Create, Delete, View
<1>2. Bar' = [Bar EXCEPT ![t] = Promised(t)']
  BY BarStep DEF ViewStep
<1>3. Bar[t] = NoAnswer
  BY <1>1 DEF Bar
<1>4. CASE ListOpen(t)
  <2>1. Promised(t)' = Page(Listed(notes, request[t]))
    BY <1>4 DEF ListOpen, Goto, Promised, TypeOK
  <2>2. NB!List(t)
    BY <1>2, <1>3, <1>4, <2>1, SameValues
    DEF NB!List, NB!Pending, NB!Answer, Bar, ListOpen, View, store
  <2>3. QED
    BY <2>2 DEF NB!Serve
<1>5. CASE Show(t)
  <2>1. Promised(t)' = Shown(notes, request[t].id)
    BY <1>5 DEF Show, Respond, Goto, Promised, TypeOK
  <2>2. NB!Show(t)
    BY <1>2, <1>3, <1>5, <2>1, SameValues
    DEF NB!Show, NB!Pending, NB!Answer, Bar, Show, View, store
  <2>3. QED
    BY <2>2 DEF NB!Serve
<1>6. CASE Create(t)
  <2>1. clock \in Stamps
    BY DEF TypeOK
  <2>2. CASE request[t].title = Blank
    <3>1. Promised(t)' = Refusal(400)
      BY <1>6, <2>2 DEF Create, Respond, Goto, Promised, TypeOK
    <3>2. NB!Create(t)
      BY ZenonT(40), <1>2, <1>3, <1>6, <2>2, <3>1, SameValues
      DEF NB!Create, NB!Pending, NB!Answer, Bar, Create, View, store
    <3>3. QED
      BY <3>2 DEF NB!Serve
  <2>3. CASE request[t].title # Blank
    <3>1. Promised(t)' = Redirect(nextId)
      BY <1>6, <2>3 DEF Create, Respond, Goto, Promised, TypeOK
    <3>2. NB!Create(t)
      BY <1>2, <1>3, <1>6, <2>1, <2>3, <3>1, SameValues
      DEF NB!Create, NB!Pending, NB!Answer, Bar, Create, View
    <3>3. QED
      BY <3>2 DEF NB!Serve
  <2>4. QED
    BY <2>2, <2>3
<1>7. CASE Delete(t)
  <2>1. Promised(t)' = Redirect(0)
    BY <1>7 DEF Delete, Respond, Goto, Promised, TypeOK
  <2>2. NB!Delete(t)
    BY <1>2, <1>3, <1>7, <2>1, SameValues
    DEF NB!Delete, NB!Pending, NB!Answer, Bar, Delete, View
  <2>3. QED
    BY <2>2 DEF NB!Serve
<1>8. QED
  BY <1>4, <1>5, <1>6, <1>7

\* An edit whose snapshot lacks the note has lost it when it begins.
LEMMA EditBeginRefines ==
    ASSUME IInv, NEW t \in Tabs, EditBegin(t) PROVE Quiet \/ NB!Serve(t)
<1> USE DEF IInv
<1>1. Promised(t) = NoAnswer
  BY Unanswered DEF EditBegin, View
<1>2. /\ pc'[t] = "update" /\ snap'[t] = notes /\ answer'[t] = answer[t]
      /\ UNCHANGED <<notes, nextId, request>>
  BY DEF EditBegin, Goto, TypeOK, store
<1>3. CASE request[t].id \in DOMAIN notes
  <2>1. answer[t] = NoAnswer
    BY DEF EditBegin, View, Stage
  <2>2. Promised(t)' = NoAnswer
    BY <1>2, <1>3, <2>1 DEF Promised
  <2>3. QED
    BY <1>1, <1>2, <2>2, BarStays DEF Quiet, ViewStep
<1>4. CASE request[t].id \notin DOMAIN notes
  <2>1. Promised(t)' = Refusal(404)
    BY <1>2, <1>4 DEF Promised
  <2>2. Bar' = [Bar EXCEPT ![t] = Promised(t)']
    BY BarStep DEF ViewStep
  <2>3. NB!Edit(t)
    BY <1>1, <1>2, <1>4, <2>1, <2>2, SameValues
    DEF NB!Edit, NB!Pending, NB!Answer, Bar, EditBegin, View
  <2>4. QED
    BY <2>3 DEF NB!Serve
<1>5. QED
  BY <1>3, <1>4

LEMMA EditUpdateQuiet ==
    ASSUME IInv, NEW t \in Tabs, EditUpdate(t) PROVE Quiet
<1> USE DEF IInv
<1>1. pc[t] = "update" /\ UNCHANGED <<notes, nextId, request>>
  BY DEF EditUpdate, store
<1>2. CASE request[t].id \in DOMAIN snap[t]
  <2>1. pc'[t] = "commit" /\ answer' = answer
    BY <1>2 DEF EditUpdate, Goto, TypeOK
  <2>2. QED
    BY <1>1, <1>2, <2>1, BarStays DEF Quiet, ViewStep, Promised
<1>3. CASE request[t].id \notin DOMAIN snap[t]
  <2>1. pc'[t] = "reply" /\ answer'[t] = Refusal(404)
    BY <1>3 DEF EditUpdate, EndEdit, Respond, Goto, TypeOK
  <2>2. QED
    BY <1>1, <1>3, <2>1, BarStays DEF Quiet, ViewStep, Promised
<1>4. QED
  BY <1>2, <1>3

\* A commit whose read set holds edits the note as it is now.
LEMMA EditCommitRefines ==
    ASSUME IInv, NEW t \in Tabs, EditCommit(t) PROVE NB!Serve(t)
<1> USE DEF IInv
<1>1. Promised(t) = NoAnswer
  BY Unanswered DEF EditCommit
<1>2. Promised(t)' = Redirect(request[t].id)
  BY DEF EditCommit, EndEdit, Respond, Goto, Promised, TypeOK
<1>3. PICK stamp \in Stamps : draft[t] = Edited(snap[t][request[t].id], request[t], stamp)
  BY DEF EditCommit, Drafted
<1>4. /\ request[t].id \in DOMAIN notes
      /\ notes' = With(notes, request[t].id, Edited(notes[request[t].id], request[t], stamp))
  BY <1>3 DEF EditCommit, ReadSetHolds
<1>5. Bar' = [Bar EXCEPT ![t] = Promised(t)']
  BY BarStep DEF ViewStep
<1>6. NB!Edit(t)
  BY <1>1, <1>2, <1>4, <1>5, SameValues
  DEF NB!Edit, NB!Pending, NB!Answer, Bar, EditCommit, Stage
<1>7. QED
  BY <1>6 DEF NB!Serve

LEMMA EditConflictRefines ==
    ASSUME IInv, NEW t \in Tabs, EditConflict(t) PROVE Quiet \/ NB!Serve(t)
<1> USE DEF IInv
<1>1. /\ pc[t] = "commit" /\ UNCHANGED <<notes, nextId, request>>
      /\ answer[t] = NoAnswer /\ request[t].op = "edit" /\ Promised(t) = NoAnswer
  BY Unanswered DEF EditConflict, store, Stage
<1>2. CASE attempts[t] < MaxAttempts
  <2>1. pc'[t] = "view" /\ answer' = answer
    BY <1>2 DEF EditConflict, Goto, TypeOK
  <2>2. QED
    BY <1>1, <2>1, BarStays DEF Quiet, ViewStep, Promised
<1>3. CASE ~(attempts[t] < MaxAttempts)
  <2>1. pc'[t] = "reply" /\ answer'[t] = Refusal(409)
    BY <1>3 DEF EditConflict, EndEdit, Respond, Goto, TypeOK
  <2>2. Bar' = [Bar EXCEPT ![t] = Refusal(409)]
    BY <2>1, BarStep DEF ViewStep, Promised
  <2>3. NB!Refuse(t)
    BY <1>1, <2>2, SameValues DEF NB!Refuse, NB!Pending, NB!Answer, Bar
  <2>4. QED
    BY <2>3 DEF NB!Serve
<1>4. QED
  BY <1>2, <1>3

LEMMA OpenFailsRefines ==
    ASSUME IInv, NEW t \in Tabs, OpenFails(t) PROVE NB!Serve(t)
<1> USE DEF IInv
<1>1. Promised(t) = NoAnswer /\ request[t] # NoRequest
  BY Unanswered DEF OpenFails, Stage
<1>2. Promised(t)' = Refusal(500)
  BY DEF OpenFails, Respond, Goto, Promised, TypeOK
<1>3. Bar' = [Bar EXCEPT ![t] = Promised(t)']
  BY BarStep DEF GetDb
<1>4. NB!Fail(t)
  BY ZenonT(40), <1>1, <1>2, <1>3, SameValues DEF NB!Fail, NB!Answer, Bar, OpenFails, store
<1>5. QED
  BY <1>4 DEF NB!Serve

LEMMA AskRefines ==
    ASSUME IInv, NEW t \in Tabs, Ask(t) PROVE NB!Ask(t)
<1> USE DEF IInv
<1>1. Promised(t) = NoAnswer /\ request[t] = NoRequest /\ answer[t] = NoAnswer
  BY Unanswered DEF Ask, Stage
<1>2. Promised(t)' = NoAnswer
  BY <1>1 DEF Ask, Goto, Promised, TypeOK
<1>3. Bar' = Bar
  BY <1>1, <1>2, BarStays
<1>4. QED
  BY <1>1, <1>3, SameValues DEF NB!Ask, Ask, Bar, store

LEMMA ReplyRefines ==
    ASSUME IInv, NEW t \in Tabs, Reply(t) PROVE NB!Reply(t)
<1> USE DEF IInv
<1>1. Promised(t) = answer[t] /\ answer[t] # NoAnswer
  BY DEF Reply, Promised, Stage, NoAnswer, Response
<1>2. Promised(t)' = NoAnswer
  BY DEF Reply, Goto, Promised, TypeOK
<1>3. Bar' = [Bar EXCEPT ![t] = NoAnswer]
  BY <1>2, BarStep
<1>4. QED
  BY <1>1, <1>3, SameValues DEF NB!Reply, NB!Answer, Reply, Bar, store

LEMMA RefinesStep == IInv /\ [Next]_vars => [NB!Next]_(NB!nbvars)
<1> SUFFICES ASSUME IInv, [Next]_vars PROVE NB!Next \/ Quiet
  BY DEF NB!nbvars, Quiet, Bar
<1>1. CASE Tick
  BY <1>1 DEF Tick, Quiet, Bar, Promised, store
<1>2. CASE UNCHANGED vars
  BY <1>2 DEF vars, Quiet, Bar, Promised, store
<1>3. ASSUME NEW t \in Tabs, Ask(t) \/ GetDb(t) \/ ViewStep(t) \/ Reply(t)
      PROVE  NB!Ask(t) \/ NB!Serve(t) \/ NB!Reply(t) \/ Quiet
  BY <1>3, QuietSteps, ListEndQuiet, ViewRefines, EditBeginRefines, EditUpdateQuiet,
     EditCommitRefines, EditConflictRefines, OpenFailsRefines, AskRefines, ReplyRefines
  DEF GetDb, ViewStep
<1>4. QED
  BY <1>1, <1>2, <1>3 DEF Next, NB!Next

(* The application implements Notebook: every request takes effect and has  *)
(* its answer fixed in one step, whatever the number of tabs, the notes     *)
(* stored and the requests sent.                                            *)
THEOREM Implements == Spec => Refinement
  BY RefinesInit, Invariance, RefinesStep, PTL DEF Spec, Refinement, NB!Spec

=============================================================================
