------------------------------ MODULE Notebook ------------------------------
(***************************************************************************)
(* What the notes application (realworldexamples/django) promises to the   *)
(* tabs of its users: every request takes effect, or is answered from the  *)
(* notes as they were, in one step between its arrival and its reply; an   *)
(* edit may instead be refused, and any request may fail without effect.   *)
(* Notes shows that the views, with their handle, snapshots and retries,   *)
(* implement this.                                                         *)
(***************************************************************************)
EXTENDS NotesData

CONSTANTS
    Tabs,      \* browser tabs; each has one request at a time
    Requests,  \* the requests a tab may send
    Stored,    \* the notes in the file when the server starts
    Stamps     \* the values of updated_at

VARIABLES
    notes,    \* the collection "notes": a function of document ids
    nextId,   \* the id the next new note gets
    request,  \* what each tab waits for
    answer    \* the response on its way to the tab

nbvars == <<notes, nextId, request, answer>>

-----------------------------------------------------------------------------
Init ==
    /\ notes = Stored
    /\ nextId \in Nat \ DOMAIN Stored
    /\ request = [t \in Tabs |-> NoRequest]
    /\ answer = [t \in Tabs |-> NoAnswer]

Ask(t) ==
    /\ request[t] = NoRequest
    /\ \E r \in Requests : request' = [request EXCEPT ![t] = r]
    /\ UNCHANGED <<notes, nextId, answer>>

Answer(t, response) == answer' = [answer EXCEPT ![t] = response]

\* The request of tab t has the operation op and no answer yet.
Pending(t, op) == request[t].op = op /\ answer[t] = NoAnswer

List(t) ==
    /\ Pending(t, "list")
    /\ Answer(t, Page(Listed(notes, request[t])))
    /\ UNCHANGED <<notes, nextId, request>>

Show(t) ==
    /\ Pending(t, "detail") \/ Pending(t, "form")
    /\ Answer(t, Shown(notes, request[t].id))
    /\ UNCHANGED <<notes, nextId, request>>

Create(t) ==
    /\ Pending(t, "create")
    /\ IF request[t].title = Blank
         THEN Answer(t, Refusal(400)) /\ UNCHANGED <<notes, nextId>>
         ELSE /\ \E stamp \in Stamps :
                    notes' = With(notes, nextId, Created(request[t], stamp))
              /\ nextId' = nextId + 1
              /\ Answer(t, Redirect(nextId))
    /\ UNCHANGED request

Edit(t) ==
    /\ Pending(t, "edit")
    /\ LET id == request[t].id IN
         IF id \in DOMAIN notes
           THEN /\ \E stamp \in Stamps :
                      notes' = With(notes, id, Edited(notes[id], request[t], stamp))
                /\ Answer(t, Redirect(id))
           ELSE Answer(t, Refusal(404)) /\ UNCHANGED notes
    /\ UNCHANGED <<nextId, request>>

Delete(t) ==
    /\ Pending(t, "delete")
    /\ notes' = Without(notes, request[t].id)
    /\ Answer(t, Redirect(0))
    /\ UNCHANGED <<nextId, request>>

\* Too many concurrent edits.
Refuse(t) ==
    /\ Pending(t, "edit")
    /\ Answer(t, Refusal(409))
    /\ UNCHANGED <<notes, nextId, request>>

\* The database could not be opened or indexed.
Fail(t) ==
    /\ request[t] # NoRequest /\ answer[t] = NoAnswer
    /\ Answer(t, Refusal(500))
    /\ UNCHANGED <<notes, nextId, request>>

Serve(t) ==
    \/ List(t) \/ Show(t) \/ Create(t) \/ Edit(t) \/ Delete(t)
    \/ Refuse(t) \/ Fail(t)

Reply(t) ==
    /\ answer[t] # NoAnswer
    /\ request' = [request EXCEPT ![t] = NoRequest]
    /\ Answer(t, NoAnswer)
    /\ UNCHANGED <<notes, nextId>>

Next == \E t \in Tabs : Ask(t) \/ Serve(t) \/ Reply(t)

Spec == Init /\ [][Next]_nbvars
=============================================================================
