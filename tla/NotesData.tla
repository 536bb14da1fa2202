----------------------------- MODULE NotesData -----------------------------
(***************************************************************************)
(* The documents, requests and responses of the notes application (its     *)
(* views.py), as values.                                                   *)
(***************************************************************************)
EXTENDS Integers, Functions

CONSTANTS
    Blank,     \* a title with nothing in it
    NoTag      \* a list request without a tag

NoRequest == [op |-> "none"]

-----------------------------------------------------------------------------
(* Responses: a status, the documents the page shows, the note a redirect   *)
(* leads to.                                                                *)

Nothing == [i \in {} |-> 0]
Response(status, docs, id) == [status |-> status, docs |-> docs, id |-> id]
NoAnswer == Response(0, Nothing, 0)
Page(docs) == Response(200, docs, 0)
Redirect(id) == Response(302, Nothing, id)
Refusal(status) == Response(status, Nothing, 0)

-----------------------------------------------------------------------------
(* What a request means for a function ns from ids to notes.                *)

With(ns, id, doc) == [i \in DOMAIN ns \cup {id} |-> IF i = id THEN doc ELSE ns[i]]
Without(ns, id) == Restrict(ns, DOMAIN ns \ {id})

\* The filter of list_view: the user's notes, with the tag if one is given.
Matches(doc, r) == doc.user_id = r.user /\ (r.tag = NoTag \/ r.tag \in doc.tags)
Listed(ns, r) == Restrict(ns, {i \in DOMAIN ns : Matches(ns[i], r)})

Created(r, stamp) ==
    [user_id |-> r.user, title |-> r.title, tags |-> r.tags, updated_at |-> stamp]
\* An edit keeps the note's owner, whoever sends it.
Edited(doc, r, stamp) ==
    [doc EXCEPT !.title = r.title, !.tags = r.tags, !.updated_at = stamp]

Shown(ns, id) == IF id \in DOMAIN ns THEN Page(Restrict(ns, {id})) ELSE Refusal(404)
=============================================================================
