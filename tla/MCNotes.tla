------------------------------ MODULE MCNotes ------------------------------
(* Small instances of Notes for TLC.                                        *)
EXTENDS Notes, TLC

MCStored == (1 :> [user_id |-> "ann", title |-> "milk", tags |-> {}, updated_at |-> 0])
            @@ (3 :> [user_id |-> "ann", title |-> "tea", tags |-> {"shop"}, updated_at |-> 0])

EditOf(id, user, title, tags) ==
    [op |-> "edit", id |-> id, user |-> user, title |-> title, tags |-> tags]
ListOf(user, tag) == [op |-> "list", user |-> user, tag |-> tag]

\* Every operation; notes that are there, were deleted, never were.
MCRequests == {
    ListOf("ann", NoTag), ListOf("ann", "shop"),
    [op |-> "create", user |-> "bob", title |-> "rice", tags |-> {"shop"}],
    [op |-> "create", user |-> "bob", title |-> Blank, tags |-> {}],
    [op |-> "detail", id |-> 4],
    [op |-> "form", id |-> 1],
    EditOf(1, "bob", "milk", {"shop"}), EditOf(1, "ann", Blank, {}),
    [op |-> "delete", id |-> 1] }
=============================================================================
