------------------------------- MODULE MCLetDB -------------------------------
(***************************************************************************)
(* Small instances of LetDB for TLC.                                       *)
(***************************************************************************)
EXTENDS LetDB

Add(credits, debits, flags) ==
    [type |-> "add_account", credits |-> credits, debits |-> debits, flags |-> flags]
Transfer(from, to, amount) ==
    [type |-> "make_transfer", from_id |-> from, to_id |-> to, amount |-> amount]
Update(id, flags) ==
    [type |-> "update_account", account_id |-> id, flags |-> flags]

\* Two accounts, one rich; transfers both ways; a freeze of the first.
MCOperations ==
    {Add(0, 3, {"send", "receive"}), Add(1, 2, {"send", "receive"}),
     Transfer(0, 1, 2), Transfer(1, 0, 1), Transfer(0, 1, 3), Transfer(1, 0, 4),
     Update(0, {"receive"}), Update(0, {"send", "receive", "debt"})}

=============================================================================
