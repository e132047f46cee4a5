----------------------------- MODULE MCAccounts -----------------------------
(***************************************************************************)
(* Small instances of Accounts for TLC: every transfer between the first   *)
(* accounts, every amount the width has, and accounts opened rich, at the  *)
(* limit of their debits, or owing.                                        *)
(***************************************************************************)
EXTENDS Accounts

MCOperations ==
         [type: {"add_account"}, credits: {0}, debits: {U128Max},
          flags: {{"send", "receive"}}]
    \cup [type: {"add_account"}, credits: {1}, debits: {0},
          flags: {{"send", "receive", "debt"}}]
    \cup [type: {"make_transfer"}, from_id: 0 .. MaxAccounts,
          to_id: 0 .. MaxAccounts - 1, amount: U128]
    \cup [type: {"update_account"}, account_id: 0 .. MaxAccounts,
          flags: {{"receive"}, {"send", "receive"}}]

=============================================================================
