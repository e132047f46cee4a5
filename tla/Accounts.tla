------------------------------ MODULE Accounts ------------------------------
(***************************************************************************)
(* The account list under the guard and the state machine alone: what the  *)
(* engine of LetDB does to its accounts, with storage, time and the list's *)
(* allocation left out, so that the integers can be as narrow, and         *)
(* histories as long, as a run needs (account.c, guard.c, state.c).        *)
(***************************************************************************)
EXTENDS Ledger

CONSTANTS Operations,   \* the operations clients ask for
          MaxAccounts   \* bound: accounts added

ASSUME AccountsAssumption ==
    /\ Operations \subseteq Operation
    /\ MaxAccounts \in Nat

VARIABLE accts

TypeOK == accts \in Seq(Account)

Init == accts = <<>>

\* let_state_add_account
AddAccount(op) ==
    /\ op.type = "add_account"
    /\ Len(accts) < MaxAccounts
    /\ accts' = Apply(accts, op, 0, 0)

\* let_guard_make_transfer, then let_state_make_transfer
MakeTransfer(op) ==
    /\ op.type = "make_transfer"
    /\ Guard(accts, op)
    /\ accts' = Apply(accts, op, 0, 0)

\* let_guard_update_account, then let_state_update_account
UpdateAccount(op) ==
    /\ op.type = "update_account"
    /\ Guard(accts, op)
    /\ accts' = Apply(accts, op, 0, 0)

\* The guard refuses.
Reject(op) == ~Guard(accts, op) /\ UNCHANGED accts

Next == \E op \in Operations :
            AddAccount(op) \/ MakeTransfer(op) \/ UpdateAccount(op) \/ Reject(op)

Spec == Init /\ [][Next]_accts

-----------------------------------------------------------------------------
Common == DOMAIN accts \cap DOMAIN accts'

\* An account that may not be in debt never pays more than it has: its credits do
\* not wrap around and stay within its debits (guard.c:65-76).
PaysFromBalance ==
    [][\A i \in Common :
        accts'[i].credits # accts[i].credits /\ "debt" \notin accts[i].flags
            => /\ accts'[i].credits > accts[i].credits
               /\ accts'[i].debits >= accts'[i].credits]_accts

\* The transaction counter of an account never wraps to 0, on either side of a
\* transfer (guard.c:79).
CountersGrow ==
    [][\A i \in Common : accts'[i].transactions >= accts[i].transactions]_accts

=============================================================================
