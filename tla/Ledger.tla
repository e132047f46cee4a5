------------------------------- MODULE Ledger -------------------------------
(***************************************************************************)
(* The accounts, the guard and the in-memory state machine of LetDB        *)
(* (account.c, guard.c, state.c) as operators over values: no state.  The  *)
(* allocation of the account list is in LetDB.                             *)
(*                                                                         *)
(* Account ids are 0-based in the code; account `i` is accts[i + 1] here.  *)
(* Unsigned integers keep their width: 0 .. U64Max and 0 .. U128Max.       *)
(***************************************************************************)
EXTENDS Integers, Sequences

CONSTANTS U64Max,    \* LET_U64_MAX: transaction counters, ids, size_t
          U128Max    \* LET_U128_MAX: credits, debits, amounts

ASSUME WidthAssumption ==
    /\ U64Max \in Nat \ {0}
    /\ U128Max \in Nat \ {0}

-----------------------------------------------------------------------------
(* Accounts.  A flag byte is the set of the three bits the code tests.     *)

U64 == 0 .. U64Max
U128 == 0 .. U128Max
Wrap128(n) == n % (U128Max + 1)
Wrap64(n) == n % (U64Max + 1)
Flags == SUBSET {"send", "receive", "debt"}

Account == [credits: U128, debits: U128, transactions: U64,
            created_at: Nat, updated_at: Nat, flags: Flags]

NewAccount(credits, debits, created_at, flags) ==
    [credits |-> credits, debits |-> debits, transactions |-> 0,
     created_at |-> created_at, updated_at |-> created_at, flags |-> flags]

-----------------------------------------------------------------------------
(* Operations: the payloads of the three requests that are logged.         *)

Operation ==
         [type: {"add_account"}, credits: U128, debits: U128, flags: Flags]
    \cup [type: {"make_transfer"}, from_id: U64, to_id: U64, amount: U128]
    \cup [type: {"update_account"}, account_id: U64, flags: Flags]

Exists(accts, id) == id < Len(accts)

\* Mutant: the sum of credits and amount may wrap (guard.c:68).
GuardMakeTransfer_SumWraps(accts, op) ==
    /\ op.amount # 0
    /\ op.from_id # op.to_id
    /\ Exists(accts, op.from_id)
    /\ Exists(accts, op.to_id)
    /\ LET sender == accts[op.from_id + 1]
           recipient == accts[op.to_id + 1]
       IN  /\ "send" \in sender.flags
           /\ "receive" \in recipient.flags
           /\ \/ "debt" \in sender.flags
              \/ sender.debits >= Wrap128(op.amount + sender.credits)
           /\ sender.transactions # U64Max
           /\ recipient.transactions # U64Max

\* Mutant: the recipient's counter is not looked at (guard.c:79).
GuardMakeTransfer_SenderCounter(accts, op) ==
    /\ op.amount # 0
    /\ op.from_id # op.to_id
    /\ Exists(accts, op.from_id)
    /\ Exists(accts, op.to_id)
    /\ LET sender == accts[op.from_id + 1]
           recipient == accts[op.to_id + 1]
       IN  /\ "send" \in sender.flags
           /\ "receive" \in recipient.flags
           /\ \/ "debt" \in sender.flags
              \/ /\ U128Max - sender.credits >= op.amount
                 /\ sender.debits >= Wrap128(op.amount + sender.credits)
           /\ sender.transactions # U64Max

\* The checks of let_guard_make_transfer, in the order the code makes them.
GuardMakeTransfer(accts, op) ==
    /\ op.amount # 0
    /\ op.from_id # op.to_id
    /\ Exists(accts, op.from_id)
    /\ Exists(accts, op.to_id)
    /\ LET sender == accts[op.from_id + 1]
           recipient == accts[op.to_id + 1]
       IN  /\ "send" \in sender.flags
           /\ "receive" \in recipient.flags
           /\ \/ "debt" \in sender.flags
              \/ /\ U128Max - sender.credits >= op.amount
                 /\ sender.debits >= Wrap128(op.amount + sender.credits)
           /\ sender.transactions # U64Max
           /\ recipient.transactions # U64Max

\* What let_request checks before it logs: nothing for a new account.
Guard(accts, op) ==
    \/ op.type = "add_account"
    \/ op.type = "make_transfer" /\ GuardMakeTransfer(accts, op)
    \/ op.type = "update_account" /\ Exists(accts, op.account_id)

-----------------------------------------------------------------------------
(* The state machine.  `created` is the time a new account is stamped with *)
(* and `clock` the time let_state_make_transfer reads by itself.           *)

\* Mutant: only the sender counts the transfer (state.c:57).
StateMakeTransfer_CountsOnce(accts, op, clock) ==
    [i \in DOMAIN accts |->
        IF i = op.from_id + 1
        THEN [accts[i] EXCEPT !.credits = Wrap128(@ + op.amount),
                              !.transactions = Wrap64(@ + 1), !.updated_at = clock]
        ELSE IF i = op.to_id + 1
        THEN [accts[i] EXCEPT !.debits = Wrap128(@ + op.amount), !.updated_at = clock]
        ELSE accts[i]]

\* Mutant: the sums keep no width (state.c:53-54).
StateMakeTransfer_NoWidth(accts, op, clock) ==
    [i \in DOMAIN accts |->
        IF i = op.from_id + 1
        THEN [accts[i] EXCEPT !.credits = @ + op.amount, !.transactions = @ + 1]
        ELSE IF i = op.to_id + 1
        THEN [accts[i] EXCEPT !.debits = @ + op.amount, !.transactions = @ + 1]
        ELSE accts[i]]

StateMakeTransfer(accts, op, clock) ==
    [i \in DOMAIN accts |->
        LET a == accts[i]
            sends == i = op.from_id + 1
            receives == i = op.to_id + 1
        IN  IF ~sends /\ ~receives THEN a ELSE
            [a EXCEPT !.credits = IF sends THEN Wrap128(@ + op.amount) ELSE @,
                      !.debits = IF receives THEN Wrap128(@ + op.amount) ELSE @,
                      !.transactions = Wrap64(@ + 1),
                      !.updated_at = clock]]

StateUpdateAccount(accts, op) ==
    [i \in DOMAIN accts |->
        IF i = op.account_id + 1 THEN [accts[i] EXCEPT !.flags = op.flags]
                                 ELSE accts[i]]

Apply(accts, op, created, clock) ==
    CASE op.type = "add_account" ->
            Append(accts, NewAccount(op.credits, op.debits, created, op.flags))
      [] op.type = "make_transfer" -> StateMakeTransfer(accts, op, clock)
      [] op.type = "update_account" -> StateUpdateAccount(accts, op)

Untimed(accts) ==
    [i \in DOMAIN accts |-> [accts[i] EXCEPT !.updated_at = accts[i].created_at]]

\* The list a sequence of logged entries stands for.  What an account was last
\* updated is left at its creation: the log does not say (LetDB, `ReplayEntry`).
AccountsAfter(entries) ==
    LET after[k \in 0 .. Len(entries)] ==
            IF k = 0 THEN <<>>
            ELSE Untimed(Apply(after[k - 1], entries[k].op, entries[k].timestamp,
                               entries[k].timestamp))
    IN  after[Len(entries)]

=============================================================================
