--------------------------- MODULE Accounts_proof ---------------------------
(***************************************************************************)
(* Theorems of Accounts, for every width and set of operations.            *)
(***************************************************************************)
EXTENDS Accounts, LedgerLemmas

LEMMA Typing == TypeOK /\ [Next]_accts => TypeOK'
<1> SUFFICES ASSUME TypeOK, [Next]_accts PROVE TypeOK'
  OBVIOUS
<1> USE WidthAssumption, AccountsAssumption DEF TypeOK
<1>1. ASSUME NEW op \in Operations, AddAccount(op) PROVE TypeOK'
  BY <1>1, ApplyType DEF AddAccount
<1>2. ASSUME NEW op \in Operations, MakeTransfer(op) PROVE TypeOK'
  BY <1>2, ApplyType DEF MakeTransfer
<1>3. ASSUME NEW op \in Operations, UpdateAccount(op) PROVE TypeOK'
  BY <1>3, ApplyType DEF UpdateAccount
<1>4. ASSUME NEW op \in Operations, Reject(op) PROVE TypeOK'
  BY <1>4 DEF Reject
<1>5. CASE UNCHANGED accts
  BY <1>5
<1> QED
  BY <1>1, <1>2, <1>3, <1>4, <1>5 DEF Next

\* The account list keeps its shape and every number its width.
THEOREM TypeCorrect == Spec => []TypeOK
<1>1. Init => TypeOK
  BY WidthAssumption DEF Init, TypeOK, U64
<1> QED
  BY <1>1, Typing, PTL DEF Spec

-----------------------------------------------------------------------------
(* Steps other than transfers leave credits and counters alone.            *)

LEMMA AddKeeps ==
    ASSUME TypeOK, NEW op \in Operations, AddAccount(op), NEW i \in Common
    PROVE  accts'[i] = accts[i]
<1>1. accts' = Append(accts, NewAccount(op.credits, op.debits, 0, op.flags))
  BY DEF AddAccount, Apply
<1> QED
  BY <1>1, NewAccountType, AccountsAssumption, AppendProperties
    DEF TypeOK, Common, AddAccount

LEMMA UpdateKeeps ==
    ASSUME TypeOK, NEW op \in Operations, UpdateAccount(op), NEW i \in Common
    PROVE  /\ accts'[i].credits = accts[i].credits
           /\ accts'[i].transactions = accts[i].transactions
<1>1. accts' = StateUpdateAccount(accts, op)
  BY DEF UpdateAccount, Apply
<1>2. accts[i] \in Account
  BY ElementOfSeq DEF TypeOK, Common
<1> QED
  BY <1>1, <1>2 DEF StateUpdateAccount, Common, Account

LEMMA TransferStep ==
    ASSUME TypeOK, NEW op \in Operations, MakeTransfer(op), NEW i \in Common
    PROVE  /\ op \in Operation /\ op.type = "make_transfer"
           /\ op.from_id # op.to_id /\ op.amount \in U128 \ {0}
           /\ GuardMakeTransfer(accts, op)
           /\ accts[i] \in Account
           /\ accts'[i].credits = IF i = op.from_id + 1
                THEN Wrap128(accts[i].credits + op.amount) ELSE accts[i].credits
           /\ accts'[i].debits = IF i = op.to_id + 1
                THEN Wrap128(accts[i].debits + op.amount) ELSE accts[i].debits
           /\ accts'[i].transactions = IF i \in {op.from_id + 1, op.to_id + 1}
                THEN Wrap64(accts[i].transactions + 1) ELSE accts[i].transactions
<1>1. op \in Operation /\ op.type = "make_transfer" /\ GuardMakeTransfer(accts, op)
  BY AccountsAssumption DEF MakeTransfer, Guard
<1>2. accts' = StateMakeTransfer(accts, op, 0)
  BY <1>1 DEF MakeTransfer, Apply
<1>3. i \in DOMAIN accts /\ accts[i] \in Account
  BY ElementOfSeq DEF TypeOK, Common
<1>4. op.from_id # op.to_id /\ op.amount \in U128 \ {0}
  BY <1>1, OperationTypes DEF GuardMakeTransfer
<1> QED
  BY <1>1, <1>2, <1>3, <1>4, TransferAccount DEF TypeOK

-----------------------------------------------------------------------------
\* A transfer takes from an account that may not be in debt only what it has.
LEMMA TransferPays ==
    ASSUME TypeOK, NEW op \in Operations, MakeTransfer(op), NEW i \in Common,
           accts'[i].credits # accts[i].credits, "debt" \notin accts[i].flags
    PROVE  /\ accts'[i].credits > accts[i].credits
           /\ accts'[i].debits >= accts'[i].credits
<1>1. /\ accts \in Seq(Account) /\ op \in Operation /\ Guard(accts, op)
      /\ i \in DOMAIN accts /\ accts' = Apply(accts, op, 0, 0)
  BY AccountsAssumption DEF TypeOK, MakeTransfer, Common
<1> QED
  BY <1>1, ApplyPays

\* An account that may not be in debt never pays more than it has.
THEOREM NeverOverdrawn == Spec => PaysFromBalance
<1> DEFINE Pays == \A i \in Common :
        accts'[i].credits # accts[i].credits /\ "debt" \notin accts[i].flags
            => /\ accts'[i].credits > accts[i].credits
               /\ accts'[i].debits >= accts'[i].credits
<1>1. TypeOK /\ [Next]_accts => [Pays]_accts
  <2> SUFFICES ASSUME TypeOK, Next PROVE Pays
    OBVIOUS
  <2> TAKE i \in Common
  <2>1. ASSUME NEW op \in Operations, AddAccount(op)
        PROVE  accts'[i].credits = accts[i].credits
    BY <2>1, AddKeeps
  <2>2. ASSUME NEW op \in Operations, UpdateAccount(op)
        PROVE  accts'[i].credits = accts[i].credits
    BY <2>2, UpdateKeeps
  <2>3. ASSUME NEW op \in Operations, Reject(op)
        PROVE  accts'[i].credits = accts[i].credits
    BY <2>3 DEF Reject
  <2> QED
    BY <2>1, <2>2, <2>3, TransferPays DEF Next
<1> QED
  BY <1>1, TypeCorrect, PTL DEF Spec, PaysFromBalance

-----------------------------------------------------------------------------
\* The guard looks at both counters, so neither wraps.
LEMMA TransferCounts ==
    ASSUME TypeOK, NEW op \in Operations, MakeTransfer(op), NEW i \in Common
    PROVE  accts'[i].transactions >= accts[i].transactions
<1>1. accts[i].transactions \in U64
  BY TransferStep DEF Account
<1>2. CASE i \in {op.from_id + 1, op.to_id + 1}
  <2>1. accts[i].transactions # U64Max
    BY <1>2, TransferStep DEF GuardMakeTransfer
  <2>2. accts[i].transactions + 1 \in Nat /\ accts[i].transactions + 1 <= U64Max
    BY <1>1, <2>1, WidthAssumption DEF U64
  <2>3. accts'[i].transactions = accts[i].transactions + 1
    BY <1>2, <2>2, TransferStep, WrapType
  <2> QED
    BY <1>1, <2>3 DEF U64
<1>3. CASE i \notin {op.from_id + 1, op.to_id + 1}
  BY <1>1, <1>3, TransferStep DEF U64
<1> QED
  BY <1>2, <1>3

\* The transaction counter of an account never wraps to 0.
THEOREM CountersNeverWrap == Spec => CountersGrow
<1> DEFINE Grow == \A i \in Common : accts'[i].transactions >= accts[i].transactions
<1>1. TypeOK /\ [Next]_accts => [Grow]_accts
  <2> SUFFICES ASSUME TypeOK, Next PROVE Grow
    OBVIOUS
  <2> TAKE i \in Common
  <2>0. accts[i] \in Account
    BY ElementOfSeq DEF TypeOK, Common
  <2>1. accts[i].transactions \in Nat
    BY <2>0 DEF Account, U64
  <2>2. ASSUME NEW op \in Operations, AddAccount(op)
        PROVE  accts'[i].transactions = accts[i].transactions
    BY <2>2, AddKeeps
  <2>3. ASSUME NEW op \in Operations, UpdateAccount(op)
        PROVE  accts'[i].transactions = accts[i].transactions
    BY <2>3, UpdateKeeps
  <2>4. ASSUME NEW op \in Operations, Reject(op)
        PROVE  accts'[i].transactions = accts[i].transactions
    BY <2>4 DEF Reject
  <2> QED
    BY <2>1, <2>2, <2>3, <2>4, TransferCounts DEF Next
<1> QED
  BY <1>1, TypeCorrect, PTL DEF Spec, CountersGrow

=============================================================================
