---------------------------- MODULE LedgerLemmas ----------------------------
(***************************************************************************)
(* What the operators of Ledger return, for every width.                   *)
(***************************************************************************)
EXTENDS Ledger, Induction, SequenceTheorems

LEMMA WrapType ==
    ASSUME NEW n \in Nat
    PROVE  /\ Wrap128(n) \in U128 /\ (n <= U128Max => Wrap128(n) = n)
           /\ Wrap64(n) \in U64 /\ (n <= U64Max => Wrap64(n) = n)
BY WidthAssumption DEF Wrap128, Wrap64, U128, U64

LEMMA OperationTypes ==
    ASSUME NEW op \in Operation
    PROVE  /\ op.type \in {"add_account", "make_transfer", "update_account"}
           /\ op.type = "add_account"
                => op.credits \in U128 /\ op.debits \in U128 /\ op.flags \in Flags
           /\ op.type = "make_transfer"
                => op.from_id \in U64 /\ op.to_id \in U64 /\ op.amount \in U128
           /\ op.type = "update_account"
                => op.account_id \in U64 /\ op.flags \in Flags
BY DEF Operation

LEMMA NewAccountType ==
    ASSUME NEW op \in Operation, op.type = "add_account", NEW time \in Nat
    PROVE  NewAccount(op.credits, op.debits, time, op.flags) \in Account
BY OperationTypes, WidthAssumption DEF NewAccount, Account, U64

\* One account of the list after a transfer.
LEMMA TransferAccount ==
    ASSUME NEW accts \in Seq(Account), NEW op \in Operation,
           op.type = "make_transfer", NEW clock \in Nat,
           NEW i \in DOMAIN accts
    PROVE  LET a == accts[i]
               b == StateMakeTransfer(accts, op, clock)[i]
           IN  /\ b \in Account
               /\ b.flags = a.flags
               /\ b.credits = IF i = op.from_id + 1
                              THEN Wrap128(a.credits + op.amount) ELSE a.credits
               /\ b.debits = IF i = op.to_id + 1
                             THEN Wrap128(a.debits + op.amount) ELSE a.debits
               /\ b.transactions = IF i \in {op.from_id + 1, op.to_id + 1}
                                   THEN Wrap64(a.transactions + 1)
                                   ELSE a.transactions
<1> DEFINE a == accts[i]
           b == StateMakeTransfer(accts, op, clock)[i]
           sends == i = op.from_id + 1
           receives == i = op.to_id + 1
<1>1. a \in Account
  BY ElementOfSeq
<1>2. /\ a.credits + op.amount \in Nat
      /\ a.debits + op.amount \in Nat
      /\ a.transactions + 1 \in Nat
  <2>1. a.credits \in U128 /\ a.debits \in U128 /\ a.transactions \in U64
    BY <1>1 DEF Account
  <2>2. op.amount \in U128
    BY OperationTypes
  <2> QED
    BY <2>1, <2>2, WidthAssumption DEF U64, U128
<1>3. /\ Wrap128(a.credits + op.amount) \in U128
      /\ Wrap128(a.debits + op.amount) \in U128
      /\ Wrap64(a.transactions + 1) \in U64
  BY <1>2, WrapType
<1>4. b = IF ~sends /\ ~receives THEN a ELSE
          [a EXCEPT !.credits = IF sends THEN Wrap128(@ + op.amount) ELSE @,
                    !.debits = IF receives THEN Wrap128(@ + op.amount) ELSE @,
                    !.transactions = Wrap64(@ + 1),
                    !.updated_at = clock]
  BY DEF StateMakeTransfer
<1> QED
  BY <1>1, <1>3, <1>4 DEF Account

LEMMA TransferType ==
    ASSUME NEW accts \in Seq(Account), NEW op \in Operation,
           op.type = "make_transfer", NEW clock \in Nat
    PROVE  /\ StateMakeTransfer(accts, op, clock) \in Seq(Account)
           /\ Len(StateMakeTransfer(accts, op, clock)) = Len(accts)
<1> DEFINE t == StateMakeTransfer(accts, op, clock)
<1>1. DOMAIN t = 1 .. Len(accts)
  BY DEF StateMakeTransfer
<1>2. \A i \in 1 .. Len(accts) : t[i] \in Account
  BY TransferAccount
<1>3. t = [i \in 1 .. Len(accts) |-> t[i]]
  BY <1>1 DEF StateMakeTransfer
<1>4. t \in [1 .. Len(accts) -> Account]
  BY <1>2, <1>3
<1> QED
  BY <1>4

LEMMA UpdateType ==
    ASSUME NEW accts \in Seq(Account), NEW op \in Operation,
           op.type = "update_account"
    PROVE  /\ StateUpdateAccount(accts, op) \in Seq(Account)
           /\ Len(StateUpdateAccount(accts, op)) = Len(accts)
<1> DEFINE t == StateUpdateAccount(accts, op)
<1>1. t = [i \in 1 .. Len(accts) |-> t[i]]
  BY DEF StateUpdateAccount
<1>2. \A i \in 1 .. Len(accts) : t[i] \in Account
  <2> TAKE i \in 1 .. Len(accts)
  <2>1. accts[i] \in Account
    BY ElementOfSeq
  <2>2. op.flags \in Flags
    BY OperationTypes
  <2>3. t[i] = IF i = op.account_id + 1 THEN [accts[i] EXCEPT !.flags = op.flags]
                                       ELSE accts[i]
    BY DEF StateUpdateAccount
  <2> QED
    BY <2>1, <2>2, <2>3 DEF Account
<1>3. t \in [1 .. Len(accts) -> Account]
  BY <1>1, <1>2
<1> QED
  BY <1>3

\* Applying an operation keeps the list well-formed; only a new account makes it
\* longer, and by one.
LEMMA ApplyType ==
    ASSUME NEW accts \in Seq(Account), NEW op \in Operation,
           NEW created \in Nat, NEW clock \in Nat
    PROVE  /\ Apply(accts, op, created, clock) \in Seq(Account)
           /\ Len(Apply(accts, op, created, clock))
                = IF op.type = "add_account" THEN Len(accts) + 1 ELSE Len(accts)
<1>1. CASE op.type = "add_account"
  BY <1>1, NewAccountType, AppendProperties DEF Apply
<1>2. CASE op.type = "make_transfer"
  BY <1>2, TransferType DEF Apply
<1>3. CASE op.type = "update_account"
  BY <1>3, UpdateType DEF Apply
<1> QED
  BY <1>1, <1>2, <1>3, OperationTypes

\* An operation that passed the guard takes from an account that may not be in debt
\* only what it has.
LEMMA ApplyPays ==
    ASSUME NEW accts \in Seq(Account), NEW op \in Operation, Guard(accts, op),
           NEW created \in Nat, NEW clock \in Nat, NEW i \in DOMAIN accts
    PROVE  LET a == accts[i]
               b == Apply(accts, op, created, clock)[i]
           IN  b.credits # a.credits /\ "debt" \notin a.flags
                 => b.credits > a.credits /\ b.debits >= b.credits
<1> DEFINE a == accts[i]
           b == Apply(accts, op, created, clock)[i]
<1>1. a \in Account
  BY ElementOfSeq
<1>2. CASE op.type = "add_account"
  BY <1>2, LenProperties, NewAccountType, AppendProperties DEF Apply
<1>3. CASE op.type = "update_account"
  <2>1. b = IF i = op.account_id + 1 THEN [a EXCEPT !.flags = op.flags] ELSE a
    BY <1>3 DEF Apply, StateUpdateAccount
  <2> QED
    BY <1>1, <2>1 DEF Account
<1>4. CASE op.type = "make_transfer"
  <2> SUFFICES ASSUME b.credits # a.credits, "debt" \notin a.flags
               PROVE  b.credits > a.credits /\ b.debits >= b.credits
    OBVIOUS
  <2>1. op.from_id \in U64 /\ op.to_id \in U64 /\ op.amount \in U128
    BY <1>4, OperationTypes
  <2>2. GuardMakeTransfer(accts, op) /\ op.from_id # op.to_id /\ op.amount # 0
    BY <1>4 DEF Guard, GuardMakeTransfer
  <2>3. /\ b.credits = IF i = op.from_id + 1 THEN Wrap128(a.credits + op.amount) ELSE a.credits
        /\ b.debits = IF i = op.to_id + 1 THEN Wrap128(a.debits + op.amount) ELSE a.debits
    BY <1>4, TransferAccount DEF Apply
  <2>4. i = op.from_id + 1 /\ i # op.to_id + 1
    BY <2>1, <2>2, <2>3 DEF U64
  <2>5. /\ U128Max - a.credits >= op.amount
        /\ a.debits >= Wrap128(op.amount + a.credits)
    BY <2>2, <2>4 DEF GuardMakeTransfer
  <2>6. a.credits \in U128 /\ a.debits \in U128
    BY <1>1 DEF Account
  <2>7. /\ a.credits + op.amount \in Nat /\ a.credits + op.amount <= U128Max
        /\ op.amount + a.credits = a.credits + op.amount
    BY <2>1, <2>5, <2>6, WidthAssumption DEF U128
  <2>8. Wrap128(a.credits + op.amount) = a.credits + op.amount
    BY <2>7, WrapType
  <2>9. b.credits = a.credits + op.amount /\ b.debits = a.debits
    BY <2>3, <2>4, <2>8
  <2> QED
    BY <2>1, <2>2, <2>5, <2>6, <2>7, <2>8, <2>9, WidthAssumption DEF U128
<1> QED
  BY <1>2, <1>3, <1>4, OperationTypes

-----------------------------------------------------------------------------
(* AccountsAfter, the fold over a log.                                        *)

\* The list after one more entry.
After(accts, e) == Untimed(Apply(accts, e.op, e.timestamp, e.timestamp))

\* f holds the lists after each entry of the log.
Lists(s, n, f) == [k \in 0 .. n |-> IF k = 0 THEN <<>> ELSE After(f[k - 1], s[k])]

LEMMA ListsExist ==
    ASSUME NEW s, NEW n \in Nat
    PROVE  \E f : f = Lists(s, n, f)
<1> DEFINE S == {m \in Nat : \E f : f = Lists(s, m, f)}
<1>1. 0 \in S
  <2> DEFINE f == [k \in 0 .. 0 |-> <<>>]
  <2>1. f = Lists(s, 0, f)
    BY DEF Lists
  <2> QED
    BY <2>1
<1>2. ASSUME NEW m \in Nat, m \in S PROVE m + 1 \in S
  <2>1. PICK f : f = Lists(s, m, f)
    BY <1>2
  <2> DEFINE g == [k \in 0 .. m + 1 |-> IF k = m + 1 THEN After(f[m], s[m + 1]) ELSE f[k]]
             h == [k \in 0 .. m + 1 |-> IF k = 0 THEN <<>> ELSE After(g[k - 1], s[k])]
  <2>2. ASSUME NEW k \in 0 .. m + 1 PROVE g[k] = h[k]
    <3>1. CASE k = 0
      BY <2>1, <3>1 DEF Lists
    <3>2. CASE k \in 1 .. m
      <4>1. k \in 0 .. m /\ k - 1 \in 0 .. m + 1 /\ k - 1 # m + 1 /\ k # m + 1 /\ k # 0
        BY <3>2
      <4>2. f[k] = After(f[k - 1], s[k])
        BY <2>1, <4>1 DEF Lists
      <4>3. g[k - 1] = f[k - 1]
        BY <4>1
      <4>4. h[k] = After(g[k - 1], s[k])
        BY <4>1
      <4>5. g[k] = f[k]
        BY <4>1
      <4> QED
        BY <4>2, <4>3, <4>4, <4>5
    <3>3. CASE k = m + 1
      <4>1. m \in 0 .. m + 1 /\ m # m + 1 /\ m + 1 # 0 /\ (m + 1) - 1 = m /\ m + 1 \in 0 .. m + 1
        OBVIOUS
      <4>2. g[m] = f[m]
        BY <4>1
      <4>3. h[m + 1] = After(g[m], s[m + 1])
        BY <4>1
      <4>4. g[m + 1] = After(f[m], s[m + 1])
        BY <4>1
      <4> QED
        BY <3>3, <4>2, <4>3, <4>4
    <3> QED
      BY <3>1, <3>2, <3>3
  <2>3. g = h
    <3> HIDE DEF g
    <3>1. g = [k \in 0 .. m + 1 |-> g[k]]
      BY DEF g
    <3> QED
      BY <2>2, <3>1
  <2>4. g = Lists(s, m + 1, g)
    BY <2>3 DEF Lists
  <2> QED
    BY <2>4
<1>3. Nat \subseteq S
  <2> HIDE DEF S
  <2> QED
    BY <1>1, <1>2, NatInduct
<1> QED
  BY <1>3

\* Two logs that begin alike have the same lists for as long.
LEMMA ListsAgree ==
    ASSUME NEW s, NEW m \in Nat, NEW f, f = Lists(s, m, f),
           NEW t, NEW n \in Nat, NEW g, g = Lists(t, n, g),
           \A i \in 1 .. m : t[i] = s[i], m <= n
    PROVE  \A k \in 0 .. m : f[k] = g[k]
<1> DEFINE S == {k \in Nat : k <= m => f[k] = g[k]}
<1>1. 0 \in S
  BY DEF Lists
<1>2. ASSUME NEW k \in Nat, k \in S PROVE k + 1 \in S
  <2> SUFFICES ASSUME k + 1 <= m PROVE f[k + 1] = g[k + 1]
    OBVIOUS
  <2>1. f[k] = g[k]
    BY <1>2
  <2>2. k + 1 \in 0 .. m /\ k + 1 \in 0 .. n /\ k + 1 # 0 /\ (k + 1) - 1 = k /\ k + 1 \in 1 .. m
    OBVIOUS
  <2>3. f[k + 1] = After(f[k], s[k + 1]) /\ g[k + 1] = After(g[k], t[k + 1])
    BY <2>2 DEF Lists
  <2>4. t[k + 1] = s[k + 1]
    BY <2>2
  <2> QED
    BY <2>1, <2>3, <2>4
<1>3. Nat \subseteq S
  <2> HIDE DEF S
  <2> QED
    BY <1>1, <1>2, NatInduct
<1> QED
  BY <1>3

LEMMA AccountsAfterLists ==
    ASSUME NEW s, Len(s) \in Nat, NEW f, f = Lists(s, Len(s), f)
    PROVE  AccountsAfter(s) = f[Len(s)]
<1> DEFINE A(g) == [k \in 0 .. Len(s) |->
                        IF k = 0 THEN <<>>
                        ELSE Untimed(Apply(g[k - 1], s[k].op, s[k].timestamp, s[k].timestamp))]
<1>1. \A g : g = Lists(s, Len(s), g) <=> g = A(g)
  BY DEF Lists, After
<1>2. \A g : g = A(g) => g = f
  <2> SUFFICES ASSUME NEW g, g = Lists(s, Len(s), g) PROVE g = f
    BY <1>1
  <2>1. \A k \in 0 .. Len(s) : f[k] = g[k]
    BY ListsAgree
  <2>2. f = [k \in 0 .. Len(s) |-> f[k]] /\ g = [k \in 0 .. Len(s) |-> g[k]]
    BY DEF Lists
  <2> QED
    BY <2>1, <2>2
<1>3. (CHOOSE g : g = A(g)) = f
  <2>1. f = A(f)
    BY <1>1
  <2> HIDE DEF A
  <2> QED
    BY <1>2, <2>1
<1> QED
  BY <1>3 DEF AccountsAfter

\* The log of no entries, and of one more: what AccountsAfter is, by its recursion.
LEMMA AccountsAfterEmpty ==
    ASSUME NEW s, Len(s) = 0
    PROVE  AccountsAfter(s) = <<>>
<1>1. PICK f : f = Lists(s, 0, f)
  BY ListsExist
<1>2. f[0] = <<>>
  BY <1>1 DEF Lists
<1> QED
  BY <1>1, <1>2, AccountsAfterLists

LEMMA AccountsAfterOne ==
    ASSUME NEW s, Len(s) \in Nat, NEW t, Len(t) = Len(s) + 1,
           \A i \in 1 .. Len(s) : t[i] = s[i]
    PROVE  AccountsAfter(t) = After(AccountsAfter(s), t[Len(t)])
<1> DEFINE m == Len(s)
<1>0. m + 1 \in Nat
  OBVIOUS
<1>1. PICK f : f = Lists(s, m, f)
  BY ListsExist
<1>2. PICK g : g = Lists(t, m + 1, g)
  BY <1>0, ListsExist
<1>3. f[m] = g[m]
  <2>1. \A k \in 0 .. m : f[k] = g[k]
    BY <1>0, <1>1, <1>2, ListsAgree
  <2> QED
    BY <2>1
<1>4. g[m + 1] = After(g[m], t[m + 1])
  <2>1. m + 1 \in 0 .. m + 1 /\ m + 1 # 0 /\ (m + 1) - 1 = m
    OBVIOUS
  <2> QED
    BY <1>2, <2>1 DEF Lists
<1>5. AccountsAfter(s) = f[m] /\ AccountsAfter(t) = g[m + 1]
  BY <1>0, <1>1, <1>2, AccountsAfterLists
<1> QED
  BY <1>3, <1>4, <1>5

-----------------------------------------------------------------------------
(* The time of an account's last update makes no difference.                  *)

LEMMA UntimedType ==
    ASSUME NEW accts \in Seq(Account)
    PROVE  /\ Untimed(accts) \in Seq(Account)
           /\ Len(Untimed(accts)) = Len(accts)
           /\ DOMAIN Untimed(accts) = DOMAIN accts
           /\ \A i \in DOMAIN accts :
                Untimed(accts)[i] = [accts[i] EXCEPT !.updated_at = accts[i].created_at]
<1> DEFINE t == Untimed(accts)
<1>1. t = [i \in 1 .. Len(accts) |-> [accts[i] EXCEPT !.updated_at = accts[i].created_at]]
  BY DEF Untimed
<1>2. \A i \in 1 .. Len(accts) : [accts[i] EXCEPT !.updated_at = accts[i].created_at] \in Account
  <2> TAKE i \in 1 .. Len(accts)
  <2>1. accts[i] \in Account
    BY ElementOfSeq
  <2> QED
    BY <2>1 DEF Account
<1>3. t \in [1 .. Len(accts) -> Account]
  BY <1>1, <1>2
<1> QED
  BY <1>1, <1>3

LEMMA UntimedAccount ==
    ASSUME NEW a \in Account
    PROVE  LET b == [a EXCEPT !.updated_at = a.created_at]
           IN  /\ b \in Account
               /\ b.credits = a.credits /\ b.debits = a.debits
               /\ b.transactions = a.transactions /\ b.flags = a.flags
               /\ b.created_at = a.created_at /\ b.updated_at = a.created_at
BY DEF Account

\* The guard does not look at the time of an account's last update.
LEMMA UntimedGuard ==
    ASSUME NEW accts \in Seq(Account), NEW op \in Operation
    PROVE  Guard(Untimed(accts), op) <=> Guard(accts, op)
<1>1. Len(Untimed(accts)) = Len(accts)
  BY UntimedType
<1>2. CASE op.type = "add_account"
  BY <1>2 DEF Guard
<1>3. CASE op.type = "update_account"
  BY <1>1, <1>3 DEF Guard, Exists
<1>4. CASE op.type = "make_transfer"
  <2>1. op.from_id \in Nat /\ op.to_id \in Nat
    BY <1>4, OperationTypes, WidthAssumption DEF U64
  <2>2. CASE ~(Exists(accts, op.from_id) /\ Exists(accts, op.to_id))
    BY <1>1, <1>4, <2>2 DEF Guard, GuardMakeTransfer, Exists
  <2>3. CASE Exists(accts, op.from_id) /\ Exists(accts, op.to_id)
    <3>1. op.from_id + 1 \in DOMAIN accts /\ op.to_id + 1 \in DOMAIN accts
      BY <2>1, <2>3, LenProperties DEF Exists
    <3>2. \A i \in DOMAIN accts :
            /\ Untimed(accts)[i].credits = accts[i].credits
            /\ Untimed(accts)[i].debits = accts[i].debits
            /\ Untimed(accts)[i].transactions = accts[i].transactions
            /\ Untimed(accts)[i].flags = accts[i].flags
      <4> TAKE i \in DOMAIN accts
      <4>1. accts[i] \in Account
        BY ElementOfSeq
      <4> QED
        BY <4>1, UntimedType, UntimedAccount
    <3>3. GuardMakeTransfer(Untimed(accts), op) <=> GuardMakeTransfer(accts, op)
      BY <1>1, <3>1, <3>2 DEF GuardMakeTransfer, Exists
    <3> QED
      BY <1>4, <3>3 DEF Guard
  <2> QED
    BY <2>2, <2>3
<1> QED
  BY <1>2, <1>3, <1>4, OperationTypes

\* What changes of an account changes alike, whatever the time of its last update.
LEMMA StampsApart ==
    ASSUME NEW x \in Account, NEW credits, NEW debits, NEW transactions,
           NEW clock, NEW time, NEW stamp
    PROVE  [[x EXCEPT !.credits = credits, !.debits = debits,
                      !.transactions = transactions, !.updated_at = clock]
                EXCEPT !.updated_at = stamp]
             = [[[x EXCEPT !.updated_at = stamp]
                    EXCEPT !.credits = credits, !.debits = debits,
                           !.transactions = transactions, !.updated_at = time]
                    EXCEPT !.updated_at = stamp]
OBVIOUS

\* Nor does an operation: what it makes of a list differs in those times only.
LEMMA UntimedApply ==
    ASSUME NEW accts \in Seq(Account), NEW op \in Operation,
           NEW time \in Nat, NEW now \in Nat
    PROVE  Untimed(Apply(accts, op, time, now)) = Untimed(Apply(Untimed(accts), op, time, time))
<1> DEFINE before == Untimed(accts)
           a == Apply(accts, op, time, now)
           b == Apply(before, op, time, time)
<1>1. /\ before \in Seq(Account) /\ Len(before) = Len(accts)
      /\ \A i \in 1 .. Len(accts) : 
            before[i] = [accts[i] EXCEPT !.updated_at = accts[i].created_at]
  BY UntimedType
<1>2. /\ a \in Seq(Account) /\ b \in Seq(Account)
      /\ Len(a) = IF op.type = "add_account" THEN Len(accts) + 1 ELSE Len(accts)
      /\ Len(b) = Len(a)
  <2> HIDE DEF before
  <2>1. a \in Seq(Account) /\ Len(a) = IF op.type = "add_account" THEN Len(accts) + 1 ELSE Len(accts)
    BY ApplyType
  <2>2. b \in Seq(Account) /\ Len(b) = IF op.type = "add_account" THEN Len(before) + 1 ELSE Len(before)
    BY <1>1, ApplyType
  <2> QED
    BY <1>1, <2>1, <2>2
<1>3. SUFFICES ASSUME NEW i \in 1 .. Len(a)
               PROVE  [a[i] EXCEPT !.updated_at = a[i].created_at]
                        = [b[i] EXCEPT !.updated_at = b[i].created_at]
  <2>1. Untimed(a) = [i \in 1 .. Len(a) |-> [a[i] EXCEPT !.updated_at = a[i].created_at]]
    <3> HIDE DEF a, b
    <3> QED
      BY <1>2 DEF Untimed
  <2>2. Untimed(b) = [i \in 1 .. Len(a) |-> [b[i] EXCEPT !.updated_at = b[i].created_at]]
    <3> HIDE DEF a, b
    <3> QED
      BY <1>2 DEF Untimed
  <2>3. ASSUME NEW i \in 1 .. Len(a)
        PROVE  [a[i] EXCEPT !.updated_at = a[i].created_at]
                 = [b[i] EXCEPT !.updated_at = b[i].created_at]
    BY <1>3
  <2> HIDE DEF a, b
  <2>4. [i \in 1 .. Len(a) |-> [a[i] EXCEPT !.updated_at = a[i].created_at]]
          = [i \in 1 .. Len(a) |-> [b[i] EXCEPT !.updated_at = b[i].created_at]]
    BY <2>3, Zenon
  <2>5. Untimed(a) = Untimed(b)
    BY <2>1, <2>2, <2>4
  <2> QED
    BY <2>5 DEF a, b
<1>4. CASE op.type = "add_account"
  <2> DEFINE new == NewAccount(op.credits, op.debits, time, op.flags)
  <2>1. a = Append(accts, new) /\ b = Append(before, new) /\ new \in Account
    BY <1>4, NewAccountType DEF Apply
  <2>2. CASE i \in 1 .. Len(accts)
    <3>1. a[i] = accts[i] /\ b[i] = before[i]
      BY <1>1, <2>1, <2>2, AppendProperties
    <3>2. accts[i] \in Account
      BY <2>2, ElementOfSeq
    <3> QED
      BY <1>1, <2>2, <3>1, <3>2 DEF Account
  <2>3. CASE i = Len(accts) + 1
    BY <1>1, <2>1, <2>3, AppendProperties
  <2> QED
    <3> HIDE DEF a, b
    <3> QED
      BY <1>2, <1>4, <2>2, <2>3, LenProperties
<1>5. CASE op.type # "add_account"
  <2>1. Len(a) = Len(accts) /\ i \in 1 .. Len(accts) /\ i \in DOMAIN accts /\ i \in DOMAIN before
    <3> HIDE DEF a, b, before
    <3> QED
      BY <1>1, <1>2, <1>5, LenProperties
  <2>2. accts[i] \in Account /\ before[i] = [accts[i] EXCEPT !.updated_at = accts[i].created_at]
    BY <1>1, <2>1, ElementOfSeq
  <2>3. CASE op.type = "make_transfer"
    <3> DEFINE sends == i = op.from_id + 1
               receives == i = op.to_id + 1
    <3>1. a[i] = LET x == accts[i] IN
                 IF ~sends /\ ~receives THEN x ELSE
                 [x EXCEPT !.credits = IF sends THEN Wrap128(@ + op.amount) ELSE @,
                           !.debits = IF receives THEN Wrap128(@ + op.amount) ELSE @,
                           !.transactions = Wrap64(@ + 1),
                           !.updated_at = now]
      BY <2>1, <2>3 DEF Apply, StateMakeTransfer
    <3>2. b[i] = LET x == before[i] IN
                 IF ~sends /\ ~receives THEN x ELSE
                 [x EXCEPT !.credits = IF sends THEN Wrap128(@ + op.amount) ELSE @,
                           !.debits = IF receives THEN Wrap128(@ + op.amount) ELSE @,
                           !.transactions = Wrap64(@ + 1),
                           !.updated_at = time]
      BY <2>1, <2>3 DEF Apply, StateMakeTransfer
    <3> DEFINE x == accts[i]
               y == before[i]
    <3>3. CASE ~sends /\ ~receives
      <4> HIDE DEF a, b, before
      <4> QED
        BY <2>2, <3>1, <3>2, <3>3 DEF Account
    <3>4. CASE sends \/ receives
      <4>1. /\ x \in Account /\ y \in Account /\ y = [x EXCEPT !.updated_at = x.created_at]
            /\ y.credits = x.credits /\ y.debits = x.debits /\ y.transactions = x.transactions
            /\ y.created_at = x.created_at /\ y.flags = x.flags
        BY <2>2 DEF Account
      <4> DEFINE c == IF sends THEN Wrap128(x.credits + op.amount) ELSE x.credits
                 d == IF receives THEN Wrap128(x.debits + op.amount) ELSE x.debits
                 n == Wrap64(x.transactions + 1)
      <4>2. a[i] = [x EXCEPT !.credits = c, !.debits = d, !.transactions = n,
                             !.updated_at = now]
        <5> HIDE DEF a
        <5> QED
          BY <3>1, <3>4
      <4>3. b[i] = [y EXCEPT !.credits = c, !.debits = d, !.transactions = n,
                             !.updated_at = time]
        <5> HIDE DEF b, before
        <5> QED
          BY <3>2, <3>4, <4>1
      <4>4. a[i].created_at = x.created_at /\ b[i].created_at = x.created_at
        <5> HIDE DEF a, b, c, d, n, x, y
        <5> QED
          BY <4>1, <4>2, <4>3 DEF Account
      <4> HIDE DEF a, b, c, d, n, x, y
      <4>5. [a[i] EXCEPT !.updated_at = x.created_at]
              = [b[i] EXCEPT !.updated_at = x.created_at]
        BY <4>1, <4>2, <4>3, StampsApart
      <4> QED
        BY <4>4, <4>5
    <3> QED
      BY <3>3, <3>4
  <2>4. CASE op.type = "update_account"
    <3>1. a[i] = IF i = op.account_id + 1 THEN [accts[i] EXCEPT !.flags = op.flags] ELSE accts[i]
      BY <2>1, <2>4 DEF Apply, StateUpdateAccount
    <3>2. b[i] = IF i = op.account_id + 1 THEN [before[i] EXCEPT !.flags = op.flags] ELSE before[i]
      BY <2>1, <2>4 DEF Apply, StateUpdateAccount
    <3> HIDE DEF a, b, before
    <3> QED
      BY <2>2, <3>1, <3>2 DEF Account
  <2> QED
    BY <1>5, <2>3, <2>4, OperationTypes
<1> QED
  BY <1>4, <1>5

-----------------------------------------------------------------------------
(* What all accounts together owe and are owed, and how often they took part  *)
(* in a transfer.                                                             *)

Balances(accts) == SumFunction([i \in DOMAIN accts |-> accts[i].debits - accts[i].credits])
Counted(accts) == SumFunction([i \in DOMAIN accts |-> accts[i].transactions])

Width == U128Max + 1

LEMMA Wrapped ==
    ASSUME NEW n \in Nat
    PROVE  \E k \in Int : Wrap128(n) = n + k * Width
<1>1. Width \in Nat \ {0}
  BY WidthAssumption DEF Width
<1>2. PICK m \in Nat \ {0} : m = Width
  BY <1>1
<1>3. n % m \in 0 .. m - 1 /\ n \div m \in Int /\ n = (n \div m) * m + (n % m)
  BY Division
<1>4. PICK q \in Int : q = -(n \div m) /\ q * m = -((n \div m) * m)
  BY <1>3
<1>5. n % m = n + q * m
  BY <1>3, <1>4
<1> QED
  BY <1>2, <1>5 DEF Wrap128, Width

LEMMA AccountTerms ==
    ASSUME NEW accts \in Seq(Account)
    PROVE  /\ DOMAIN accts = 1 .. Len(accts) /\ Len(accts) \in Nat
           /\ \A i \in DOMAIN accts :
                /\ accts[i] \in Account
                /\ accts[i].debits \in Nat /\ accts[i].credits \in Nat
                /\ accts[i].debits - accts[i].credits \in Int
                /\ accts[i].transactions \in U64 /\ accts[i].transactions \in Int
<1>1. \A i \in DOMAIN accts : accts[i] \in Account
  BY ElementOfSeq, LenProperties
<1>2. \A a \in Account : a.debits \in U128 /\ a.credits \in U128 /\ a.transactions \in U64
  BY DEF Account
<1> QED
  BY <1>1, <1>2, LenProperties, WidthAssumption DEF U128, U64

LEMMA SumsType ==
    ASSUME NEW accts \in Seq(Account)
    PROVE  Balances(accts) \in Int /\ Counted(accts) \in Int
<1> DEFINE f == [i \in DOMAIN accts |-> accts[i].debits - accts[i].credits]
           g == [i \in DOMAIN accts |-> accts[i].transactions]
<1>1. IsFiniteSet(DOMAIN accts)
  <2>1. DOMAIN accts = 1 .. Len(accts) /\ Len(accts) \in Nat
    BY AccountTerms
  <2>2. IsFiniteSet(1 .. Len(accts))
    BY <2>1, FS_Interval
  <2> QED
    BY <2>1, <2>2
<1>2. (\A i \in DOMAIN accts : f[i] \in Int) /\ (\A i \in DOMAIN accts : g[i] \in Int)
  BY AccountTerms
<1>3. SumFunctionOnSet(f, DOMAIN accts) = Balances(accts) /\ SumFunctionOnSet(g, DOMAIN accts) = Counted(accts)
  BY DEF Balances, Counted, SumFunction
<1> HIDE DEF f, g
<1>4. SumFunctionOnSet(f, DOMAIN accts) \in Int /\ SumFunctionOnSet(g, DOMAIN accts) \in Int
  BY <1>1, <1>2, SumWithout
<1> QED
  BY <1>3, <1>4

\* Lists with the same amounts have the same sums.
LEMMA SameSums ==
    ASSUME NEW s \in Seq(Account), NEW t \in Seq(Account), Len(t) = Len(s),
           \A i \in DOMAIN s : /\ t[i].debits = s[i].debits /\ t[i].credits = s[i].credits
                               /\ t[i].transactions = s[i].transactions
    PROVE  Balances(t) = Balances(s) /\ Counted(t) = Counted(s)
<1>1. DOMAIN t = DOMAIN s
  BY LenProperties
<1>2. /\ [i \in DOMAIN t |-> t[i].debits - t[i].credits]
           = [i \in DOMAIN s |-> s[i].debits - s[i].credits]
      /\ [i \in DOMAIN t |-> t[i].transactions] = [i \in DOMAIN s |-> s[i].transactions]
  BY <1>1
<1> QED
  BY <1>2 DEF Balances, Counted

LEMMA SumsOfUntimed ==
    ASSUME NEW accts \in Seq(Account)
    PROVE  Balances(Untimed(accts)) = Balances(accts) /\ Counted(Untimed(accts)) = Counted(accts)
<1> DEFINE t == Untimed(accts)
<1>1. t \in Seq(Account) /\ Len(t) = Len(accts)
  BY UntimedType
<1>2. \A i \in DOMAIN accts : /\ t[i].debits = accts[i].debits /\ t[i].credits = accts[i].credits
                              /\ t[i].transactions = accts[i].transactions
  BY UntimedType, UntimedAccount, AccountTerms
<1> HIDE DEF t
<1>3. Balances(t) = Balances(accts) /\ Counted(t) = Counted(accts)
  BY <1>1, <1>2, SameSums
<1> QED
  BY <1>3 DEF t

LEMMA AddConserves ==
    ASSUME NEW accts \in Seq(Account), NEW a \in Account, a.transactions = 0
    PROVE  /\ Balances(accts) \in Int /\ Counted(accts) \in Int
           /\ Balances(Append(accts, a)) = Balances(accts) + (a.debits - a.credits)
           /\ Counted(Append(accts, a)) = Counted(accts)
<1> DEFINE t == Append(accts, a)
           n == Len(accts)
<1>1. /\ t \in Seq(Account) /\ Len(t) = n + 1 /\ t[n + 1] = a
      /\ \A i \in 1 .. n : t[i] = accts[i]
  BY AppendProperties, LenProperties
<1>2. DOMAIN accts = 1 .. n /\ n \in Nat
  BY AccountTerms
<1> HIDE DEF t
<1>3. DOMAIN t = 1 .. n + 1
  BY <1>1, AccountTerms
<1>4. n + 1 \in 1 .. n + 1 /\ \A i \in 1 .. n : i \in 1 .. n + 1
  BY <1>2
<1> HIDE DEF n
<1>5. /\ Balances(accts) \in Int
      /\ Balances(t) = Balances(accts) + (a.debits - a.credits)
  <2> DEFINE f == [i \in 1 .. n |-> accts[i].debits - accts[i].credits]
             g == [i \in 1 .. n + 1 |-> t[i].debits - t[i].credits]
  <2>1. f \in [1 .. n -> Int] /\ g \in [1 .. n + 1 -> Int]
    BY <1>1, <1>2, <1>3, AccountTerms
  <2>2. (\A i \in 1 .. n : g[i] = f[i]) /\ g[n + 1] = a.debits - a.credits
    BY <1>1, <1>4
  <2>3. Balances(accts) = SumFunction(f) /\ Balances(t) = SumFunction(g)
    BY <1>2, <1>3 DEF Balances
  <2> HIDE DEF f, g
  <2> QED
    BY <1>2, <2>1, <2>2, <2>3, SumAppend
<1>6. Counted(accts) \in Int /\ Counted(t) = Counted(accts)
  <2> DEFINE f == [i \in 1 .. n |-> accts[i].transactions]
             g == [i \in 1 .. n + 1 |-> t[i].transactions]
  <2>1. f \in [1 .. n -> Int] /\ g \in [1 .. n + 1 -> Int]
    BY <1>1, <1>2, <1>3, AccountTerms
  <2>2. (\A i \in 1 .. n : g[i] = f[i]) /\ g[n + 1] = 0
    BY <1>1, <1>4
  <2>3. Counted(accts) = SumFunction(f) /\ Counted(t) = SumFunction(g)
    BY <1>2, <1>3 DEF Counted
  <2> HIDE DEF f, g
  <2>4. SumFunction(f) \in Int /\ SumFunction(g) = SumFunction(f) + g[n + 1]
    BY <1>2, <2>1, <2>2, SumAppend
  <2> QED
    BY <2>2, <2>3, <2>4
<1> QED
  BY <1>5, <1>6 DEF t

\* A transfer moves an amount, modulo the width, and counts on both sides.
LEMMA TransferConserves ==
    ASSUME NEW accts \in Seq(Account), NEW op \in Operation, op.type = "make_transfer",
           Guard(accts, op), NEW clock \in Nat
    PROVE  LET b == StateMakeTransfer(accts, op, clock)
           IN  /\ Balances(accts) \in Int /\ Counted(accts) \in Int
               /\ \E k \in Int : Balances(b) = Balances(accts) + k * Width
               /\ Counted(b) = Counted(accts) + 2
<1> DEFINE b == StateMakeTransfer(accts, op, clock)
           D == DOMAIN accts
           x == op.from_id + 1
           y == op.to_id + 1
<1>1. op.from_id \in Nat /\ op.to_id \in Nat /\ op.amount \in Nat
  BY OperationTypes, WidthAssumption DEF U64, U128
<1>2. /\ op.from_id # op.to_id /\ op.from_id < Len(accts) /\ op.to_id < Len(accts)
      /\ accts[x].transactions # U64Max /\ accts[y].transactions # U64Max
  BY DEF Guard, GuardMakeTransfer, Exists
<1>3. x \in D /\ y \in D /\ x # y /\ IsFiniteSet(D)
  <2>1. D = 1 .. Len(accts) /\ Len(accts) \in Nat
    BY AccountTerms
  <2>2. IsFiniteSet(1 .. Len(accts))
    BY <2>1, FS_Interval
  <2> QED
    BY <1>1, <1>2, <2>1, <2>2
<1>4. b \in Seq(Account) /\ Len(b) = Len(accts) /\ DOMAIN b = D
  BY TransferType, AccountTerms
<1>5. \A i \in D :
         /\ b[i].credits = IF i = x THEN Wrap128(accts[i].credits + op.amount) ELSE accts[i].credits
         /\ b[i].debits = IF i = y THEN Wrap128(accts[i].debits + op.amount) ELSE accts[i].debits
         /\ b[i].transactions = IF i \in {x, y} THEN Wrap64(accts[i].transactions + 1)
                                ELSE accts[i].transactions
  BY TransferAccount
<1> HIDE DEF b, D, x, y
<1>6. /\ Balances(accts) \in Int
      /\ \E k \in Int : Balances(b) = Balances(accts) + k * Width
  <2> DEFINE f == [i \in D |-> accts[i].debits - accts[i].credits]
             g == [i \in D |-> b[i].debits - b[i].credits]
  <2>1. f \in [D -> Int] /\ g \in [D -> Int]
    BY <1>4, AccountTerms DEF D
  <2>2. ChangesAt(D, x, y, f, g)
    BY <1>3, <1>5 DEF ChangesAt
  <2>3. \E k \in Int : g[x] = (f[x] - op.amount) + k * Width
    <3>1. PICK c \in Nat, d \in Nat : c = accts[x].credits /\ d = accts[x].debits
      BY <1>3, AccountTerms DEF D
    <3>2. c + op.amount \in Nat
      BY <1>1
    <3>3. PICK k \in Int : Wrap128(c + op.amount) = (c + op.amount) + k * Width
      BY <3>2, Wrapped
    <3>4. g[x] = d - ((c + op.amount) + k * Width) /\ f[x] = d - c
      BY <1>3, <1>5, <3>1, <3>3
    <3>5. PICK w \in Int, l \in Int : w = k * Width /\ l * Width = -w
      BY WidthAssumption DEF Width
    <3>6. g[x] = (f[x] - op.amount) + l * Width
      BY <1>1, <3>4, <3>5
    <3> QED
      BY <3>6
  <2>4. \E l \in Int : g[y] = (f[y] + op.amount) + l * Width
    <3>1. PICK c \in Nat, d \in Nat : c = accts[y].credits /\ d = accts[y].debits
      BY <1>3, AccountTerms DEF D
    <3>2. d + op.amount \in Nat
      BY <1>1
    <3>3. PICK l \in Int : Wrap128(d + op.amount) = (d + op.amount) + l * Width
      BY <3>2, Wrapped
    <3>4. g[y] = ((d + op.amount) + l * Width) - c /\ f[y] = d - c
      BY <1>3, <1>5, <3>1, <3>3
    <3>5. PICK w \in Int : w = l * Width
      BY WidthAssumption DEF Width
    <3>6. g[y] = (f[y] + op.amount) + l * Width
      BY <1>1, <3>4, <3>5
    <3> QED
      BY <3>6
  <2>5. Balances(accts) = SumFunction(f) /\ Balances(b) = SumFunction(g)
    BY <1>4 DEF Balances, D
  <2>6. f[x] \in Int /\ f[y] \in Int /\ g[x] \in Int /\ g[y] \in Int
    BY <1>3, <2>1
  <2> HIDE DEF f, g
  <2>7. /\ SumFunction(f) \in Int
        /\ SumFunction(g) = SumFunction(f) + (g[x] - f[x]) + (g[y] - f[y])
    BY <1>3, <2>1, <2>2, <2>6, SumChanged
  <2>8. PICK k \in Int, l \in Int : /\ g[x] = (f[x] - op.amount) + k * Width
                                     /\ g[y] = (f[y] + op.amount) + l * Width
    BY <2>3, <2>4
  <2>9. PICK m \in Int, v \in Int, w \in Int :
            v = k * Width /\ w = l * Width /\ v + w = m * Width
    <3>1. k * Width + l * Width = (k + l) * Width /\ k * Width \in Int /\ l * Width \in Int
      BY WidthAssumption DEF Width
    <3> QED
      BY <3>1
  <2>10. PICK t \in Int, c \in Int, d \in Int : t = SumFunction(f) /\ c = f[x] /\ d = f[y]
    BY <2>6, <2>7
  <2>11. SumFunction(g) = t + (((c - op.amount) + v) - c) + (((d + op.amount) + w) - d)
    BY <2>7, <2>8, <2>9, <2>10
  <2>12. SumFunction(g) = t + (v + w)
    BY <1>1, <2>11
  <2>13. SumFunction(g) = SumFunction(f) + m * Width
    BY <2>9, <2>10, <2>12
  <2> QED
    BY <2>5, <2>7, <2>13
<1>7. Counted(accts) \in Int /\ Counted(b) = Counted(accts) + 2
  <2> DEFINE f == [i \in D |-> accts[i].transactions]
             g == [i \in D |-> b[i].transactions]
  <2>1. f \in [D -> Int] /\ g \in [D -> Int]
    BY <1>4, AccountTerms DEF D
  <2>2. ChangesAt(D, x, y, f, g)
    BY <1>3, <1>5 DEF ChangesAt
  <2>3. ASSUME NEW z \in {x, y} PROVE g[z] = f[z] + 1 /\ f[z] \in Int
    <3>1. accts[z].transactions \in Nat /\ accts[z].transactions + 1 \in Nat
            /\ accts[z].transactions + 1 <= U64Max
      BY <1>2, <1>3, AccountTerms, WidthAssumption DEF D, U64
    <3>2. Wrap64(accts[z].transactions + 1) = accts[z].transactions + 1
      BY <3>1, WrapType
    <3> QED
      BY <1>3, <1>5, <3>1, <3>2
  <2>4. Counted(accts) = SumFunction(f) /\ Counted(b) = SumFunction(g)
    BY <1>4 DEF Counted, D
  <2>5. f[x] \in Int /\ f[y] \in Int /\ g[x] \in Int /\ g[y] \in Int
    BY <1>3, <2>1
  <2> HIDE DEF f, g
  <2>6. /\ SumFunction(f) \in Int
        /\ SumFunction(g) = SumFunction(f) + (g[x] - f[x]) + (g[y] - f[y])
    BY <1>3, <2>1, <2>2, <2>5, SumChanged
  <2>7. g[x] = f[x] + 1 /\ g[y] = f[y] + 1
    BY <2>3
  <2> QED
    BY <2>4, <2>5, <2>6, <2>7
<1> QED
  BY <1>6, <1>7 DEF b

\* What an operation that passed the guard does to the sums: an account adds what it is
\* opened with, a transfer nothing but its two counts, an update nothing.
OpenedWith(op) == IF op.type = "add_account" THEN op.debits - op.credits ELSE 0
CountsOf(op) == IF op.type = "make_transfer" THEN 2 ELSE 0

LEMMA ApplyConserves ==
    ASSUME NEW accts \in Seq(Account), NEW op \in Operation, Guard(accts, op),
           NEW created \in Nat, NEW clock \in Nat
    PROVE  LET b == Apply(accts, op, created, clock)
           IN  /\ Balances(accts) \in Int /\ Counted(accts) \in Int
               /\ \E k \in Int : Balances(b) = Balances(accts) + OpenedWith(op) + k * Width
               /\ Counted(b) = Counted(accts) + CountsOf(op)
<1> DEFINE b == Apply(accts, op, created, clock)
<1>0. 0 \in Int /\ 0 * Width = 0
  BY WidthAssumption DEF Width
<1>1. CASE op.type = "add_account"
  <2> DEFINE a == NewAccount(op.credits, op.debits, created, op.flags)
  <2>1. b = Append(accts, a)
    BY <1>1 DEF Apply
  <2>2. a \in Account /\ a.transactions = 0
    BY <1>1, NewAccountType DEF NewAccount
  <2>3. PICK o \in Int : o = OpenedWith(op) /\ a.debits - a.credits = o
    BY <1>1, OperationTypes, WidthAssumption DEF OpenedWith, NewAccount, U128
  <2> HIDE DEF a, b
  <2>4. /\ Balances(accts) \in Int /\ Counted(accts) \in Int
        /\ Balances(b) = Balances(accts) + o
        /\ Counted(b) = Counted(accts)
    BY <2>1, <2>2, <2>3, AddConserves
  <2>5. CountsOf(op) = 0
    BY <1>1 DEF CountsOf
  <2>6. Balances(b) = Balances(accts) + OpenedWith(op) + 0 * Width
    BY <1>0, <2>3, <2>4
  <2> QED
    BY <1>0, <2>4, <2>5, <2>6 DEF b
<1>2. CASE op.type = "make_transfer"
  <2>1. b = StateMakeTransfer(accts, op, clock)
    BY <1>2 DEF Apply
  <2> HIDE DEF b
  <2>2. /\ Balances(accts) \in Int /\ Counted(accts) \in Int
        /\ \E k \in Int : Balances(b) = Balances(accts) + k * Width
        /\ Counted(b) = Counted(accts) + 2
    BY <1>2, <2>1, TransferConserves
  <2>3. OpenedWith(op) = 0 /\ CountsOf(op) = 2
    BY <1>2 DEF OpenedWith, CountsOf
  <2>4. PICK k \in Int : Balances(b) = Balances(accts) + k * Width
    BY <2>2
  <2>5. Balances(accts) + OpenedWith(op) = Balances(accts)
    BY <2>2, <2>3
  <2> QED
    BY <2>2, <2>3, <2>4, <2>5 DEF b
<1>3. CASE op.type = "update_account"
  <2>1. b = StateUpdateAccount(accts, op)
    BY <1>3 DEF Apply
  <2>2. b \in Seq(Account) /\ Len(b) = Len(accts)
    BY <1>3, <2>1, UpdateType
  <2>3. \A i \in DOMAIN accts : /\ b[i].debits = accts[i].debits /\ b[i].credits = accts[i].credits
                                /\ b[i].transactions = accts[i].transactions
    <3> TAKE i \in DOMAIN accts
    <3>1. accts[i] \in Account
      BY AccountTerms
    <3>2. b[i] = IF i = op.account_id + 1 THEN [accts[i] EXCEPT !.flags = op.flags] ELSE accts[i]
      BY <2>1 DEF StateUpdateAccount
    <3> QED
      BY <3>1, <3>2 DEF Account
  <2> HIDE DEF b
  <2>4. Balances(b) = Balances(accts) /\ Counted(b) = Counted(accts)
    BY <2>2, <2>3, SameSums
  <2>5. Balances(accts) \in Int /\ Counted(accts) \in Int
    BY SumsType
  <2>6. OpenedWith(op) = 0 /\ CountsOf(op) = 0
    BY <1>3 DEF OpenedWith, CountsOf
  <2>7. Balances(b) = Balances(accts) + OpenedWith(op) + 0 * Width
    BY <1>0, <2>4, <2>5, <2>6
  <2> QED
    BY <1>0, <2>4, <2>5, <2>6, <2>7 DEF b
<1> QED
  BY <1>1, <1>2, <1>3, OperationTypes

\* The same of the list a log stands for.
LEMMA AfterConserves ==
    ASSUME NEW accts \in Seq(Account), NEW e, e.op \in Operation, e.timestamp \in Nat,
           Guard(accts, e.op)
    PROVE  LET b == After(accts, e)
           IN  /\ b \in Seq(Account)
               /\ Balances(accts) \in Int /\ Counted(accts) \in Int
               /\ \E k \in Int : Balances(b) = Balances(accts) + OpenedWith(e.op) + k * Width
               /\ Counted(b) = Counted(accts) + CountsOf(e.op)
<1> DEFINE b == Apply(accts, e.op, e.timestamp, e.timestamp)
<1>1. b \in Seq(Account)
  BY ApplyType
<1>2. /\ Balances(accts) \in Int /\ Counted(accts) \in Int
      /\ \E k \in Int : Balances(b) = Balances(accts) + OpenedWith(e.op) + k * Width
      /\ Counted(b) = Counted(accts) + CountsOf(e.op)
  BY ApplyConserves
<1>3. After(accts, e) = Untimed(b)
  BY DEF After
<1> HIDE DEF b
<1>4. /\ Untimed(b) \in Seq(Account)
      /\ Balances(Untimed(b)) = Balances(b) /\ Counted(Untimed(b)) = Counted(b)
  BY <1>1, UntimedType, SumsOfUntimed
<1> QED
  BY <1>2, <1>3, <1>4

=============================================================================
