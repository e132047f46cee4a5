---------------------------- MODULE DurableLedger ----------------------------
(***************************************************************************)
(* What LetDB promises its clients, with no file, process or recovery: one *)
(* log to which only operations legal after the log so far are added, and  *)
(* of which nothing is ever lost that a client got an answer for.          *)
(***************************************************************************)
EXTENDS Ledger

CONSTANTS Operations, MaxTime

VARIABLES log,    \* the committed entries, in order
          acked   \* the entries a client got an answer for
vars == <<log, acked>>

Entries == {log[i] : i \in DOMAIN log}

Init == log = <<>> /\ acked = {}

\* An operation is committed at the end, if the guard lets it pass there.
Commit(op, time) ==
    /\ Guard(AccountsAfter(log), op)
    /\ log' = Append(log, [id |-> Len(log), timestamp |-> time, op |-> op])
    /\ UNCHANGED acked

\* An answer is sent for a committed entry only.
Acknowledge(e) ==
    /\ e \in Entries
    /\ acked' = acked \cup {e}
    /\ UNCHANGED log

\* A crash may lose the end of the log, as long as nobody was told of it.
Lose(n) ==
    /\ log' = SubSeq(log, 1, n)
    /\ \A e \in acked : \E i \in 1 .. n : log[i] = e
    /\ UNCHANGED acked

Next ==
    \/ \E op \in Operations, time \in 0 .. MaxTime : Commit(op, time)
    \/ \E e \in Entries : Acknowledge(e)
    \/ \E n \in 0 .. Len(log) : Lose(n)

Spec == Init /\ [][Next]_vars

=============================================================================
