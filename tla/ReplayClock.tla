----------------------------- MODULE ReplayClock -----------------------------
(***************************************************************************)
(* LetDB, with the accounts that were last served kept beside it: what a   *)
(* start that reads the same log back is to be compared with.              *)
(***************************************************************************)
EXTENDS LetDB

VARIABLE served   \* history: the file and the accounts when an entry was last applied

ClockInit == Init /\ served = [file |-> <<>>, accts |-> <<>>]

ClockNext ==
    /\ Next
    /\ served' = IF pc = "logged" /\ pc' = "ready"
                 THEN [file |-> file', accts |-> accts'] ELSE served

ClockSpec == ClockInit /\ [][ClockNext]_<<vars, served>>

\* What docs/OVERVIEW.md:30-31 says of the state in memory: requests are applied
\* deterministically during both runtime and failure recovery, so a process that serves
\* the file its predecessor served has its accounts.  The time of the last change is the
\* one let_state_make_transfer takes from the clock when it runs (state.c:45), at a start
\* too, and not that of the entry.
RecoveryIsDeterministic ==
    pc = "ready" /\ file = served.file => accts = served.accts

=============================================================================
