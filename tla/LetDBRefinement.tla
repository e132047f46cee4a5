--------------------------- MODULE LetDBRefinement ---------------------------
(***************************************************************************)
(* The engine implements the durable ledger: its log is the readable       *)
(* beginning of the file.                                                  *)
(***************************************************************************)
EXTENDS LetDB

\* The entries a start would replay now.
Readable == {i \in DOMAIN file : \A j \in 1 .. i : IsGood(file[j])}
ReadableLog == [i \in Readable |-> file[i].entry]

Abstract == INSTANCE DurableLedger WITH log <- ReadableLog

\* Every write, recovery, crash and power loss is a commit, an answer, the loss
\* of entries nobody was told of, or invisible.
ImplementsDurableLedger == Abstract!Spec

=============================================================================
