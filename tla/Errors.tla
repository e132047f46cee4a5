-------------------------------- MODULE Errors --------------------------------
(***************************************************************************)
(* The errors of LetDB, the number each is answered with and what the main *)
(* loop does about each (include/let/error.h, error.c): no state.          *)
(***************************************************************************)
EXTENDS Naturals, Sequences

CONSTANTS CodeStep,   \* 1000
          U16Max      \* the width of a code

ASSUME ErrorsAssumption == CodeStep \in Nat /\ U16Max \in Nat

\* The modules and their errors, in the order of their enumerations.
Account == <<"OUT_OF_MEMORY", "ACCOUNT_NOT_FOUND", "CAPACITY_OVERFLOW">>
State == <<"INVALID_ACCOUNT_LIST", "STATE_INVALID_TIME">>
Guarded == <<"SAME_ACCOUNT", "SENDER_NOT_FOUND", "RECIPIENT_NOT_FOUND",
             "INSUFFICIENT_BALANCE", "TRANSACTION_OVERFLOW", "ZERO_BALANCE",
             "CANNOT_SEND", "CANNOT_RECEIVE", "GUARD_INVALID_STATE">>
Network == <<"CREATE_FAILED", "BIND_FAILED", "LISTEN_FAILED", "ACCEPT_FAILED",
             "READ_FAILED", "WRITE_FAILED", "READ_TIMEOUT", "WRITE_TIMEOUT",
             "SERVER_CLOSED", "CLIENT_CLOSED",
             "EMPTY", "MALFORMED", "INVALID_COMMAND", "INVALID_INTEGER",
             "INTEGER_OVERFLOW", "EXPECTED_NEW_LINE", "ARGUMENTS_MISSING",
             "REQUEST_BUFFER_OVERFLOW", "RESPONSE_BUFFER_OVERFLOW">>
Storage == <<"WAL_CREATE_FAILED", "WAL_OPEN_FAILED", "WAL_WRITE_FAILED",
             "WAL_READ_FAILED", "WAL_SYNC_FAILED", "WAL_SEEK_FAILED",
             "WAL_TRUNCATE_FAILED", "INVALID_MAGIC", "INVALID_VERSION",
             "NONCE_MISMATCH", "CHECKSUM_MISMATCH", "INVALID_ENTRY_TYPE",
             "WAL_INVALID_TIME", "WAL_INVALID_STATE", "INVALID_PATH">>
Cli == <<"INVALID_OPTION", "INVALID_PORT", "INVALID_BACKLOG",
         "INVALID_READ_TIMEOUT", "INVALID_WRITE_TIMEOUT", "INVALID_LOG_LEVEL">>

\* let_error_id_t: the number of a module is its place.
Modules == <<Account, State, Guarded, Network, Storage, Cli>>

\* A thousand codes for each module are enough, and 16 bits for them all.
ASSUME CodesFit ==
    /\ \A m \in DOMAIN Modules : Len(Modules[m]) < CodeStep
    /\ CodeStep * (Len(Modules) + 1) <= U16Max

NamesOf(m) == {Modules[m][i] : i \in DOMAIN Modules[m]}
Errors == {"NONE"} \cup UNION {NamesOf(m) : m \in DOMAIN Modules}

\* Mutant: an error is numbered within all of its modules' (error.c:53-55).
Code_NoModule(e) ==
    IF e = "NONE" THEN 0
    ELSE LET m == CHOOSE k \in DOMAIN Modules : e \in NamesOf(k)
             n == CHOOSE i \in DOMAIN Modules[m] : Modules[m][i] = e
         IN  (CodeStep + n) % (U16Max + 1)

Code(e) ==
    IF e = "NONE" THEN 0
    ELSE LET m == CHOOSE k \in DOMAIN Modules : e \in NamesOf(k)
             n == CHOOSE i \in DOMAIN Modules[m] : Modules[m][i] = e
         IN  (CodeStep * m + n) % (U16Max + 1)

-----------------------------------------------------------------------------
(* let_error_report: the action for each error.                            *)

AccountAction(e) == IF e = "OUT_OF_MEMORY" THEN "fatal" ELSE "reject"
GuardAction(e) == IF e = "GUARD_INVALID_STATE" THEN "fatal" ELSE "reject"
StorageAction(e) == IF e = "NONCE_MISMATCH" THEN "reject" ELSE "fatal"
NetworkAction(e) ==
    CASE e \in {"CREATE_FAILED", "BIND_FAILED", "LISTEN_FAILED", "ACCEPT_FAILED"} -> "fatal"
      [] e \in {"READ_FAILED", "WRITE_FAILED", "READ_TIMEOUT", "WRITE_TIMEOUT",
                "REQUEST_BUFFER_OVERFLOW", "RESPONSE_BUFFER_OVERFLOW"} -> "close"
      [] e \in {"SERVER_CLOSED", "CLIENT_CLOSED"} -> "ignore"
      [] OTHER -> "reject"

\* Mutant: a line that does not fit is answered with an error (error.c:204-207).
Action_RejectsLongLines(e) ==
    CASE e = "NONE" -> "none"
      [] e = "REQUEST_BUFFER_OVERFLOW" -> "reject"
      [] e \in NamesOf(1) -> AccountAction(e)
      [] e \in NamesOf(3) -> GuardAction(e)
      [] e \in NamesOf(4) -> NetworkAction(e)
      [] e \in NamesOf(5) -> StorageAction(e)
      [] OTHER -> "fatal"

\* The errors of the state and of the command line are all fatal.
Action(e) ==
    CASE e = "NONE" -> "none"
      [] e \in NamesOf(1) -> AccountAction(e)
      [] e \in NamesOf(3) -> GuardAction(e)
      [] e \in NamesOf(4) -> NetworkAction(e)
      [] e \in NamesOf(5) -> StorageAction(e)
      [] OTHER -> "fatal"

=============================================================================
