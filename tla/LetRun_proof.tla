---------------------------- MODULE LetRun_proof ----------------------------
(***************************************************************************)
(* Proofs about the main loop: for any lengths of buffer and response and  *)
(* any set of errors a request may end in.                                 *)
(***************************************************************************)
EXTENDS LetRun, TLAPS

\* The errors that end a connection are in the table, in the module of the network.
LEMMA NetworkNames ==
    ReadErrors \cup WriteErrors
      \cup {"REQUEST_BUFFER_OVERFLOW", "CLIENT_CLOSED", "SERVER_CLOSED", "ACCEPT_FAILED",
            "EMPTY", "MALFORMED", "INVALID_COMMAND", "INVALID_INTEGER",
            "INTEGER_OVERFLOW", "EXPECTED_NEW_LINE", "ARGUMENTS_MISSING"}
      \subseteq NamesOf(4)
<1>1. Modules[4] = Network  BY DEF Modules
<1>2. DOMAIN Network = 1 .. 19  BY DEF Network
<1>3. /\ Network[4] = "ACCEPT_FAILED" /\ Network[5] = "READ_FAILED"
      /\ Network[6] = "WRITE_FAILED" /\ Network[7] = "READ_TIMEOUT"
      /\ Network[8] = "WRITE_TIMEOUT" /\ Network[9] = "SERVER_CLOSED"
      /\ Network[10] = "CLIENT_CLOSED"
      /\ Network[11] = "EMPTY" /\ Network[12] = "MALFORMED"
      /\ Network[13] = "INVALID_COMMAND" /\ Network[14] = "INVALID_INTEGER"
      /\ Network[15] = "INTEGER_OVERFLOW" /\ Network[16] = "EXPECTED_NEW_LINE"
      /\ Network[17] = "ARGUMENTS_MISSING"
      /\ Network[18] = "REQUEST_BUFFER_OVERFLOW"
  BY DEF Network
<1> QED  BY <1>1, <1>2, <1>3 DEF NamesOf, ReadErrors, WriteErrors

LEMMA AllNames ==
    /\ \A m \in 1 .. 6 : NamesOf(m) \subseteq Errors
    /\ "NONE" \in Errors
    /\ "STATE_INVALID_TIME" \in Errors
<1>1. DOMAIN Modules = 1 .. 6  BY DEF Modules
<1>2. Modules[2] = State /\ DOMAIN State = 1 .. 2 /\ State[2] = "STATE_INVALID_TIME"
  BY DEF Modules, State
<1>3. "STATE_INVALID_TIME" \in NamesOf(2)  BY <1>2 DEF NamesOf
<1>4. ASSUME NEW m \in 1 .. 6  PROVE  NamesOf(m) \subseteq Errors
  <2>1. \A S \in {NamesOf(k) : k \in DOMAIN Modules} : S \subseteq Errors
    BY Zenon DEF Errors
  <2> QED  BY <1>1, <2>1
<1> HIDE DEF NamesOf
<1>5. "NONE" \in Errors  BY Zenon DEF Errors
<1>6. NamesOf(2) \subseteq Errors  BY <1>4
<1> QED  BY <1>3, <1>4, <1>5, <1>6

LEMMA HandlerErrorsKnown == HandlerErrors \subseteq Errors
BY LetRunAssumption, NetworkNames, AllNames

\* None of these errors is one of the account, of the guard or of the storage.
LEMMA NamesApart ==
    \A e \in ReadErrors \cup WriteErrors
             \cup {"REQUEST_BUFFER_OVERFLOW", "CLIENT_CLOSED", "SERVER_CLOSED"} :
        e \notin NamesOf(1) \cup NamesOf(3) \cup NamesOf(5) /\ e # "NONE"
<1>1. NamesOf(1) = {Account[i] : i \in 1 .. 3}
  BY DEF NamesOf, Modules, Account
<1>2. NamesOf(3) = {Guarded[i] : i \in 1 .. 9}
  BY DEF NamesOf, Modules, Guarded
<1>3. \A i \in 1 .. 3 :
        Account[i] \in {"OUT_OF_MEMORY", "ACCOUNT_NOT_FOUND", "CAPACITY_OVERFLOW"}
  BY DEF Account
<1>4. \A i \in 1 .. 9 :
        Guarded[i] \in {"SAME_ACCOUNT", "SENDER_NOT_FOUND", "RECIPIENT_NOT_FOUND",
             "INSUFFICIENT_BALANCE", "TRANSACTION_OVERFLOW", "ZERO_BALANCE",
             "CANNOT_SEND", "CANNOT_RECEIVE", "GUARD_INVALID_STATE"}
  BY DEF Guarded
<1>5. NamesOf(5) = {Storage[i] : i \in 1 .. 15}
  BY DEF NamesOf, Modules, Storage
<1>6. \A i \in 1 .. 15 :
        Storage[i] \in {"WAL_CREATE_FAILED", "WAL_OPEN_FAILED", "WAL_WRITE_FAILED",
             "WAL_READ_FAILED", "WAL_SYNC_FAILED", "WAL_SEEK_FAILED",
             "WAL_TRUNCATE_FAILED", "INVALID_MAGIC", "INVALID_VERSION",
             "NONCE_MISMATCH", "CHECKSUM_MISMATCH", "INVALID_ENTRY_TYPE",
             "WAL_INVALID_TIME", "WAL_INVALID_STATE", "INVALID_PATH"}
  BY DEF Storage
<1> QED  BY <1>1, <1>2, <1>3, <1>4, <1>5, <1>6 DEF ReadErrors, WriteErrors

\* What the table says of the errors that end a connection.
LEMMA ConnectionEnds ==
    /\ \A e \in ReadErrors \cup WriteErrors \cup {"REQUEST_BUFFER_OVERFLOW"} :
         Action(e) = "close"
    /\ \A e \in {"CLIENT_CLOSED", "SERVER_CLOSED"} : Action(e) = "ignore"
<1>1. \A e \in ReadErrors \cup WriteErrors
              \cup {"REQUEST_BUFFER_OVERFLOW", "CLIENT_CLOSED", "SERVER_CLOSED"} :
        Action(e) = NetworkAction(e)
  BY NetworkNames, NamesApart DEF Action
<1> QED  BY <1>1 DEF NetworkAction, ReadErrors, WriteErrors

-----------------------------------------------------------------------------
(* The inductive invariant.                                                *)

\* TypeOK in two parts, which the prover does not take in one.
Flags ==
    /\ accepting \in BOOLEAN /\ executing \in BOOLEAN
    /\ waiting \in BOOLEAN /\ drained \in BOOLEAN
    /\ midline \in BOOLEAN /\ cut \in BOOLEAN /\ signalled \in BOOLEAN

Values ==
    /\ pc \in Pcs /\ error \in Errors
    /\ request \in {"none", "other", "close"}
    /\ inbox \in {"none", "byte", "newline"}
    /\ index \in 0 .. BufferLength /\ unsent \in 0 .. ResponseLength
    /\ peer \in {"none", "open", "gone"}
    /\ late \in 0 .. 2
    /\ pc \in {"test", "accept", "accepting", "exited"} => peer = "none"

\* The index stays in the buffer while a line is read.
BufferInv == pc \in {"recv", "receiving"} => index < BufferLength

\* No connection is accepted after the one that a signal came too late for: the flag
\* is down, and only its test leads back to accept.
AcceptInv ==
    /\ signalled => ~accepting
    /\ late > 0 => signalled /\ pc \notin {"accept", "accepting"}
    /\ late <= 1

\* The errors that end the reading of a line half way.
Half == ReadErrors \cup {"REQUEST_BUFFER_OVERFLOW", "CLIENT_CLOSED", "SERVER_CLOSED"}

\* Within a line the loop reads on, or is on its way to close the connection.
LineInv ==
    /\ pc \in {"accepted", "send", "sending", "sent"} => ~midline
    /\ pc = "serve" /\ executing => ~midline
    /\ pc \in {"recv", "receiving"} /\ index = 0 => ~midline
    /\ pc = "report" /\ midline => error \in Half

\* With a response cut short, the same, unless there was a signal.
ResponseInv ==
    /\ cut => signalled
    /\ pc = "accepted" => unsent = 0
    /\ unsent # 0 /\ pc \in {"recv", "receiving", "report"} => signalled
    /\ unsent # 0 /\ pc = "serve" /\ executing => signalled
    /\ pc = "sent" => error \in WriteErrors \/ signalled

IInv == Flags /\ Values /\ BufferInv /\ AcceptInv /\ LineInv /\ ResponseInv

\* The invariant holds when let_init has succeeded.
LEMMA InitInv == Init => IInv
<1>1. "NONE" \in Errors  BY AllNames
<1> SUFFICES ASSUME Init  PROVE  IInv
  OBVIOUS
<1>2. Flags  BY DEF Init, Flags
<1>3. Values  BY <1>1, LetRunAssumption DEF Init, Values, Pcs
<1>4. BufferInv /\ AcceptInv /\ LineInv /\ ResponseInv
  BY DEF Init, BufferInv, AcceptInv, LineInv, ResponseInv
<1> QED  BY <1>2, <1>3, <1>4 DEF IInv

\* What the proofs of the steps use of the errors.
LEMMA ErrorsKnown ==
    ReadErrors \cup WriteErrors \cup HandlerErrors
      \cup {"NONE", "REQUEST_BUFFER_OVERFLOW", "CLIENT_CLOSED", "SERVER_CLOSED",
            "ACCEPT_FAILED"} \subseteq Errors
BY NetworkNames, AllNames, HandlerErrorsKnown

\* Every step of the loop, of a signal and of a client preserves the invariant.
LEMMA NextInv == IInv /\ [Next]_vars => IInv'
<1> SUFFICES ASSUME IInv, [Next]_vars  PROVE  IInv'
  OBVIOUS
<1> USE LetRunAssumption, ErrorsKnown
<1> USE DEF IInv, Flags, Values, Pcs, BufferInv, AcceptInv, LineInv, ResponseInv,
        Goto, Keep, buffers, clients, history, loop
<1>1. CASE TestAccepting  BY <1>1 DEF TestAccepting
<1>2. CASE EnterAccept  BY <1>2 DEF EnterAccept
<1>3. CASE Accept
  <2>1. Flags'  BY <1>3 DEF Accept
  <2>2. Values'  BY <1>3 DEF Accept
  <2>3. BufferInv'  BY <1>3 DEF Accept
  <2>4. AcceptInv'  BY <1>3 DEF Accept
  <2>5. LineInv'  BY <1>3 DEF Accept
  <2>6. ResponseInv'  BY <1>3 DEF Accept
  <2> QED  BY <2>1, <2>2, <2>3, <2>4, <2>5, <2>6
<1>4. CASE StartExecuting  BY <1>4 DEF StartExecuting
<1>5. CASE CloseClient  BY <1>5 DEF CloseClient
<1>6. CASE TestExecuting  BY <1>6 DEF TestExecuting
<1>7. CASE EnterRecv  BY <1>7 DEF EnterRecv
<1>8. CASE TakeByte  BY <1>8 DEF TakeByte, Half
<1>9. CASE Handle
  <2>1. Flags'  BY <1>9 DEF Handle
  <2>2. Values'  BY <1>9 DEF Handle
  <2>3. BufferInv'  BY <1>9 DEF Handle
  <2>4. AcceptInv'  BY <1>9 DEF Handle
  <2>5. LineInv'  BY <1>9 DEF Handle
  <2>6. ResponseInv'  BY <1>9 DEF Handle
  <2> QED  BY <2>1, <2>2, <2>3, <2>4, <2>5, <2>6
<1>10. CASE RecvClosed  BY <1>10 DEF RecvClosed, Half
<1>11. CASE Report
  <2>1. \A e \in Half : Action(e) \notin {"none", "reject"}
    BY ConnectionEnds DEF Half
  <2> QED  BY <1>11, <2>1 DEF Report, Answer
<1>12. CASE EnterSend  BY <1>12 DEF EnterSend
<1>13. CASE Send
  <2>1. Flags'  BY <1>13 DEF Send
  <2>2. Values'  BY <1>13 DEF Send
  <2>3. BufferInv'  BY <1>13 DEF Send
  <2>4. AcceptInv'  BY <1>13 DEF Send
  <2>5. LineInv'  BY <1>13 DEF Send
  <2>6. ResponseInv'  BY <1>13 DEF Send
  <2> QED  BY <2>1, <2>2, <2>3, <2>4, <2>5, <2>6
<1>14. CASE SendFails  BY <1>14 DEF SendFails
<1>15. CASE ReportSend
  <2>1. \A e \in WriteErrors : Action(e) = "close"  BY ConnectionEnds
  <2> QED  BY <1>15, <2>1 DEF ReportSend
<1>16. CASE AcceptFails  BY <1>16 DEF AcceptFails
<1>17. CASE RecvFails  BY <1>17 DEF RecvFails, Half
<1>18. CASE Signal
  <2>1. Flags'  BY <1>18 DEF Signal, Interrupted, Waits, Half
  <2>2. Values'  BY <1>18 DEF Signal, Interrupted, Waits, Half
  <2>3. BufferInv'  BY <1>18 DEF Signal, Interrupted, Waits, Half
  <2>4. AcceptInv'  BY <1>18 DEF Signal, Interrupted, Waits, Half
  <2>5. LineInv'  BY <1>18 DEF Signal, Interrupted, Waits, Half
  <2>6. ResponseInv'  BY <1>18 DEF Signal, Interrupted, Waits, Half
  <2> QED  BY <2>1, <2>2, <2>3, <2>4, <2>5, <2>6
<1>19. CASE Clients
  <2> USE <1>19 DEF Clients, ClientConnects, ClientSends, ClientReads, ClientLeaves
  <2>1. Flags'  OBVIOUS
  <2>2. Values'  OBVIOUS
  <2>3. BufferInv'  OBVIOUS
  <2>4. AcceptInv'  OBVIOUS
  <2>5. LineInv'  OBVIOUS
  <2>6. ResponseInv'  OBVIOUS
  <2> QED  BY <2>1, <2>2, <2>3, <2>4, <2>5, <2>6
<1>20. CASE UNCHANGED vars  BY <1>20 DEF vars
<1> QED
  BY <1>1, <1>2, <1>3, <1>4, <1>5, <1>6, <1>7, <1>8, <1>9, <1>10, <1>11, <1>12, <1>13,
     <1>14, <1>15, <1>16, <1>17, <1>18, <1>19, <1>20 DEF Next, LoopStep, Failure

\* The invariant holds in every reachable state.
THEOREM Invariant == Spec => []IInv
BY InitInv, NextInv, PTL DEF Spec

-----------------------------------------------------------------------------
\* The flags, the buffers and the connection of the loop keep their types: the index
\* never leaves the buffer, and no connection is open where the loop accepts or ends.
THEOREM TypeCorrect == Spec => []TypeOK
<1>1. IInv => TypeOK  BY DEF IInv, Flags, Values, TypeOK
<1> QED  BY <1>1, Invariant, PTL

\* At most one connection is accepted after a signal.
THEOREM AcceptsOneMore == Spec => []OneMoreAtMost
<1>1. IInv => OneMoreAtMost  BY DEF IInv, AcceptInv, OneMoreAtMost
<1> QED  BY <1>1, Invariant, PTL

\* No line is decoded from its middle, whatever ends the reading of one.
THEOREM LinesAreWhole == Spec => []WholeLines
<1>1. IInv => WholeLines  BY DEF IInv, LineInv, WholeLines
<1> QED  BY <1>1, Invariant, PTL

\* No response is begun behind one that was cut short, signals aside.
THEOREM ResponsesAreWhole == Spec => []WholeResponses
<1>1. IInv => WholeResponses  BY DEF IInv, ResponseInv, WholeResponses
<1> QED  BY <1>1, Invariant, PTL

=============================================================================
