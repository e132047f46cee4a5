-------------------------------- MODULE LetRun --------------------------------
(***************************************************************************)
(* The main loop of LetDB and the signals that stop it: let_run and        *)
(* let_close (let.c), the handlers main installs without SA_RESTART        *)
(* (main.c), and what the error table makes of each error (error.c).       *)
(*                                                                         *)
(* let_close runs between any two steps and clears both flags.  A system   *)
(* call that waits ends with EINTR; one not yet entered waits all the same.*)
(* Lines are read, and responses written, a byte at a time.                *)
(***************************************************************************)
EXTENDS Errors

CONSTANTS BufferLength,     \* LET_NETWORK_BUFFER_LENGTH
          ResponseLength,   \* bytes of a response
          HandlerErrors     \* the errors a request may end in

\* What let_network_request_decode and let_request return.
ASSUME LetRunAssumption ==
    /\ BufferLength \in Nat \ {0} /\ ResponseLength \in Nat \ {0}
    /\ HandlerErrors \subseteq
         {"EMPTY", "MALFORMED", "INVALID_COMMAND", "INVALID_INTEGER",
          "INTEGER_OVERFLOW", "EXPECTED_NEW_LINE", "ARGUMENTS_MISSING",
          "STATE_INVALID_TIME"}
         \cup NamesOf(1) \cup NamesOf(3) \cup NamesOf(5)

VARIABLES
    pc,           \* where the loop is
    accepting,    \* let.accepting
    executing,    \* let.executing
    error,        \* let.error
    request,      \* the request being served
    waiting,      \* a connection waits to be accepted
    peer,         \* the other end of the accepted connection
    inbox,        \* the byte that is there to be read
    index,        \* network_client.read_buffer_index
    unsent,       \* bytes of the response that are not sent yet
    drained,      \* the socket has room for the response
    midline,      \* history: the bytes taken from the peer end within a line
    cut,          \* history: a response was begun before the last was sent
    signalled,    \* history: a signal was delivered
    late          \* history: connections accepted since, up to 2
buffers == <<index, unsent, midline, cut>>
loop == <<pc, accepting, executing, error, request, buffers>>
clients == <<waiting, peer, inbox, drained>>
history == <<signalled, late>>
vars == <<loop, clients, history>>

ReadErrors == {"READ_TIMEOUT", "READ_FAILED"}
WriteErrors == {"WRITE_TIMEOUT", "WRITE_FAILED"}

Pcs == {"test", "accept", "accepting", "accepted", "serve", "recv", "receiving",
        "report", "send", "sending", "sent", "close", "exited"}
Waits == {"accepting", "receiving", "sending"}

TypeOK ==
    /\ pc \in Pcs /\ error \in Errors
    /\ accepting \in BOOLEAN /\ executing \in BOOLEAN
    /\ request \in {"none", "other", "close"}
    /\ waiting \in BOOLEAN /\ drained \in BOOLEAN
    /\ inbox \in {"none", "byte", "newline"}
    /\ index \in 0 .. BufferLength /\ unsent \in 0 .. ResponseLength
    /\ midline \in BOOLEAN /\ cut \in BOOLEAN
    /\ peer \in {"none", "open", "gone"}
    /\ signalled \in BOOLEAN /\ late \in 0 .. 2
    /\ pc \in {"test", "accept", "accepting", "exited"} => peer = "none"

\* let_init has succeeded.
Init ==
    /\ pc = "test" /\ accepting = TRUE /\ executing = FALSE
    /\ error = "NONE" /\ request = "none"
    /\ waiting = FALSE /\ peer = "none" /\ inbox = "none" /\ drained = TRUE
    /\ index = 0 /\ unsent = 0 /\ midline = FALSE /\ cut = FALSE
    /\ signalled = FALSE /\ late = 0

Goto(label) == pc' = label
Keep == UNCHANGED <<accepting, executing, error, request>> /\ UNCHANGED buffers

-----------------------------------------------------------------------------
(* The outer loop.                                                         *)

TestAccepting ==
    /\ pc = "test"
    /\ Goto(IF accepting THEN "accept" ELSE "exited")
    /\ Keep /\ UNCHANGED clients /\ UNCHANGED history

\* accept waits if no connection does.
EnterAccept ==
    /\ pc = "accept" /\ ~waiting
    /\ Goto("accepting")
    /\ Keep /\ UNCHANGED clients /\ UNCHANGED history

Accept ==
    /\ pc \in {"accept", "accepting"} /\ waiting
    /\ waiting' = FALSE /\ peer' = "open" /\ drained' = TRUE
    /\ inbox' = "none" /\ unsent' = 0 /\ midline' = FALSE /\ cut' = FALSE
    /\ late' = IF signalled /\ late < 2 THEN late + 1 ELSE late
    /\ error' = "NONE"
    /\ Goto("accepted")
    /\ UNCHANGED <<accepting, executing, request, index, signalled>>

\* The process leaves the loop with the error set.
AcceptFails ==
    /\ pc \in {"accept", "accepting"}
    /\ error' = "ACCEPT_FAILED"
    /\ Goto("exited")
    /\ UNCHANGED <<accepting, executing, request>> /\ UNCHANGED buffers
    /\ UNCHANGED clients /\ UNCHANGED history

\* let.executing is set, whatever a signal has made of it.
StartExecuting ==
    /\ pc = "accepted"
    /\ executing' = TRUE
    /\ Goto("serve")
    /\ UNCHANGED <<accepting, error, request>> /\ UNCHANGED buffers
    /\ UNCHANGED clients /\ UNCHANGED history

\* Mutant: the connection is left open (let.c:159).
CloseClient_LeavesOpen ==
    /\ pc = "close"
    /\ Goto("test")
    /\ Keep /\ UNCHANGED clients /\ UNCHANGED history

CloseClient ==
    /\ pc = "close"
    /\ peer' = "none" /\ inbox' = "none"
    /\ Goto("test")
    /\ Keep /\ UNCHANGED <<waiting, drained>> /\ UNCHANGED history

-----------------------------------------------------------------------------
(* The inner loop: one request.                                            *)

TestExecuting ==
    /\ pc = "serve"
    /\ request' = "none"
    /\ index' = 0
    /\ Goto(IF executing THEN "recv" ELSE "close")
    /\ UNCHANGED <<accepting, executing, error, unsent, midline, cut>>
    /\ UNCHANGED clients /\ UNCHANGED history

EnterRecv ==
    /\ pc = "recv" /\ inbox = "none" /\ peer = "open"
    /\ Goto("receiving")
    /\ Keep /\ UNCHANGED clients /\ UNCHANGED history

\* A byte of a line goes into the buffer; the line is refused when it is full.
TakeByte ==
    /\ pc \in {"recv", "receiving"} /\ inbox = "byte"
    /\ inbox' = "none" /\ midline' = TRUE
    /\ index' = index + 1
    /\ error' = IF index' = BufferLength THEN "REQUEST_BUFFER_OVERFLOW" ELSE error
    /\ Goto(IF index' = BufferLength THEN "report" ELSE "recv")
    /\ UNCHANGED <<accepting, executing, request, unsent, cut>>
    /\ UNCHANGED <<waiting, peer, drained>> /\ UNCHANGED history

\* The newline: the line is decoded and the request handled.
Handle ==
    /\ pc \in {"recv", "receiving"} /\ inbox = "newline"
    /\ inbox' = "none" /\ midline' = FALSE
    /\ index' = index + 1
    /\ error' \in {"NONE"} \cup HandlerErrors
    /\ request' \in IF error' = "NONE" THEN {"other", "close"} ELSE {"other"}
    /\ Goto("report")
    /\ UNCHANGED <<accepting, executing, unsent, cut>>
    /\ UNCHANGED <<waiting, peer, drained>> /\ UNCHANGED history

\* recv reports the end of the stream.
RecvClosed ==
    /\ pc \in {"recv", "receiving"} /\ peer = "gone" /\ inbox = "none"
    /\ error' = "CLIENT_CLOSED"
    /\ Goto("report")
    /\ UNCHANGED <<accepting, executing, request>> /\ UNCHANGED buffers
    /\ UNCHANGED clients /\ UNCHANGED history

RecvFails ==
    /\ pc \in {"recv", "receiving"}
    /\ error' \in ReadErrors
    /\ Goto("report")
    /\ UNCHANGED <<accepting, executing, request>> /\ UNCHANGED buffers
    /\ UNCHANGED clients /\ UNCHANGED history

\* The response is encoded into the write buffer.
Answer(sends) ==
    /\ unsent' = IF sends THEN ResponseLength ELSE unsent
    /\ cut' = (cut \/ (sends /\ unsent # 0))

\* Mutant: IGNORE does not fall through to the closing of the connection (let.c:123).
Report_IgnoreGoesOn ==
    /\ pc = "report"
    /\ Goto(IF Action(error) \in {"none", "reject", "ignore"} THEN "send" ELSE "serve")
    /\ executing' = (executing /\ Action(error) \in {"none", "reject", "ignore"})
    /\ accepting' = (accepting /\ Action(error) # "fatal")
    /\ error' = IF Action(error) \in {"reject", "ignore"} THEN "NONE" ELSE error
    /\ Answer(pc' = "send")
    /\ UNCHANGED <<request, index, midline>> /\ UNCHANGED clients /\ UNCHANGED history

\* The switch on the action of the error.
Report ==
    /\ pc = "report"
    /\ Goto(IF Action(error) \in {"none", "reject"} THEN "send" ELSE "serve")
    /\ executing' = (executing /\ Action(error) \in {"none", "reject"})
    /\ accepting' = (accepting /\ Action(error) # "fatal")
    /\ error' = IF Action(error) \in {"reject", "ignore"} THEN "NONE" ELSE error
    /\ Answer(pc' = "send")
    /\ UNCHANGED <<request, index, midline>> /\ UNCHANGED clients /\ UNCHANGED history

EnterSend ==
    /\ pc = "send" /\ ~drained /\ peer = "open"
    /\ Goto("sending")
    /\ Keep /\ UNCHANGED clients /\ UNCHANGED history

\* As much of the response is written as there is room for; CLOSE is the last request
\* of its connection.
Send ==
    /\ pc \in {"send", "sending"} /\ drained
    /\ unsent' \in 0 .. unsent - 1
    /\ drained' \in IF unsent' = 0 THEN BOOLEAN ELSE {FALSE}
    /\ IF unsent' = 0
       THEN /\ error' = "NONE" /\ executing' = (executing /\ request # "close")
            /\ Goto("serve")
       ELSE UNCHANGED <<error, executing>> /\ Goto("send")
    /\ UNCHANGED <<accepting, request, index, midline, cut, waiting, peer, inbox>>
    /\ UNCHANGED history

SendFails ==
    /\ pc \in {"send", "sending"}
    /\ error' \in WriteErrors
    /\ Goto("sent")
    /\ UNCHANGED <<accepting, executing, request>> /\ UNCHANGED buffers
    /\ UNCHANGED clients /\ UNCHANGED history

\* Mutant: the connection goes on although the response was not sent (let.c:145).
ReportSend_GoesOn ==
    /\ pc = "sent"
    /\ accepting' = (accepting /\ Action(error) # "fatal")
    /\ executing' = TRUE
    /\ Goto("serve")
    /\ UNCHANGED <<error, request>> /\ UNCHANGED buffers
    /\ UNCHANGED clients /\ UNCHANGED history

\* let.executing is set again unless the action is CLOSE.
ReportSend ==
    /\ pc = "sent"
    /\ accepting' = (accepting /\ Action(error) # "fatal")
    /\ executing' = (Action(error) # "close")
    /\ Goto("serve")
    /\ UNCHANGED <<error, request>> /\ UNCHANGED buffers
    /\ UNCHANGED clients /\ UNCHANGED history

-----------------------------------------------------------------------------
(* Signals and clients.                                                    *)

\* A system call that waits returns EINTR: SERVER_CLOSED.
Interrupted ==
    CASE pc = "accepting" -> "exited"
      [] pc = "receiving" -> "report"
      [] pc = "sending" -> "sent"
      [] OTHER -> pc

\* Mutant: the loop that accepts is not told (let.c:165).
Signal_KeepsAccepting ==
    /\ pc # "exited"
    /\ executing' = FALSE
    /\ signalled' = TRUE
    /\ pc' = Interrupted
    /\ error' = IF pc \in Waits THEN "SERVER_CLOSED" ELSE error
    /\ UNCHANGED <<accepting, request, late>> /\ UNCHANGED buffers /\ UNCHANGED clients

\* SIGTERM or SIGINT: let_close, then the interrupted call returns.
Signal ==
    /\ pc # "exited"
    /\ executing' = FALSE /\ accepting' = FALSE
    /\ signalled' = TRUE
    /\ pc' = Interrupted
    /\ error' = IF pc \in Waits THEN "SERVER_CLOSED" ELSE error
    /\ UNCHANGED <<request, late>> /\ UNCHANGED buffers /\ UNCHANGED clients

ClientConnects ==
    /\ ~waiting /\ waiting' = TRUE
    /\ UNCHANGED <<peer, inbox, drained>> /\ UNCHANGED loop /\ UNCHANGED history

ClientSends ==
    /\ peer = "open" /\ inbox = "none" /\ inbox' \in {"byte", "newline"}
    /\ UNCHANGED <<waiting, peer, drained>> /\ UNCHANGED loop /\ UNCHANGED history

ClientReads ==
    /\ peer = "open" /\ ~drained /\ drained' = TRUE
    /\ UNCHANGED <<waiting, peer, inbox>> /\ UNCHANGED loop /\ UNCHANGED history

ClientLeaves ==
    /\ peer = "open" /\ peer' = "gone"
    /\ UNCHANGED <<waiting, inbox, drained>> /\ UNCHANGED loop /\ UNCHANGED history

-----------------------------------------------------------------------------
LoopStep ==
    \/ TestAccepting \/ EnterAccept \/ Accept \/ StartExecuting \/ CloseClient
    \/ TestExecuting \/ EnterRecv \/ TakeByte \/ Handle \/ RecvClosed \/ Report
    \/ EnterSend \/ Send \/ (SendFails /\ peer = "gone") \/ ReportSend

\* What may happen to a call and need not: its failure or its timeout.
Failure == AcceptFails \/ RecvFails \/ (SendFails /\ peer = "open")

Clients == ClientConnects \/ ClientSends \/ ClientReads \/ ClientLeaves

Next ==
    \/ LoopStep \/ Failure \/ Signal \/ Clients
    \/ pc = "exited" /\ UNCHANGED vars

Spec == Init /\ [][Next]_vars

\* The process runs; a call that waits ends only by what it waits for.  Clients come
\* and go: someone connects, and whoever is served leaves.
BusySpec == Spec /\ WF_vars(LoopStep) /\ WF_vars(ClientConnects) /\ WF_vars(ClientLeaves)

-----------------------------------------------------------------------------
\* After a signal at most one more connection is accepted: the one whose accept the
\* signal came too late to interrupt (let.c:77, 84).
OneMoreAtMost == late <= 1

\* A process that stops because of a signal exits, as long as clients come and go,
\* though the loop sets `executing` again behind the handler's back (let.c:97, 145).
\* Without clients it may wait for ever in a call it entered after the signal.
StopsWithClients == signalled ~> pc = "exited"

\* A line is decoded from its first byte on: whatever ends the reading of a line half
\* way, the rest of that line is never taken for a request (server.c:109, 141).
WholeLines == pc = "recv" /\ index = 0 => ~midline

\* A response is sent whole before the next one is begun, so that answers cannot shift
\* against requests, unless a signal has interrupted a send (let.c:145).
WholeResponses == cut => signalled

=============================================================================
